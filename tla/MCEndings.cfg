SPECIFICATION PartsSpec
CONSTANTS
  NoToken = NoToken
  r1 = r1
  r2 = r2
  c1 = c1
  Conn = {k1, k2, k3}
  MaxConnections = 2
  MaxInFlight = 1
  Grace = 2
  Redis = TRUE
  Attempts = 6
  Platforms = {"native", "worker"}
  MaxBody = 2
  BodyTimeout = 1
  UpstreamTimeout = 2
  MaxChanges = 1
  MaxRuns = 2
INVARIANTS
  NothingLeaks
  DeploymentHolds
PROPERTIES
  RedemptionsEnd
  ProcessesEnd
  ServesFairly
  ForwardHolds
CHECK_DEADLOCK FALSE
