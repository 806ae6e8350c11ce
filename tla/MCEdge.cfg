SPECIFICATION PartsSpec
CONSTANTS
    Request = {r1, r2}
    Shape <- MCShape
    PublicPaths = {"/pub"}
    Allowed = {"https://a"}
    Ttls = {0, 1}
    OriginAge = 3
    UpstreamTimeout = 1
    MaxPut = 1
    MaxTime = 3
    MaxPage = 2
    MaxTasks = 2
    Credential = {"authorization", "cf-access-id"}
    HopByHop = {"connection", "te"}
    Private = {"set-cookie"}
    Plain = {"content-type", "x-custom"}
    Auth = {"cf-access-id"}
    Entry <- MCEntry
    Origin = {"", "https://a", "https://b"}
    MaxHops = 3
    Client <- MCClient
    Forged <- MCForged
    Proxies = {0, 1, 2}
    MaxCharged = 2
    Platforms = {"native", "worker"}
    Bases <- MCBases
    Edits <- MCEdits
    RequestPaths <- MCRequestPaths
    Stamps = {60}
    Skew = 60
    LeaseGap = 1
    Steps = {3661}
    MaxEdits = 2
    MaxConfigTime = 3661
    GuardSettings <- MCGuardSettings
    Starts <- MCStarts
    DayLength = 2
    Allowance <- MCAllowance
SYMMETRY Symmetry
INVARIANTS
  CacheSharesSafely
  Freshness
  OneBudgetEach
  ServesAsConfigured
  WarnsWhenDue
PROPERTIES
  HeadersStayClean
  SpentOnce
CHECK_DEADLOCK FALSE
