SPECIFICATION PartsSpec
CONSTANTS
  Nobody = Nobody
  Check = {q1, q2, q3}
  Wallet = {w1, w2, w3}
  Elsewhere = w3
  Pass = {1, 2, 3, 4}
  PageSize = 1
  MaxPages = 3
  CacheTtl = 2
  MaxCache = 1
  Timeout = 1
  CallMax = 1
  Unreliable = TRUE
  MaxChanges = 2
  MaxTime = 5
SYMMETRY Symmetry
INVARIANTS
  GrantIsRecent
  RefusalsAreRecent
