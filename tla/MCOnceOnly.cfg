SPECIFICATION PartsSpec
CONSTANTS
  Isolate = {"i1", "i2"}
  Region = {"eu", "us"}
  Home <- MCHome
  Nonce = {"n"}
  Ttl = 1
  KvMinTtl = 2
  MaxNonces = 1
  MaxNonceTime = 2
  MaxEvict = 1
  NoToken = NoToken
  Request = {r1, r2, r3}
  Consume = {c1, c2}
  LeaseTtl = 4
  Retention = 4
  MaxAge = 1
  Skew = 1
  ForwardMax = 1
  CallMax = 1
  LeaseGap = 1
  MaxEntries = 1
  Unreliable = TRUE
  Stamps = {1, 2}
  LastArrival = 4
  LastLate = 8
  MaxTime = 8
SYMMETRY Symmetry
INVARIANTS
  AtMostOneRedemption
  SuccessIsRecorded
  NoConcurrentUploads
PROPERTIES
  RowsKeepTheirOwners
  ImplementsSingleUse
  FullTableSpendsOnce
  KvNoncesHold
