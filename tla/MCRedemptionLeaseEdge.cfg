SPECIFICATION Spec
CONSTANTS
  NoToken = NoToken
  Request = {r1, r2}
  Consume = {c1}
  LeaseTtl = 2
  Retention = 9
  MaxAge = 5
  Skew = 1
  ForwardMax = 1
  CallMax = 1
  LeaseGap = 1
  MaxEntries = 2
  Unreliable = FALSE
  Stamps = {1}
  LastArrival = 6
  LastLate = 6
  MaxTime = 8
INVARIANT NoConcurrentUploads
