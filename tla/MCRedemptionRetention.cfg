SPECIFICATION Spec
CONSTANTS
  NoToken = NoToken
  Request = {r1, r2}
  Consume = {c1}
  LeaseTtl = 3
  Retention = 3
  MaxAge = 3
  Skew = 1
  ForwardMax = 1
  CallMax = 0
  LeaseGap = 0
  MaxEntries = 2
  Unreliable = FALSE
  Stamps = {1}
  LastArrival = 6
  LastLate = 6
  MaxTime = 8
INVARIANT AtMostOneRedemption
