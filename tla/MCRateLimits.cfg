SPECIFICATION PartsSpec
CONSTANTS
  k1 = k1  k2 = k2  k3 = k3
  Key = {k1, k2, k3}
  Window = 2
  IpBudget = 2
  PreauthBudget = 0
  AddressBudget = 0
  MaxKeys = 2
  MaxTime = 5
  MaxLog = 6
  Shards = {"eu", "g"}
  ShardBudget = 1
SYMMETRY Symmetry
INVARIANTS
  SweepInvisible
  BurstsBounded
  FairAtTheCap
  ShardBudgets
CHECK_DEADLOCK FALSE
