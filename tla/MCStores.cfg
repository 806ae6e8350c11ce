SPECIFICATION PartsSpec
CONSTANTS
    c1 = c1  c2 = c2
    k1 = k1  k2 = k2
    n1 = n1  n2 = n2
    Client = {c1, c2}
    Key = {k1, k2}
    Nonce = {n1, n2}
    NoToken = NoToken
    LeaseTtl = 1
    Retention = 2
    NonceTtl = 1
    MaxEntries = 1
    MaxTime = 3
    ObjectNonce <- MCObjectNonce
    Shards = {"eu", "g"}
    Continent = {"eu", "xx"}
    Global = FALSE
    ObjectMaxTime = 3
SYMMETRY Symmetry
INVARIANTS
  RefusalWasContested
  StoresAreRouted
PROPERTIES
  ImplementsStateStore
  ForgetsNoRedemption
  ObjectsImplementPort
CHECK_DEADLOCK FALSE
