SPECIFICATION PartsSpec
CONSTANTS
  NoNonce = NoNonce
  Request = {r1, r2, r3}
  Nonce = {n1, n2, n3}
  Head <- AllHeads
  ChallengeTtl = 2
  MaxNonces = 2
  Unreliable = TRUE
  MaxChanges = 2
  MaxTime = 2
SYMMETRY Symmetry
INVARIANTS
  NonceAdmitsOnce
  HandedOutNonceWorks
  UpstreamIsAuthorised
  NobodyAheadOfEvidence
PROPERTIES
  OnlySoundProofBurnsNonce
