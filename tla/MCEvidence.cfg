SPECIFICATION PartsSpec
CONSTANTS
    Event <- MCEvent
    Want <- MCWant
    MaxAge = 5
    Skew = 1
    Attempts = 3
    RetryDelay = 2
    CallMax = 1
    MaxDepth = 4
    Start = 2
    MaxTime = 9
    Gateway <- MCGateway
    Key <- MCKey
    Nonce = {"n1", "n2"}
    Digest = {"d1", "text"}
    TxDigest = {"d1"}
    MaxSigned = 2
PROPERTIES
  DecidedByTheChain
  FetchEnds
  PauseNotIgnored
  ProofMeansItsSigner
CHECK_DEADLOCK FALSE
