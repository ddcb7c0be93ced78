SPECIFICATION Spec
CONSTANTS
  KeyPairs <- TwoServers
  MaxItems = 3
  MaxSubmits = 2
  Faults = {"connect", "network", "odd", "revoked"}
INVARIANTS TypeOK SignedAtMostOnce QueuedSignaturesAreNotCut
PROPERTIES ItemsLeaveInRequests LikeSignRawIfAlike
