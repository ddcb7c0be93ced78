SPECIFICATION Spec
CONSTANTS
  Callers = {c1, c2}
  Pairs = {p1, p2}
  NoPair = NoPair
  Servers <- StrictAndLenient
  PoolSize = 2
  MaxCalls = 4
  Operations = {"generate", "destroy", "sign_raw"}
  Params <- CurveParams
  ImportAlgs = {}
  Faults = {"connect", "network", "server", "odd", "strangers"}
SYMMETRY Symmetry
INVARIANTS TypeOK OnePairPerCall DeliveredAreUsable KeyPairsMatch
           SignaturesVerify NoHoldAndWait DestroyedIsFinal
PROPERTIES ActivationAfterLocation FailureLeavesNothingActive CustodyKept
