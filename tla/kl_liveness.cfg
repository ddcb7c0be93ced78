SPECIFICATION FairSpec
CONSTANTS
  Callers = {c1, c2, c3}
  Pairs = {p1}
  NoPair = NoPair
  Servers <- OnlySecurosys
  PoolSize = 1
  MaxCalls = 3
  Operations = {"generate", "from_metadata", "destroy", "sign_raw"}
  Params <- P256AndRsa
  ImportAlgs = {"ED25519", "RSASHA1"}
  Faults = {}
INVARIANTS OnlyPublicHalvesArePublished
PROPERTIES EveryCallReturns
