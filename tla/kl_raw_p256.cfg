SPECIFICATION Spec
CONSTANTS
  Callers = {c1}
  Pairs = {p1}
  NoPair = NoPair
  Servers <- OnlyFortanix
  PoolSize = 1
  MaxCalls = 1
  Operations = {"generate"}
  Params <- OnlyP256
  ImportAlgs = {}
  Faults = {}
PROPERTIES GeneratedKeyIsLocated
