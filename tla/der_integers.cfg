SPECIFICATION Spec
CONSTANTS
  Half = 2
  ShortLen = 2
  Octets <- Edges
  MaxLen = 3
  Err = Err
CHECK_DEADLOCK FALSE
INVARIANTS HalvesAreTheIntegers EverySignatureIsTaken ExponentAndModulus
