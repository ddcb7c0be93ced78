SPECIFICATION Spec
CONSTANTS
  KeyPairs <- TwoAlgorithms
  MaxItems = 2
  MaxSubmits = 1
  Faults = {}
PROPERTIES LikeSignRaw
