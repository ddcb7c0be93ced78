SPECIFICATION Spec
CONSTANTS
  Callers = {c1, c2}
  Pairs = {p1, p2, p3}
  NoPair = NoPair
  Servers <- Vendors
  PoolSize = 1
  MaxCalls = 3
  Operations = {"generate", "from_urls", "destroy", "sign_raw"}
  Params <- VendorParams
  ImportAlgs = {}
  Faults = {}
SYMMETRY Symmetry
INVARIANTS UrlsKeepTheAlgorithm
PROPERTIES GenerateSucceeds
