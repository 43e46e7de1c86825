CONSTANTS
  alloc = alloc
  hash = hash
  System = "Darwin"
  Backend <- MCBackend
  None = None
  Torn = Torn
  MaxBuilds = 2
  MaxPackages = 2
  MaxStops = 2
SPECIFICATION Spec
SYMMETRY MCSymmetry
CHECK_DEADLOCK FALSE
INVARIANTS
  PackagedModulesResolve
