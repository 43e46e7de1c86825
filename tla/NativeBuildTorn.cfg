CONSTANTS
  jsonc = jsonc
  old = old
  new = new
  Deps <- MCDeps
  Probed <- MCProbed
  Versions <- MCVersions
  None = None
  MaxEdits = 2
  MaxStops = 1
SPECIFICATION Spec
SYMMETRY MCSymmetry
INVARIANTS
  MaterializedIsComplete
