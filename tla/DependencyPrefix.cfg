CONSTANTS
  zlib = zlib
  uuid = uuid
  jsonc = jsonc
  Deps <- MCDeps
  DepOrder <- MCDepOrder
  Checkouts <- MCCheckouts
  Probed <- MCProbed
  Versions = {"old", "new"}
  None = None
  Unborn = Unborn
  MaxEdits = 2
  MaxStops = 2
SPECIFICATION PrefixSpec
INVARIANTS
  FullPrefixIsPinned
