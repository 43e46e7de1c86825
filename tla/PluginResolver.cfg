CONSTANTS
  Dirs <- MCDirs
  Parent <- MCParent
  DepsDirs <- MCDepsDirs
  None = None
  MaxChanges = 1
SPECIFICATION ResolverSpec
CHECK_DEADLOCK FALSE
INVARIANTS
  TheRightPluginIsChosen
