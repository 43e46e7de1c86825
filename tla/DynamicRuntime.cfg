CONSTANTS
  t1 = t1
  t2 = t2
  Threads <- MCThreads
  NoThread = NoThread
  Poisoned = Poisoned
  MaxShutdowns = 2
SPECIFICATION FairSpec
CHECK_DEADLOCK FALSE
INVARIANTS
  GuardCoversTheNativeRuntime
  DestroyedAfterCleanShutdown
PROPERTIES
  LoadReturns
