CONSTANTS
  t1 = t1
  t2 = t2
  t3 = t3
  Threads <- MCThreads
  NoThread = NoThread
  MaxShutdowns = 1
SPECIFICATION Spec
INVARIANT EarlyFailureDoesNotPoison
