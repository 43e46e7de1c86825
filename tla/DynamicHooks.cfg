CONSTANTS
  t1 = t1
  t2 = t2
  Threads <- MCThreads
  NoThread = NoThread
  Poisoned = Poisoned
  MaxShutdowns = 1
SPECIFICATION Spec
INVARIANT HooksRunOnce
