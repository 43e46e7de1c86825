CONSTANTS
  t1 = t1
  t2 = t2
  t3 = t3
  Threads <- MCThreads
  NoThread = NoThread
  MaxShutdowns = 2
SPECIFICATION Spec
SYMMETRY MCSymmetry
INVARIANTS
  TypeOK
  StartedAtMostOnce
  OneUserOfTheBackend
  ShutdownIsComplete
  HooksRepeatOnlyAfterFailure
  CallsReachTheirTransport
PROPERTY ImplementsSingleStart
