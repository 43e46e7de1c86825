CONSTANTS
  MaxRequests = 4
  MaxRecords = 4
SPECIFICATION FairSpec
CHECK_DEADLOCK FALSE
INVARIANTS
  TypeOK
  OutputReachesTheSession
  ResponsesInOrder
PROPERTIES
  NothingWaitsForEver
