CONSTANTS
  MaxRequests = 1
  MaxRecords = 1
SPECIFICATION Spec
CHECK_DEADLOCK FALSE
INVARIANT DrainedAfterDrop
