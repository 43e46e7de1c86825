CONSTANTS
  MaxMessages = 3
  MaxBatch = 3
SPECIFICATION FairCallSpec
CHECK_DEADLOCK FALSE
INVARIANTS
  CallsArePipe
PROPERTIES
  CallsReturn
