SPECIFICATION MallocSpec
CONSTANTS
  SIZE_BITS = 6
  ALIGN_LOG = 2
  INSTANCE_SIZE_PADDED = 4
  ARENA_SIZE = 38
  Amounts <- MCAmounts
  OOM_BOUND = 1
  HEADER = 2
  INT_BITS = 5
  Counts = {0, 2}
INVARIANT
  ClientOwnsUsed
PROPERTIES
  ReallocCopies
  RefinesClient
CHECK_DEADLOCK FALSE
