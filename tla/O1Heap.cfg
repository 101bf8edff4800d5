SPECIFICATION Spec
CONSTANTS
  SIZE_BITS = 5
  ALIGN_LOG = 0
  INSTANCE_SIZE_PADDED = 3
  ARENA_SIZE = 14
  Amounts = {0, 1, 2, 7, 10}
  OOM_BOUND = 1
INVARIANTS
  Tiling
  FreeLists
  Coalesced
  DiagnosticsHold
PROPERTIES
  OutOfMemoryOnlyWhenFull
  RefinesAllocator
CHECK_DEADLOCK FALSE
