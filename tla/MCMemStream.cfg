SPECIFICATION Spec
CONSTANTS
  a1 = a1
  a2 = a2
  None = None
  Bases = {a1, a2}
  INITIAL_SIZE = 3
  INCREASE_SIZE = 2
  LIMIT = 8
  Bytes = {1, 2}
  Lengths = {1, 2, 4}
  Offsets <- MCOffsets
  Careful = TRUE
INVARIANTS
  ContentKept
  ViewLive
  WriteStores
CHECK_DEADLOCK FALSE
