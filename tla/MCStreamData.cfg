SPECIFICATION Spec
CONSTANTS
  x = x
  y = y
  NL = NL
  None = None
  Bytes = {x, y, NL}
  LIMIT = 4
  Sizes = {1, 2}
  Counts = {0, 1, 2, 3}
  Rooms = {1, 2, 4}
  Offsets <- MCOffsets
  Orderly = TRUE
INVARIANTS
  PlaceKept
PROPERTY RefinesTape
CHECK_DEADLOCK FALSE
