SPECIFICATION Spec
CONSTANTS
  x = x
  y = y
  NL = NL
  None = None
  Bytes = {x, y, NL}
  LIMIT = 4
  Sizes = {1, 2}
  Counts = {0, 1, 2, 3}
  Rooms = {1, 2, 4}
  Offsets <- MCOffsets
  Orderly = FALSE
INVARIANT ItemsCounted
CHECK_DEADLOCK FALSE
