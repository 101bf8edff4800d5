SPECIFICATION Spec
CONSTANTS
  NUL = NUL
  NULL = NULL
  Mixed = 0
  Redirected = 0
  InQuotes = 3
  Commands <- MCQuoted
INVARIANT MainGetsWords
CHECK_DEADLOCK FALSE
