SPECIFICATION Spec
CONSTANTS
  NUL = NUL
  NULL = NULL
  Mixed = 4
  Redirected = 7
  InQuotes = 6
  Commands <- MCCommands
INVARIANTS
  WritesBehind
  WordsDecoded
  RestKept
CHECK_DEADLOCK FALSE
