SPECIFICATION Spec
CONSTANTS
  NULL = NULL
  Files = {f1, f2}
  ATEXIT_MAX = 2
  REGISTRATIONS = 2
  INTERRUPTS = 3
  DEPTH = 4
INVARIANTS
  RunInReverse
  EarlyHandlersRun
  FilesClosed
  SignalsHandled
PROPERTY ExitEnds
CHECK_DEADLOCK FALSE
