SPECIFICATION Spec
CONSTANTS
  f1 = f1
  f2 = f2
  h1 = h1
  h2 = h2
  t1 = t1
  Null = Null
  Files = {f1, f2}
  Handles = {h1, h2}
  Temps = {t1}
  Modes <- MCModes
  RefusedReopen = {"stdin", "stdout", "stderr"}
INVARIANTS
  ChainHoldsOpen
  HostOwned
  ExitClosesAll
PROPERTIES
  ExitEnds
  RefinesStreams
