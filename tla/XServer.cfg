CONSTANTS
  Servers = {1, 2}
  Generations = 2
  Conns = {c1}
  None = None
  EarlySignals = FALSE
SPECIFICATION Spec
CHECK_DEADLOCK FALSE
INVARIANT NilMeansDrained
PROPERTY TermExits
