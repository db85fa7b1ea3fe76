CONSTANTS
  Procs = {p1, p2}
  Records = {r1, r2, r3}
  BcCap = 1
  ErrCap = 1
  None = None
  MaxSize = 2
  MaxBackups = 2
  MaxAge = 1
  Lengths = {1, 2}
  Before <- MCBefore
  SizeBound = 4
  StuckBound = 1
  Lone = p1
  FewRecords = {r1, r2}
SPECIFICATION MCSpec
CHECK_DEADLOCK FALSE
INVARIANTS CloseFlushesAll FilesBounded
PROPERTIES CallsReturn RotationExpires
