CONSTANTS
  Procs = {g1, g2}
  Addrs = {a1}
  Pools = {q1, q2}
  MaxGets = 2
  None = None
SPECIFICATION Spec
CHECK_DEADLOCK FALSE
INVARIANT SinglePoolPerAddress
