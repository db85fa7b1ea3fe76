CONSTANTS
  Procs = {p1, p2}
  Conns = {c1, c2}
  XConns = {x1, x2, x3}
  Capacity = 1
  CloseMayFail = TRUE
  None = None
  NoBuffer = NoBuffer
  NoElement = NoElement
  Users = {u1, u2, u3}
  Bufs = {b1, b2, b3, b4, b5}
  BufCap = 2
  CacheProcs = {h1, h2}
  k1 = k1
  k2 = k2
  Keys = {k1, k2}
  Buckets = 2
  Home <- MCHome
  Lives = {0, 1}
  MaxSets = 2
  MaxNow = 3
SPECIFICATION PoolsSpec
CHECK_DEADLOCK FALSE
INVARIANTS TypeOK ExclusiveOwnership NoLeak PooledConnsOpen PooledUnused FinalizedOnce
PROPERTIES ImplementsLedger CallsReturn CleanerWorks
