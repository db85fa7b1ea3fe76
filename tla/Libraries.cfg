CONSTANTS
  RedirectTrailingSlash = TRUE
  RedirectFixedPath = TRUE
  HandleOptions = TRUE
  HandleMethodNotAllowed = TRUE
  Procs = {g1, g2}
  Addrs = {a1, a2}
  Pools = {q1, q2, q3}
  MaxGets = 3
  Lone = g1
  FewAddrs = {a1}
  FewGets = 2
  Callers = {c1, c2}
  Second = 2
  Limits = {1, 2}
  Durations = {1, 3}
  MaxTime = 6
  Pids = {d1, d2}
  None = None
  Nothing = Nothing
  Sizes <- MCSizes
  Ages <- MCAges
SPECIFICATION LibrariesSpec
CHECK_DEADLOCK FALSE
INVARIANTS Canonical ServesRoutes RefusesConflicts TrailingSlashFound RoutedAnswered CleanCanonical NoOrphan CloseReachesAll EndedFilterMasks AllowedPerPeriod PidWhole ExportKeeps
PROPERTY CallsReturn
