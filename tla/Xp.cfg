CONSTANTS
  Calls = {r1, r2}
  Conns = {c1, p1}
  Piped = {p1}
  Requests = {r1, r2, 1, 2}
  Burst = 2
  QueueSize = 1
  Capacity = 1
  None = None
SPECIFICATION Spec
CHECK_DEADLOCK FALSE
INVARIANTS ResponseMatches IdleServed PipelineServed
PROPERTY RoundTripReturns
