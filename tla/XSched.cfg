CONSTANTS
  Procs = {g1, g2}
  Addrs = {a1, a2, a3}
  MaxWeight = 4
  Lone = g1
  MaxSingle = 3
  MaxSum = 6
  FewAddrs = {a1, a2}
  FewWeights = {0, 1, 4}
  Strs <- Distinct
  None = None
  MinSample = 1
  MaxSample = 16
  SamplePeriods = {1, 2, 4, 8, 16}
  MinWait = 1
  MaxWait = 64
  WaitIntervals = {1, 2, 4, 8, 16, 32, 64}
  MaxTotal = 11
SPECIFICATION SchedSpec
INVARIANTS WeightsFaithful Proportional LastResort NoFalseOutage BackoffKeepsPace
PROPERTIES RemoveKeepsCursor OnlyTimeWakes Recovers
