------------------------------- MODULE AddrUnit -------------------------------
(***************************************************************************)
(* go-xsched/xsched.go, addrUnit: the health of one backend address.        *)
(* Feedback counts successes and failures; the first feedback after the     *)
(* sampling period ends judges the sample, adapts the two periods and, when *)
(* too much failed, takes the address out for waitInterval.  Both methods   *)
(* run under the unit's lock and are one step.  The clock is represented by *)
(* the time left until sampleTime and wakeupTime.                           *)
(***************************************************************************)
EXTENDS Naturals

CONSTANTS MinSample, MaxSample,  \* minSamplePeriod, maxSamplePeriod
          SamplePeriods,         \* what the shifts make of them in between
          MinWait, MaxWait,      \* minWaitInterval, maxWaitInterval
          WaitIntervals,         \* what the shifts make of them in between
          MaxTotal               \* bound: feedbacks counted before a sample ends

\* From lo to hi by doubling, and back by halving, without a remainder.
Doublings(S, lo, hi) == /\ lo \in Nat \ {0} /\ hi \in Nat
                        /\ S \subseteq lo .. hi /\ {lo, hi} \subseteq S
                        /\ \A t \in S : /\ t < hi => t * 2 \in S
                                        /\ t > lo => t % 2 = 0 /\ t \div 2 \in S

\* The code's values are 2 s, 32 s, 2 s and 128 s: the waiting time grows by
\* more than the sampling period shrinks.
PeriodsAssumption == /\ Doublings(SamplePeriods, MinSample, MaxSample)
                     /\ Doublings(WaitIntervals, MinWait, MaxWait)
                     /\ MaxSample * MinWait <= MinSample * MaxWait
                     /\ MaxTotal \in Nat

VARIABLES available,    \* the verdict on the last sample
          total, fail,  \* the feedbacks of this sample and the failed ones
          samplePeriod,
          waitInterval,
          sampleLeft,   \* time until sampleTime; 0: it has passed
          wakeLeft,     \* time until wakeupTime; 0: it has passed
          restored      \* environment: no call of this address fails any more

counts == <<total, fail>>
vars == <<available, counts, samplePeriod, waitInterval, sampleLeft, wakeLeft, restored>>

\* newAddrUnit
Init == /\ available = TRUE
        /\ total = 0 /\ fail = 0
        /\ samplePeriod = MaxSample
        /\ waitInterval = MinWait
        /\ sampleLeft = MaxSample
        /\ wakeLeft = 0
        /\ restored = FALSE

IsAvailable == available \/ wakeLeft = 0

SampleEnded == sampleLeft = 0

\* failRate < 0.1, of the sample that ends with this feedback.
GoodSample(failed) == 10 * failed < total + 1

Failed(result) == IF result THEN fail ELSE fail + 1

\* The sampling period goes on: only count.
FeedbackCount(result) == /\ ~SampleEnded
                         /\ total < MaxTotal
                         /\ total' = total + 1
                         /\ fail' = Failed(result)
                         /\ UNCHANGED <<available, samplePeriod, waitInterval, sampleLeft, wakeLeft, restored>>

\* Mutant of FeedbackGood: the waiting time is reset instead of halved while
\* the sampling period only doubles.
FeedbackGoodReset(result) ==
    /\ SampleEnded
    /\ GoodSample(Failed(result))
    /\ available' = TRUE
    /\ samplePeriod' = IF samplePeriod < MaxSample THEN samplePeriod * 2 ELSE samplePeriod
    /\ waitInterval' = MinWait
    /\ sampleLeft' = samplePeriod'
    /\ total' = 0 /\ fail' = 0
    /\ UNCHANGED <<wakeLeft, restored>>

\* A good sample: sample longer, wait less.
FeedbackGood(result) ==
    /\ SampleEnded
    /\ GoodSample(Failed(result))
    /\ available' = TRUE
    /\ samplePeriod' = IF samplePeriod < MaxSample THEN samplePeriod * 2 ELSE samplePeriod
    /\ waitInterval' = IF waitInterval > MinWait THEN waitInterval \div 2 ELSE waitInterval
    /\ sampleLeft' = samplePeriod'
    /\ total' = 0 /\ fail' = 0
    /\ UNCHANGED <<wakeLeft, restored>>

\* Mutant of FeedbackBad: the next sample does not wait for wakeupTime.
FeedbackBadNoWait(result) ==
    /\ SampleEnded
    /\ ~GoodSample(Failed(result))
    /\ available' = FALSE
    /\ samplePeriod' = IF samplePeriod > MinSample THEN samplePeriod \div 2 ELSE samplePeriod
    /\ waitInterval' = IF waitInterval < MaxWait THEN waitInterval * 2 ELSE waitInterval
    /\ wakeLeft' = waitInterval'
    /\ sampleLeft' = samplePeriod'
    /\ total' = 0 /\ fail' = 0
    /\ UNCHANGED restored

\* Mutant of FeedbackBad: the counters go on into the next sample.
FeedbackBadKeeps(result) ==
    /\ SampleEnded
    /\ ~GoodSample(Failed(result))
    /\ available' = FALSE
    /\ samplePeriod' = IF samplePeriod > MinSample THEN samplePeriod \div 2 ELSE samplePeriod
    /\ waitInterval' = IF waitInterval < MaxWait THEN waitInterval * 2 ELSE waitInterval
    /\ wakeLeft' = waitInterval'
    /\ sampleLeft' = waitInterval' + samplePeriod'
    /\ UNCHANGED <<counts, restored>>

\* A bad sample: sample shorter, wait longer, and sample again after that.
FeedbackBad(result) ==
    /\ SampleEnded
    /\ ~GoodSample(Failed(result))
    /\ available' = FALSE
    /\ samplePeriod' = IF samplePeriod > MinSample THEN samplePeriod \div 2 ELSE samplePeriod
    /\ waitInterval' = IF waitInterval < MaxWait THEN waitInterval * 2 ELSE waitInterval
    /\ wakeLeft' = waitInterval'
    /\ sampleLeft' = waitInterval' + samplePeriod'
    /\ total' = 0 /\ fail' = 0
    /\ UNCHANGED restored

Feedback(result) == FeedbackCount(result) \/ FeedbackGood(result) \/ FeedbackBad(result)

Less(t) == IF t = 0 THEN 0 ELSE t - 1

\* Time passes.
Tick == /\ sampleLeft' = Less(sampleLeft)
        /\ wakeLeft' = Less(wakeLeft)
        /\ UNCHANGED <<available, counts, samplePeriod, waitInterval, restored>>

\* The host is well again: from now on only successes are reported.
Restore == /\ ~restored
           /\ restored' = TRUE
           /\ UNCHANGED <<available, counts, samplePeriod, waitInterval, sampleLeft, wakeLeft>>

Next == \/ Tick
        \/ Restore
        \/ \E result \in BOOLEAN : (restored => result) /\ Feedback(result)

\* A success reported of an available address at the end of a sampling period.
Answered == IsAvailable /\ (FeedbackGood(TRUE) \/ FeedbackBad(TRUE))

\* Time goes on, and an address that the scheduler hands out is used and
\* reported on.
Fairness == WF_vars(Tick) /\ WF_vars(Answered)

Spec == Init /\ [][Next]_vars /\ Fairness

-----------------------------------------------------------------------------
(* Properties.                                                              *)

\* Type invariant: the periods stay between their limits.
TypeOK == /\ available \in BOOLEAN
          /\ total \in 0 .. MaxTotal
          /\ fail \in 0 .. total
          /\ samplePeriod \in MinSample .. MaxSample
          /\ waitInterval \in MinWait .. MaxWait
          /\ sampleLeft \in 0 .. MaxWait + MaxSample
          /\ wakeLeft \in 0 .. MaxWait
          /\ restored \in BOOLEAN

\* xsched.go:328 "the more times it fails, the more likely it will fail next
\* time": what failures take from the sampling period they give at least to
\* the waiting time, whatever limits either has met, so an address that is
\* sampled briefly also waits long.
BackoffKeepsPace == samplePeriod * waitInterval >= MaxSample * MinWait

\* An address that was taken out comes back by time alone: feedback that
\* arrives while it waits, of calls begun before, cannot wake it up early.
OnlyTimeWakes == [][~IsAvailable /\ IsAvailable' => Tick]_vars

\* Once the host is well again the address recovers for good: what was counted
\* before the recovery can take it out at most once more.
Recovers == restored ~> []IsAvailable

=============================================================================
