------------------------------- MODULE MCXSched -------------------------------
(* Model-checking instance of go-xsched.  A behaviour exercises one part: the *)
(* scheduler (XSched) with one caller and many item lists, the scheduler with *)
(* several callers and a few lists, or the health of one address (AddrUnit).  *)
(* What is not of the part stays in its initial state, so the states of the   *)
(* three add up.                                                              *)
EXTENDS XSched

CONSTANTS MinSample, MaxSample, SamplePeriods, MinWait, MaxWait, WaitIntervals, MaxTotal,
          Lone,               \* part "Weights": the only caller of Get,
          MaxSingle, MaxSum,  \* the largest weight and sum of weights
          FewAddrs,           \* part "Callers": the addresses
          FewWeights          \* and their weights

VARIABLES part,
          available, total, fail, samplePeriod, waitInterval, sampleLeft, wakeLeft, restored

Unit == INSTANCE AddrUnit

unitVars == <<available, total, fail, samplePeriod, waitInterval, sampleLeft, wakeLeft, restored>>

ASSUME UnitAssumption == Unit!PeriodsAssumption

\* Lists of up to three items without a repeated address.
Distinct == {strs \in BoundedSeq(Items, 3) :
                IsInjective([k \in DOMAIN strs |-> strs[k].address])}

allVars == <<part, vars, unitVars>>

\* Every list and weight up to a bound with one caller of Get, or every caller
\* with fewer addresses and weights further apart.
Instance == \/ /\ part = "Weights"
               /\ max * delta <= MaxSingle /\ SumFunction(conf) <= MaxSum
               /\ \A p \in Procs \ {Lone} : ~InGet(p)
            \/ /\ part = "Callers"
               /\ \A a \in Addrs : conf[a] \in IF a \in FewAddrs THEN FewWeights ELSE {0}

SchedInit == /\ part \in {"Weights", "Callers", "AddrUnit"}
             /\ Init /\ IF part = "AddrUnit" THEN addrs = <<>> ELSE Instance
             /\ Unit!Init

SchedNext == /\ UNCHANGED part
             /\ \/ part # "AddrUnit" /\ Next /\ Instance' /\ UNCHANGED unitVars
                \/ part = "AddrUnit" /\ Unit!Next /\ UNCHANGED vars

SchedSpec == /\ SchedInit
             /\ [][SchedNext]_allVars
             /\ WF_unitVars(part = "AddrUnit" /\ Unit!Tick)
             /\ WF_unitVars(part = "AddrUnit" /\ Unit!Answered)

\* The properties of AddrUnit.
BackoffKeepsPace == Unit!BackoffKeepsPace
OnlyTimeWakes == Unit!OnlyTimeWakes
Recovers == Unit!Recovers

=============================================================================
