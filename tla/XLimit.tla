------------------------------- MODULE XLimit -------------------------------
(***************************************************************************)
(* go-xlimit: a limiter that counts the operations of a period.  Allow      *)
(* reads the clock before it takes the lock, so a goroutine may come to the *)
(* lock with a time that is long past.                                      *)
(***************************************************************************)
EXTENDS Naturals, FiniteSets

CONSTANTS Callers,  \* goroutines
          Second,   \* ticks of the clock in a second
          Limits, Durations,  \* arguments of New, in ticks
          MaxTime   \* bound on the clock

ASSUME LimitAssumption == /\ Second \in Nat \ {0} /\ Limits \subseteq Nat
                          /\ Durations \subseteq Nat \ {0} /\ MaxTime \in Nat

VARIABLES time,     \* the clock
          start,    \* history: when the limiter was made
          limit, period, used, last,  \* Limiter, with used for its count; period is 0 before New
          seen,     \* goroutine -> the time it read, in a set, until it has the lock
          allowed   \* history: how many operations were allowed

limitVars == <<time, start, limit, period, used, last, seen, allowed>>

LimitInit == /\ time = 0 /\ start = 0
             /\ limit = 0 /\ period = 0 /\ used = 0 /\ last = 0
             /\ seen = [p \in Callers |-> {}]
             /\ allowed = 0

\* New: a duration below a second is stretched to one, and limit with it.
New(l, d) ==
    /\ period = 0
    /\ limit' = IF d < Second THEN (Second * l) \div d ELSE l
    /\ period' = IF d < Second THEN Second ELSE d
    /\ last' = time /\ start' = time
    /\ UNCHANGED <<time, used, seen, allowed>>

LimitTick == /\ period # 0 /\ time < MaxTime
             /\ time' = time + 1
             /\ UNCHANGED <<start, limit, period, used, last, seen, allowed>>

\* now := time.Now()
ReadNow(p) == /\ period # 0 /\ seen[p] = {}
              /\ seen' = [seen EXCEPT ![p] = {time}]
              /\ UNCHANGED <<time, start, limit, period, used, last, allowed>>

\* Mutant of over: any later time starts a new period.
overAlways(now) == now > last

\* now.Sub(l.last) >= l.period; the difference may be negative.
over(now) == now >= last + period

\* The section under the lock.
Allow(p) ==
    \E now \in seen[p] :
        LET spent == IF over(now) THEN 0 ELSE used
            ok == spent < limit
        IN /\ last' = IF over(now) THEN now ELSE last
           /\ used' = IF ok THEN spent + 1 ELSE spent
           /\ allowed' = IF ok THEN allowed + 1 ELSE allowed
           /\ seen' = [seen EXCEPT ![p] = {}]
           /\ UNCHANGED <<time, start, limit, period>>

LimitNext == \/ \E l \in Limits, d \in Durations : New(l, d)
             \/ LimitTick
             \/ \E p \in Callers : ReadNow(p) \/ Allow(p)

LimitSpec == LimitInit /\ [][LimitNext]_limitVars

-----------------------------------------------------------------------------
(* Properties.                                                              *)

\* However late the goroutines come to the lock, limit operations are allowed
\* for each period since the limiter was made, the one that runs included,
\* and no more.  (Within one stretch of time as long as a period there may be
\* twice as many and more: periods are not sliding.)
AllowedPerPeriod ==
    period # 0 => allowed <= limit * ((time - start) \div period + 1)

=============================================================================
