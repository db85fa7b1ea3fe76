-------------------------------- MODULE XSched --------------------------------
(***************************************************************************)
(* go-xsched/xsched.go: an interleaved weighted round-robin over backend    *)
(* addresses.  A cursor i walks over the addresses; each time it passes the *)
(* first one the current weight cw goes down by one, from max to 1 and      *)
(* again; an address is returned when its weight reaches cw.  Weights are   *)
(* divided by their greatest common divisor.  Get calls interleave between  *)
(* their tries; Update and Remove exclude them with rwmtx and are one step. *)
(* Whether an address is available is decided by its addrUnit: here it may  *)
(* change at any time.                                                      *)
(***************************************************************************)
EXTENDS Integers, Sequences, SequencesExt, FiniteSetsExt, Functions

CONSTANTS Procs,      \* goroutines that call Get
          Addrs,      \* 'host:port' strings
          MaxWeight,  \* bound: largest weight of an item
          Strs,       \* the item lists New may be called with
          None        \* no address

Items == [address : Addrs, weight : 0 .. MaxWeight]

ASSUME StrsAssumption == MaxWeight \in Nat /\ Strs \subseteq Seq(Items)
ASSUME NoneAssumption == None \notin Addrs /\ None \notin Nat

VARIABLES addrs,   \* the addresses in the order the cursor visits them
          weight,  \* Addrs -> weight divided by delta (0: not in addrs)
          max,     \* the largest weight
          delta,   \* the greatest common divisor
          i,       \* the cursor, counted from 0
          cw,      \* the current weight
          avail,   \* Addrs -> IsAvailable of its addrUnit
          retry,   \* Procs -> tries left in Get; None outside Get
          address, \* Procs -> last available address seen by Get
          conf,    \* history: Addrs -> weight last configured
          up,      \* history: Procs -> addresses available since Get began
          alone,   \* history: Procs -> addresses no other Get tried meanwhile
          late,    \* history: the Procs whose Get began with cw above max
          served   \* history: Addrs -> turns taken in this window

table == <<addrs, weight, max, delta, conf>>
vars == <<table, i, cw, avail, retry, address, up, alone, late, served>>

n == Len(addrs)
InGet(p) == retry[p] # None
NobodyInGet == \A p \in Procs : ~InGet(p)

-----------------------------------------------------------------------------
(* Weights.                                                                 *)

\* Euclid's algorithm on a pair of numbers.
gcd[p \in Nat \X Nat] == IF p[2] > 0 THEN gcd[<<p[2], p[1] % p[2]>>] ELSE p[1]

\* The loop that starts from delta = 0 and skips the weight 0.
GcdAll(ws) == FoldLeft(LAMBDA d, w : IF w = 0 THEN d ELSE IF d # 0 THEN gcd[<<d, w>>] ELSE w, 0, ws)

\* The loop that keeps the largest weight, from 0.
MaxAll(ws) == FoldLeft(LAMBDA m, w : IF w > m THEN w ELSE m, 0, ws)

\* The weights ws of the addresses in S, divided by d.
Divided(S, ws, d) == [a \in Addrs |-> IF a \in S THEN ws[a] \div d ELSE 0]

-----------------------------------------------------------------------------
(* New.                                                                     *)

\* Where the address is listed last, with a weight: that item takes the place
\* of the earlier ones.  0: it is not listed.
ListedAt(strs, a) == Max({0} \cup {k \in DOMAIN strs : strs[k].address = a /\ strs[k].weight # 0})

\* max and delta are folded over all items, overwritten ones included.
New(strs) ==
    LET listed == {a \in Addrs : ListedAt(strs, a) # 0}
        ws     == [k \in DOMAIN strs |-> strs[k].weight]
    IN  /\ conf = [a \in Addrs |-> IF a \in listed THEN strs[ListedAt(strs, a)].weight ELSE 0]
        /\ addrs \in [1 .. Cardinality(listed) -> listed] /\ ToSet(addrs) = listed
        /\ \A j, k \in DOMAIN addrs : j < k => ListedAt(strs, addrs[j]) < ListedAt(strs, addrs[k])
        /\ delta = GcdAll(ws)
        /\ weight = Divided(listed, conf, delta)
        /\ max = IF listed = {} THEN 0 ELSE MaxAll(ws) \div delta

Init == /\ \E strs \in Strs : New(strs)
        /\ i = 0
        /\ cw = 0
        /\ avail = [a \in Addrs |-> TRUE]
        /\ retry = [p \in Procs |-> None]
        /\ address = [p \in Procs |-> None]
        /\ up = [p \in Procs |-> {}]
        /\ alone = [p \in Procs |-> {}]
        /\ late = {}
        /\ served = [a \in Addrs |-> 0]

-----------------------------------------------------------------------------
(* Get.                                                                     *)

\* RLock, retry = 2 * n
GetBegin(p) == /\ ~InGet(p)
               /\ retry' = [retry EXCEPT ![p] = 2 * n]
               /\ address' = [address EXCEPT ![p] = None]
               /\ up' = [up EXCEPT ![p] = {a \in ToSet(addrs) : avail[a]}]
               /\ alone' = [alone EXCEPT ![p] = ToSet(addrs)]
               /\ late' = IF cw > max THEN late \cup {p} ELSE late
               /\ UNCHANGED <<table, i, cw, avail, served>>

\* Mutant of NextCw: cw goes down to 0 before it starts again.
NextCwZero == IF i # 0 THEN cw ELSE IF cw - 1 < 0 THEN max ELSE cw - 1

\* Mutant of NextCw: it starts again from the largest weight configured.
NextCwConf == IF i # 0 THEN cw ELSE IF cw - 1 <= 0 THEN max * delta ELSE cw - 1

\* The next value of cw, taken with mtx locked.
NextCw == IF i # 0 THEN cw
          ELSE IF cw - 1 <= 0 THEN max ELSE cw - 1

\* The next value of the cursor, and the address it points to.
NextI == (i + 1) % n
Tried == addrs[NextI + 1]

\* One try with mtx locked, then u.IsAvailable().
Try(p) == /\ InGet(p)
          /\ retry[p] # 0
          /\ cw' = NextCw
          /\ i' = NextI

\* What a try of p leaves of the addresses that the others have to themselves.
Others(p) == [q \in Procs |-> IF q = p THEN alone[q] ELSE alone[q] \ {Tried}]

\* Turns taken in this window of sum(weights) turns; a new one follows it.
Total == SumFunction(served)
Window == SumFunction(weight)

\* The address is available and its weight reaches cw: it is its turn,
\* return it.
TryHit(p) == /\ Try(p)
             /\ avail[Tried] /\ weight[Tried] >= NextCw
             /\ retry' = [retry EXCEPT ![p] = None]
             /\ address' = [address EXCEPT ![p] = None]
             /\ served' = [a \in Addrs |-> (IF Total < Window THEN served[a] ELSE 0)
                                             + (IF a = Tried THEN 1 ELSE 0)]
             /\ up' = [up EXCEPT ![p] = {}]
             /\ alone' = [Others(p) EXCEPT ![p] = {}]
             /\ late' = late \ {p}
             /\ UNCHANGED <<table, avail>>

\* Mutant of TrySmall: the address is not remembered.
TrySmallForgotten(p) == /\ Try(p)
                        /\ avail[Tried] /\ weight[Tried] < NextCw
                        /\ retry' = [retry EXCEPT ![p] = @ - 1]
                        /\ alone' = Others(p)
                        /\ UNCHANGED <<table, avail, address, up, late, served>>

\* The address is available but its weight is too small: remember it.
TrySmall(p) == /\ Try(p)
               /\ avail[Tried] /\ weight[Tried] < NextCw
               /\ retry' = [retry EXCEPT ![p] = @ - 1]
               /\ address' = [address EXCEPT ![p] = Tried]
               /\ alone' = Others(p)
               /\ UNCHANGED <<table, avail, up, late, served>>

\* The address is not available.
TryDown(p) == /\ Try(p)
              /\ ~avail[Tried]
              /\ retry' = [retry EXCEPT ![p] = @ - 1]
              /\ served' = [a \in Addrs |-> 0]
              /\ alone' = Others(p)
              /\ UNCHANGED <<table, avail, address, up, late>>

\* No try is left: return the last available address, if there was one, or
\* the error "all hosts are temporarily unavailable".  This takes no turn: the
\* cursor stays where it is.
GetEnd(p) == /\ InGet(p)
             /\ retry[p] = 0
             /\ retry' = [retry EXCEPT ![p] = None]
             /\ address' = [address EXCEPT ![p] = None]
             /\ up' = [up EXCEPT ![p] = {}]
             /\ alone' = [alone EXCEPT ![p] = {}]
             /\ late' = late \ {p}
             /\ UNCHANGED <<table, i, cw, avail, served>>

-----------------------------------------------------------------------------
(* Update and Remove.                                                       *)

\* update: look the address up or append it.
WithUnit(a) == IF a \in ToSet(addrs) THEN addrs ELSE Append(addrs, a)

\* 0-based index of the unit, which adjust returns.
UnitIndex(a) == (CHOOSE k \in 1 .. Len(WithUnit(a)) : WithUnit(a)[k] = a) - 1

\* The weights of the units in as, in their order, while they are adjusted.
UnitWeights(as, ws) == [k \in DOMAIN as |-> ws[as[k]]]

\* Mutant of Adjust: the other weights are not multiplied by the old delta.
AdjustDivided(a, w) ==
    LET as == WithUnit(a)
        ws == [b \in Addrs |-> IF b = a THEN w ELSE weight[b]]
    IN  /\ addrs' = IF w = 0 THEN RemoveAt(as, UnitIndex(a) + 1) ELSE as
        /\ delta' = GcdAll(UnitWeights(as, ws))
        /\ weight' = Divided(ToSet(addrs'), ws, delta')
        /\ max' = IF addrs' = <<>> THEN 0 ELSE MaxAll(UnitWeights(as, ws)) \div delta'

\* adjust: multiply the other weights by delta, recompute max and delta from
\* the nonzero weights, drop the unit if its weight is zero, divide.
Adjust(a, w) ==
    LET as == WithUnit(a)
        ws == [b \in Addrs |-> IF b = a THEN w ELSE weight[b] * delta]
    IN  /\ addrs' = IF w = 0 THEN RemoveAt(as, UnitIndex(a) + 1) ELSE as
        /\ delta' = GcdAll(UnitWeights(as, ws))
        /\ weight' = Divided(ToSet(addrs'), ws, delta')
        /\ max' = IF addrs' = <<>> THEN 0 ELSE MaxAll(UnitWeights(as, ws)) \div delta'

\* What update changes with rwmtx locked; a new addrUnit is available, one that
\* is dropped takes its state with it.
ApplyUpdate(a, w) == /\ NobodyInGet
                     /\ Adjust(a, w)
                     /\ avail' = [avail EXCEPT ![a] = IF a \in ToSet(addrs) /\ w # 0 THEN @ ELSE TRUE]
                     /\ conf' = [conf EXCEPT ![a] = w]
                     /\ served' = [b \in Addrs |-> 0]
                     /\ UNCHANGED <<cw, retry, address, up, alone, late>>

Update(a, w) == ApplyUpdate(a, w) /\ UNCHANGED i

\* Mutant of RemoveAddr: the cursor does not follow its address.
RemoveNoShift(a) == ApplyUpdate(a, 0) /\ UNCHANGED i

\* Remove also moves the cursor back when the unit was in front of it.
RemoveAddr(a) == /\ ApplyUpdate(a, 0)
                 /\ i' = IF Len(addrs') > 0 /\ i > UnitIndex(a) THEN (i - 1) % Len(addrs') ELSE i

-----------------------------------------------------------------------------
\* An addrUnit becomes unavailable on feedback, or available on feedback or
\* when its wait is over (module AddrUnit).
Flip(a) == /\ a \in ToSet(addrs)
           /\ avail' = [avail EXCEPT ![a] = ~@]
           /\ up' = [p \in Procs |-> up[p] \ {a}]
           /\ served' = [b \in Addrs |-> 0]
           /\ UNCHANGED <<table, i, cw, retry, address, alone, late>>

GetStep(p) == TryHit(p) \/ TrySmall(p) \/ TryDown(p) \/ GetEnd(p)

Next == \/ \E p \in Procs : GetBegin(p) \/ GetStep(p)
        \/ \E a \in Addrs : \/ Flip(a) \/ RemoveAddr(a)
                            \/ \E w \in 0 .. MaxWeight : Update(a, w)

Spec == Init /\ [][Next]_vars

-----------------------------------------------------------------------------
(* Properties.                                                              *)

\* Type invariant of the scheduler.
TypeOK == /\ addrs \in Seq(Addrs) /\ n <= Cardinality(Addrs)
          /\ weight \in [Addrs -> 0 .. MaxWeight]
          /\ max \in 0 .. MaxWeight
          /\ delta \in 0 .. MaxWeight
          /\ i \in 0 .. Cardinality(Addrs)
          /\ cw \in 0 .. MaxWeight
          /\ avail \in [Addrs -> BOOLEAN]
          /\ retry \in [Procs -> 0 .. 2 * Cardinality(Addrs) \cup {None}]
          /\ address \in [Procs -> Addrs \cup {None}]
          /\ conf \in [Addrs -> 0 .. MaxWeight]
          /\ up \in [Procs -> SUBSET Addrs]
          /\ alone \in [Procs -> SUBSET Addrs]
          /\ late \subseteq Procs
          /\ served \in [Addrs -> Nat]

\* The table says what was configured, however many updates, removals and
\* divisions went before: the addresses are those with a nonzero weight, each
\* once, and multiplying by delta gives the configured weights back.  They
\* cannot be divided further, so that the rounds of cw are as short as they
\* can be, and max is the largest of them: no round is empty.
WeightsFaithful ==
    /\ ToSet(addrs) = {a \in Addrs : conf[a] # 0}
    /\ IsInjective(addrs)
    /\ \A a \in ToSet(addrs) : weight[a] * delta = conf[a]
    /\ n > 0 => /\ ~ \E d \in 2 .. MaxWeight : \A a \in ToSet(addrs) : weight[a] % d = 0
                /\ max = Max({weight[a] : a \in ToSet(addrs)})

\* Weighted fairness: while nothing is configured or becomes unavailable, any
\* sum(weights) turns in a row, of whichever callers, are weight[a] turns of
\* each address a, from wherever the cursor stood and whatever cw was.  What Get
\* returns at the end of its tries (GetEnd) comes on top of the turns:
\* LastResort says when that happens.
Proportional == n > 0 /\ Total = Window => served = weight

\* The way out of Get that xsched.go:141 keeps for high concurrency, the return
\* of an address whose turn it is not (or an error): past one of the heaviest
\* addresses, available all the time and met by no other caller meanwhile, Get
\* comes to its last try only if cw was above max when it began, left from a
\* larger maximum that Update or Remove has lowered since.
LastResort ==
    \A p \in Procs :
        retry[p] = 0 /\ (\E a \in up[p] \cap alone[p] : weight[a] = max) => p \in late

\* Get reports an outage only if each address was unavailable at some moment
\* while it looked, or another caller that shares the cursor came to it
\* meanwhile: 2n tries are enough to pass every other address.
NoFalseOutage ==
    \A p \in Procs : retry[p] = 0 /\ address[p] = None => up[p] \cap alone[p] = {}

\* Removing an address leaves the cursor on the address it was on, unless
\* that is the one removed.
RemoveKeepsCursor ==
    [][\A a \in Addrs : RemoveAddr(a) /\ i < n /\ addrs[i + 1] # a
          => i' < Len(addrs') /\ addrs'[i' + 1] = addrs[i + 1]]_vars

=============================================================================
