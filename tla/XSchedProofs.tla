----------------------------- MODULE XSchedProofs -----------------------------
(***************************************************************************)
(* Theorems about the scheduler (XSched) and the health of an address       *)
(* (AddrUnit), for any number of addresses, any weights and any limits of   *)
(* the periods that shifts lead to: the weights, the cursor, what an outage *)
(* means to one caller and to several, and the turns each address gets.     *)
(***************************************************************************)
EXTENDS MCXSched, FiniteSetTheorems, SequenceTheorems, WellFoundedInduction, TLAPS

-----------------------------------------------------------------------------
(* The health of one address.                                               *)

\* What failures take from the sampling period they give to the waiting time,
\* and while the address waits no sample ends.
UnitInv == /\ Unit!TypeOK
           /\ samplePeriod \in SamplePeriods /\ waitInterval \in WaitIntervals
           /\ BackoffKeepsPace
           /\ wakeLeft > 0 => sampleLeft > wakeLeft

\* The periods are natural numbers, and a shift leaves them in their set.
LEMMA Shifts ==
    ASSUME NEW S, NEW lo, NEW hi, Unit!Doublings(S, lo, hi), NEW t \in S
    PROVE  /\ t \in Nat \ {0} /\ lo <= t /\ t <= hi /\ hi \in Nat /\ lo \in Nat \ {0}
           /\ t < hi => t * 2 \in S /\ t * 2 <= hi
           /\ t > lo => t \div 2 \in S /\ (t \div 2) * 2 = t /\ lo <= t \div 2
<1>1. t \in Nat \ {0} /\ lo <= t /\ t <= hi /\ hi \in Nat /\ lo \in Nat \ {0}
  BY DEF Unit!Doublings
<1>2. t < hi => t * 2 \in S /\ t * 2 <= hi
  BY <1>1 DEF Unit!Doublings
<1>3. ASSUME t > lo PROVE t \div 2 \in S /\ (t \div 2) * 2 = t /\ lo <= t \div 2
  <2>1. t % 2 = 0 /\ t \div 2 \in S
    BY <1>3 DEF Unit!Doublings
  <2>2. lo <= t \div 2
    BY <2>1 DEF Unit!Doublings
  <2> QED
    BY <1>1, <2>1, <2>2
<1> QED
  BY <1>1, <1>2, <1>3

\* A product grows with its factors.
LEMMA Products ==
    ASSUME NEW x \in Nat, NEW y \in Nat, NEW z \in Nat
    PROVE  /\ x * y \in Nat /\ (x * 2) * y = x * (y * 2) /\ x * y = y * x
           /\ x <= y => x * z <= y * z /\ z * x <= z * y
OBVIOUS

\* A sample that ends well doubles the sampling period and halves the wait:
\* the pace is kept, whichever of them is at its limit.
LEMMA GoodKeepsPace ==
    ASSUME UnitInv, NEW result \in BOOLEAN, Unit!FeedbackGood(result)
    PROVE  /\ samplePeriod' \in SamplePeriods /\ waitInterval' \in WaitIntervals
           /\ BackoffKeepsPace'
<1> DEFINE s == samplePeriod
           w == waitInterval
<1> USE UnitAssumption DEF Unit!PeriodsAssumption
<1>1. /\ s \in Nat \ {0} /\ MinSample <= s /\ s <= MaxSample /\ MinSample \in Nat \ {0} /\ MaxSample \in Nat
      /\ s < MaxSample => s * 2 \in SamplePeriods
      /\ s \in SamplePeriods /\ w \in WaitIntervals
  BY Shifts DEF UnitInv
<1>2. /\ w \in Nat \ {0} /\ MinWait <= w /\ w <= MaxWait /\ MinWait \in Nat \ {0}
      /\ w > MinWait => w \div 2 \in WaitIntervals /\ (w \div 2) * 2 = w /\ MinWait <= w \div 2
  BY Shifts DEF UnitInv
<1>3. s * w >= MaxSample * MinWait
  BY DEF UnitInv, BackoffKeepsPace, Unit!BackoffKeepsPace
<1>4. /\ samplePeriod' = IF s < MaxSample THEN s * 2 ELSE s
      /\ waitInterval' = IF w > MinWait THEN w \div 2 ELSE w
  BY DEF Unit!FeedbackGood
<1>5. samplePeriod' \in SamplePeriods /\ waitInterval' \in WaitIntervals
  BY <1>1, <1>2, <1>4
<1>6. samplePeriod' * waitInterval' >= MaxSample * MinWait
  <2>1. CASE s < MaxSample /\ w > MinWait
    <3>1. PICK u \in Nat : u = w \div 2 /\ u * 2 = w
      BY <1>2, <2>1
    <3>2. (s * 2) * u = s * w
      BY <1>1, <3>1, Products
    <3> QED
      BY <1>3, <1>4, <2>1, <3>1, <3>2
  <2>2. CASE s < MaxSample /\ ~(w > MinWait)
    <3>1. s * w <= (s * 2) * w
      BY <1>1, <1>2, Products
    <3>2. s * w \in Nat /\ (s * 2) * w \in Nat /\ MaxSample * MinWait \in Nat
      BY <1>1, <1>2, Products
    <3> QED
      BY <1>3, <1>4, <2>2, <3>1, <3>2
  <2>3. CASE ~(s < MaxSample) /\ w > MinWait
    <3>1. s = MaxSample
      BY <1>1, <2>3
    <3>2. PICK u \in Nat : u = w \div 2 /\ MinWait <= u
      BY <1>2, <2>3
    <3>3. MaxSample * MinWait <= MaxSample * u
      BY <1>1, <1>2, <3>2, Products
    <3>4. MaxSample * MinWait \in Nat /\ MaxSample * u \in Nat
      BY <1>1, <1>2, <3>2, Products
    <3> QED
      BY <1>4, <2>3, <3>1, <3>2, <3>3, <3>4
  <2>4. CASE ~(s < MaxSample) /\ ~(w > MinWait)
    BY <1>3, <1>4, <2>4
  <2> QED
    BY <2>1, <2>2, <2>3, <2>4
<1> QED
  BY <1>5, <1>6 DEF BackoffKeepsPace, Unit!BackoffKeepsPace

\* A failure halves the sampling period and doubles the wait: the pace is kept.
LEMMA BadKeepsPace ==
    ASSUME UnitInv, NEW result \in BOOLEAN, Unit!FeedbackBad(result)
    PROVE  /\ samplePeriod' \in SamplePeriods /\ waitInterval' \in WaitIntervals
           /\ BackoffKeepsPace'
<1> DEFINE s == samplePeriod
           w == waitInterval
<1> USE UnitAssumption DEF Unit!PeriodsAssumption
<1>1. /\ s \in Nat \ {0} /\ MinSample <= s /\ s <= MaxSample /\ MinSample \in Nat \ {0} /\ MaxSample \in Nat
      /\ s > MinSample => s \div 2 \in SamplePeriods /\ (s \div 2) * 2 = s /\ MinSample <= s \div 2
      /\ s \in SamplePeriods /\ w \in WaitIntervals
  BY Shifts DEF UnitInv
<1>2. /\ w \in Nat \ {0} /\ MinWait <= w /\ w <= MaxWait /\ MinWait \in Nat \ {0} /\ MaxWait \in Nat
      /\ w < MaxWait => w * 2 \in WaitIntervals
  BY Shifts DEF UnitInv
<1>3. s * w >= MaxSample * MinWait /\ MaxSample * MinWait <= MinSample * MaxWait
  BY DEF UnitInv, BackoffKeepsPace, Unit!BackoffKeepsPace
<1>4. /\ samplePeriod' = IF s > MinSample THEN s \div 2 ELSE s
      /\ waitInterval' = IF w < MaxWait THEN w * 2 ELSE w
  BY DEF Unit!FeedbackBad
<1>5. samplePeriod' \in SamplePeriods /\ waitInterval' \in WaitIntervals
  BY <1>1, <1>2, <1>4
<1>6. samplePeriod' * waitInterval' >= MaxSample * MinWait
  <2>1. CASE s > MinSample /\ w < MaxWait
    <3>1. PICK u \in Nat : u = s \div 2 /\ u * 2 = s
      BY <1>1, <2>1
    <3>2. u * (w * 2) = s * w
      BY <1>2, <3>1, Products
    <3> QED
      BY <1>3, <1>4, <2>1, <3>1, <3>2
  <2>2. CASE ~(s > MinSample) /\ w < MaxWait
    <3>1. s * w <= s * (w * 2)
      BY <1>1, <1>2, Products
    <3>2. s * w \in Nat /\ s * (w * 2) \in Nat /\ MaxSample * MinWait \in Nat
      BY <1>1, <1>2, Products
    <3> QED
      BY <1>3, <1>4, <2>2, <3>1, <3>2
  <2>3. CASE s > MinSample /\ ~(w < MaxWait)
    <3>1. w = MaxWait
      BY <1>2, <2>3
    <3>2. PICK u \in Nat : u = s \div 2 /\ MinSample <= u
      BY <1>1, <2>3
    <3>3. MinSample * MaxWait <= u * MaxWait
      BY <1>1, <1>2, <3>2, Products
    <3>4. MaxSample * MinWait \in Nat /\ MinSample * MaxWait \in Nat /\ u * MaxWait \in Nat
      BY <1>1, <1>2, <3>2, Products
    <3> QED
      BY <1>3, <1>4, <2>3, <3>1, <3>2, <3>3, <3>4
  <2>4. CASE ~(s > MinSample) /\ ~(w < MaxWait)
    BY <1>3, <1>4, <2>4
  <2> QED
    BY <2>1, <2>2, <2>3, <2>4
<1> QED
  BY <1>5, <1>6 DEF BackoffKeepsPace, Unit!BackoffKeepsPace

\* The limits of the periods are natural numbers.
LEMMA PeriodsNat == /\ MinSample \in Nat /\ MaxSample \in Nat /\ MinWait \in Nat /\ MaxWait \in Nat
                    /\ SamplePeriods \subseteq MinSample .. MaxSample
                    /\ WaitIntervals \subseteq MinWait .. MaxWait
                    /\ MaxTotal \in Nat
BY UnitAssumption DEF Unit!PeriodsAssumption, Unit!Doublings

\* A new addrUnit has the longest sampling period and the shortest wait.
LEMMA UnitStarts == Unit!Init => UnitInv
<1> SUFFICES ASSUME Unit!Init PROVE UnitInv
  OBVIOUS
<1>1. /\ samplePeriod \in SamplePeriods /\ waitInterval \in WaitIntervals
      /\ samplePeriod \in MinSample .. MaxSample /\ waitInterval \in MinWait .. MaxWait
  BY UnitAssumption, PeriodsNat DEF Unit!Init, Unit!PeriodsAssumption, Unit!Doublings
<1>2. BackoffKeepsPace
  <2>1. samplePeriod * waitInterval = MaxSample * MinWait /\ MaxSample * MinWait \in Nat
    BY PeriodsNat, Products DEF Unit!Init
  <2> QED
    BY <2>1 DEF BackoffKeepsPace, Unit!BackoffKeepsPace
<1>3. Unit!TypeOK
  <2>1. sampleLeft \in 0 .. MaxWait + MaxSample /\ wakeLeft \in 0 .. MaxWait
    BY PeriodsNat DEF Unit!Init
  <2>2. available \in BOOLEAN /\ restored \in BOOLEAN
    BY DEF Unit!Init
  <2>3. total \in 0 .. MaxTotal /\ fail \in 0 .. total
    BY PeriodsNat DEF Unit!Init
  <2> QED
    BY <1>1, <2>1, <2>2, <2>3 DEF Unit!TypeOK
<1> QED
  BY <1>1, <1>2, <1>3 DEF Unit!Init, UnitInv

\* Every step keeps the invariant.
LEMMA UnitSteps == UnitInv /\ [Unit!Next]_(Unit!vars) => UnitInv'
<1> SUFFICES ASSUME UnitInv, [Unit!Next]_(Unit!vars) PROVE UnitInv'
  OBVIOUS
<1> USE PeriodsNat DEF UnitInv
<1>1. ASSUME UNCHANGED <<samplePeriod, waitInterval>>
      PROVE  samplePeriod' \in SamplePeriods /\ waitInterval' \in WaitIntervals /\ BackoffKeepsPace'
  BY <1>1 DEF BackoffKeepsPace, Unit!BackoffKeepsPace
<1>2. CASE Unit!Tick
  <2>1. Unit!TypeOK' /\ (wakeLeft' > 0 => sampleLeft' > wakeLeft')
    BY <1>2 DEF Unit!Tick, Unit!Less, Unit!counts, Unit!TypeOK
  <2> QED
    BY <1>1, <1>2, <2>1 DEF Unit!Tick
<1>3. CASE Unit!Restore
  <2>1. Unit!TypeOK' /\ (wakeLeft' > 0 => sampleLeft' > wakeLeft')
    BY <1>3 DEF Unit!Restore, Unit!counts, Unit!TypeOK
  <2> QED
    BY <1>1, <1>3, <2>1 DEF Unit!Restore
<1>4. ASSUME NEW result \in BOOLEAN, Unit!FeedbackCount(result) PROVE UnitInv'
  <2>1. Unit!TypeOK' /\ (wakeLeft' > 0 => sampleLeft' > wakeLeft')
    BY <1>4 DEF Unit!FeedbackCount, Unit!Failed, Unit!TypeOK
  <2> QED
    BY <1>1, <1>4, <2>1 DEF Unit!FeedbackCount
<1>5. ASSUME NEW result \in BOOLEAN, Unit!FeedbackGood(result) PROVE UnitInv'
  <2>1. /\ samplePeriod' \in SamplePeriods /\ waitInterval' \in WaitIntervals /\ BackoffKeepsPace'
    BY <1>5, GoodKeepsPace
  <2>2. /\ sampleLeft = 0 /\ sampleLeft' = samplePeriod' /\ wakeLeft' = wakeLeft
        /\ available' = TRUE /\ total' = 0 /\ fail' = 0 /\ restored' = restored
    BY <1>5 DEF Unit!FeedbackGood, Unit!SampleEnded
  <2>3. ~(wakeLeft > 0) /\ wakeLeft \in Nat
    BY <2>2 DEF Unit!TypeOK
  <2>4. Unit!TypeOK'
    BY <2>1, <2>2 DEF Unit!TypeOK
  <2> QED
    BY <2>1, <2>2, <2>3, <2>4
<1>6. ASSUME NEW result \in BOOLEAN, Unit!FeedbackBad(result) PROVE UnitInv'
  <2>1. /\ samplePeriod' \in SamplePeriods /\ waitInterval' \in WaitIntervals /\ BackoffKeepsPace'
    BY <1>6, BadKeepsPace
  <2>2. /\ sampleLeft' = waitInterval' + samplePeriod' /\ wakeLeft' = waitInterval'
        /\ available' = FALSE /\ total' = 0 /\ fail' = 0 /\ restored' = restored
    BY <1>6 DEF Unit!FeedbackBad
  <2>3. samplePeriod' > 0
    BY <2>1, UnitAssumption DEF Unit!PeriodsAssumption, Unit!Doublings
  <2>4. /\ samplePeriod' \in MinSample .. MaxSample /\ waitInterval' \in MinWait .. MaxWait
        /\ samplePeriod' \in Nat /\ waitInterval' \in Nat
    BY <2>1
  <2>5. sampleLeft' \in 0 .. MaxWait + MaxSample /\ wakeLeft' \in 0 .. MaxWait /\ sampleLeft' > wakeLeft'
    <3>1. PICK s \in Nat, w \in Nat : s = samplePeriod' /\ w = waitInterval'
      BY <2>4
    <3>2. s > 0 /\ s <= MaxSample /\ w <= MaxWait
      BY <2>3, <2>4, <3>1
    <3>3. w + s \in 0 .. MaxWait + MaxSample /\ w \in 0 .. MaxWait /\ w + s > w
      BY <3>2
    <3> QED
      BY <2>2, <3>1, <3>3
  <2>6. available' \in BOOLEAN /\ restored' \in BOOLEAN
    BY <2>2 DEF Unit!TypeOK
  <2>7. total' \in 0 .. MaxTotal /\ fail' \in 0 .. total'
    BY <2>2
  <2>8. Unit!TypeOK'
    BY <2>4, <2>5, <2>6, <2>7 DEF Unit!TypeOK
  <2> QED
    BY <2>1, <2>5, <2>8
<1>7. CASE UNCHANGED Unit!vars
  BY <1>1, <1>7 DEF Unit!vars, Unit!counts, Unit!TypeOK
<1> QED
  BY <1>2, <1>3, <1>4, <1>5, <1>6, <1>7 DEF Unit!Next, Unit!Feedback

\* In every state of an addrUnit the periods are reached by shifts, and keep
\* pace.
THEOREM UnitInvariant == Unit!Spec => []UnitInv
BY UnitStarts, UnitSteps, PTL DEF Unit!Spec

\* What failures take from the sampling period they give at least to the
\* waiting time.
THEOREM KeepsPace == Unit!Spec => []BackoffKeepsPace
<1>1. UnitInv => BackoffKeepsPace
  BY DEF UnitInv
<1> QED
  BY <1>1, UnitInvariant, PTL

\* An address that was taken out comes back by time alone: no sample ends
\* while it waits.
THEOREM WakesByTime == Unit!Spec => OnlyTimeWakes
<1>1. UnitInv /\ [Unit!Next]_(Unit!vars)
        => [~Unit!IsAvailable /\ Unit!IsAvailable' => Unit!Tick]_(Unit!vars)
  <2> SUFFICES ASSUME UnitInv, Unit!Next, ~Unit!IsAvailable, Unit!IsAvailable' PROVE Unit!Tick
    OBVIOUS
  <2>1. ~available /\ wakeLeft # 0 /\ wakeLeft \in Nat /\ sampleLeft # 0
    BY DEF UnitInv, Unit!TypeOK, Unit!IsAvailable
  <2>2. CASE Unit!Restore
    BY <2>1, <2>2 DEF Unit!Restore, Unit!IsAvailable
  <2>3. ASSUME NEW result \in BOOLEAN, Unit!Feedback(result) PROVE FALSE
    BY <2>1, <2>3 DEF Unit!Feedback, Unit!FeedbackCount, Unit!FeedbackGood, Unit!FeedbackBad,
                      Unit!SampleEnded, Unit!IsAvailable
  <2> QED
    BY <2>2, <2>3 DEF Unit!Next, Unit!IsAvailable
<1> QED
  BY <1>1, UnitInvariant, PTL DEF Unit!Spec, OnlyTimeWakes, Unit!OnlyTimeWakes

-----------------------------------------------------------------------------
(* Weights: Euclid's algorithm.                                             *)

Divides(d, a) == \E q \in Nat : a = d * q

\* g is the greatest common divisor: every common divisor divides it.
Gcds(a, b) == {g \in Nat : /\ Divides(g, a) /\ Divides(g, b)
                           /\ \A d \in Nat : Divides(d, a) /\ Divides(d, b) => Divides(d, g)}

\* Multiplication distributes over addition and is associative.
LEMMA Rings ==
    ASSUME NEW x \in Int, NEW y \in Int, NEW z \in Int
    PROVE  /\ x * (y + z) = x * y + x * z /\ x * (y - z) = x * y - x * z
           /\ x * (y * z) = (x * y) * z
OBVIOUS

\* The least element of a set of numbers.
LEMMA Least ==
    ASSUME NEW T, T \subseteq Nat, T # {}
    PROVE  \E x \in T : \A y \in T : x <= y
<1>1. PICK x \in T : \A y \in T : ~ (<<y, x>> \in OpToRel(<, Nat))
  BY WFMin, NatLessThanWellFounded
<1>2. \A y \in T : ~(y < x)
  BY <1>1 DEF OpToRel
<1>3. \A y \in T : x <= y
  BY <1>2
<1> QED
  BY <1>3

\* Everything divides 0, and itself.
LEMMA Divided0 == \A a \in Nat : Divides(a, 0) /\ Divides(a, a)
<1>1. \A a \in Nat : 0 = a * 0 /\ a = a * 1
  OBVIOUS
<1> QED
  BY <1>1 DEF Divides

\* A common divisor of b and the remainder is one of a and b, and back.
LEMMA Remainders ==
    ASSUME NEW a \in Nat, NEW b \in Nat \ {0}, NEW d \in Nat, Divides(d, b)
    PROVE  /\ a % b \in Nat /\ a % b < b
           /\ Divides(d, a) <=> Divides(d, a % b)
<1>1. PICK k \in Nat, r \in Nat : k = a \div b /\ r = a % b /\ a = b * k + r /\ r < b
  OBVIOUS
<1>2. PICK y \in Nat : b = d * y
  BY DEF Divides
<1>3. b * k = d * (y * k)
  BY <1>2, Rings
<1>4. ASSUME NEW x \in Nat, r = d * x PROVE \E q \in Nat : a = d * q
  <2>1. a = d * (y * k + x)
    BY <1>1, <1>3, <1>4, Rings
  <2> QED
    BY <2>1
<1>5. ASSUME NEW x \in Nat, a = d * x PROVE \E q \in Nat : r = d * q
  <2>1. r = d * (x - y * k)
    BY <1>1, <1>3, <1>5, Rings
  <2>2. d # 0
    BY <1>2
  <2>3. ASSUME x - y * k < 0 PROVE FALSE
    BY <1>1, <2>1, <2>2, <2>3
  <2>4. x - y * k \in Nat
    BY <2>3
  <2> QED
    BY <2>1, <2>4
<1> QED
  BY <1>1, <1>4, <1>5 DEF Divides

\* A step of Euclid's loop keeps the greatest common divisors.
LEMMA GcdStep ==
    ASSUME NEW a \in Nat, NEW b \in Nat \ {0}
    PROVE  a % b \in Nat /\ a % b < b /\ Gcds(a, b) = Gcds(b, a % b)
<1>1. a % b \in Nat /\ a % b < b
  BY Remainders, Divided0
<1>2. \A d \in Nat : Divides(d, a) /\ Divides(d, b) <=> Divides(d, b) /\ Divides(d, a % b)
  BY Remainders
<1> QED
  BY <1>1, <1>2 DEF Gcds

\* There is at most one greatest common divisor.
LEMMA GcdUnique ==
    ASSUME NEW a, NEW b, NEW g \in Gcds(a, b), NEW h \in Gcds(a, b)
    PROVE  g = h
<1>1. g \in Nat /\ h \in Nat /\ Divides(g, h) /\ Divides(h, g)
  BY DEF Gcds
<1>2. PICK x \in Nat, y \in Nat : h = g * x /\ g = h * y
  BY <1>1 DEF Divides
<1>3. CASE h = 0 \/ g = 0
  BY <1>1, <1>2, <1>3
<1>4. CASE h > 0 /\ g > 0
  <2>1. x >= 1 /\ y >= 1
    BY <1>1, <1>2, <1>4
  <2>2. g * x >= g * 1 /\ h * y >= h * 1
    BY <1>1, <2>1, Products
  <2> QED
    BY <1>1, <1>2, <2>2
<1> QED
  BY <1>1, <1>3, <1>4

\* Where Euclid's loop ends it has found one.
LEMMA GcdZero == \A a \in Nat : a \in Gcds(a, 0)
BY Divided0 DEF Gcds

\* There is a function as gcd is defined to be.
LEMMA GcdDefined ==
    \A a \in Nat, b \in Nat : gcd[<<a, b>>] = IF b > 0 THEN gcd[<<b, a % b>>] ELSE a
<1> DEFINE f == [p \in Nat \X Nat |-> CHOOSE g \in Gcds(p[1], p[2]) : TRUE]
<1>1. ASSUME NEW p \in Nat \X Nat
      PROVE  (CHOOSE g \in Gcds(p[1], p[2]) : TRUE) = IF p[2] > 0 THEN f[<<p[2], p[1] % p[2]>>] ELSE p[1]
  <2>1. CASE p[2] > 0
    <3>1. p[1] % p[2] \in Nat /\ Gcds(p[1], p[2]) = Gcds(p[2], p[1] % p[2])
      BY <2>1, GcdStep
    <3>2. f[<<p[2], p[1] % p[2]>>] = CHOOSE g \in Gcds(p[2], p[1] % p[2]) : TRUE
      BY <3>1
    <3> QED
      BY <2>1, <3>1, <3>2
  <2>2. CASE p[2] = 0
    <3>1. p[1] \in Gcds(p[1], 0)
      BY GcdZero
    <3>2. \A g \in Gcds(p[1], 0) : g = p[1]
      BY <3>1, GcdUnique
    <3>3. (CHOOSE g \in Gcds(p[1], 0) : TRUE) = p[1]
      BY <3>1, <3>2
    <3> QED
      BY <2>2, <3>3
  <2> QED
    BY <2>1, <2>2
<1>2. f = [p \in Nat \X Nat |-> IF p[2] > 0 THEN f[<<p[2], p[1] % p[2]>>] ELSE p[1]]
  BY <1>1, SMTT(30)
<1> HIDE DEF f
<1>3. gcd = [p \in Nat \X Nat |-> IF p[2] > 0 THEN gcd[<<p[2], p[1] % p[2]>>] ELSE p[1]]
  BY <1>2 DEF gcd
<1>4. ASSUME NEW a \in Nat, NEW b \in Nat
      PROVE  gcd[<<a, b>>] = IF b > 0 THEN gcd[<<b, a % b>>] ELSE a
  <2> DEFINE p == <<a, b>>
  <2>1. p \in Nat \X Nat /\ p[1] = a /\ p[2] = b
    OBVIOUS
  <2>2. gcd[p] = IF p[2] > 0 THEN gcd[<<p[2], p[1] % p[2]>>] ELSE p[1]
    BY <1>3, <2>1
  <2> HIDE DEF p
  <2> QED
    BY <2>1, <2>2 DEF p
<1> QED
  BY <1>4

\* The loop of gcd finds the greatest common divisor.
LEMMA GcdIs == \A a \in Nat, b \in Nat : gcd[<<a, b>>] \in Gcds(a, b)
<1> DEFINE T == {b \in Nat : \E a \in Nat : gcd[<<a, b>>] \notin Gcds(a, b)}
<1> SUFFICES ASSUME T # {} PROVE FALSE
  OBVIOUS
<1>1. PICK b \in T : \A c \in T : b <= c
  BY Least
<1>2. PICK a \in Nat : gcd[<<a, b>>] \notin Gcds(a, b)
  BY <1>1
<1>3. CASE b = 0
  <2>1. gcd[<<a, b>>] = a
    <3>1. gcd[<<a, b>>] = IF b > 0 THEN gcd[<<b, a % b>>] ELSE a
      BY GcdDefined
    <3> QED
      BY <1>3, <3>1
  <2> QED
    BY <1>2, <1>3, <2>1, GcdZero
<1>4. CASE b > 0
  <2>1. a % b \in Nat /\ a % b < b /\ Gcds(a, b) = Gcds(b, a % b)
    BY <1>4, GcdStep
  <2>2. a % b \notin T
    BY <1>1, <2>1
  <2>3. gcd[<<b, a % b>>] \in Gcds(b, a % b)
    BY <2>1, <2>2
  <2> QED
    BY <1>2, <1>4, <2>1, <2>3, GcdDefined
<1> QED
  BY <1>3, <1>4

-----------------------------------------------------------------------------
(* Weights: the loops over a list.                                          *)

\* Whatever is greater than all the rest is what Max finds.
LEMMA MaxIs ==
    ASSUME NEW T, T \subseteq Nat, NEW x \in T, \A y \in T : x >= y
    PROVE  Max(T) = x
<1>1. Max(T) \in T /\ \A y \in T : Max(T) >= y
  BY DEF Max
<1> DEFINE z == Max(T)
<1>2. z \in Nat /\ x \in Nat /\ z >= x /\ x >= z
  BY <1>1
<1> HIDE DEF z
<1>3. z = x
  BY <1>2
<1> QED
  BY <1>3 DEF z

\* Max of numbers with a bound is the greatest of them.
LEMMA Greatest ==
    ASSUME NEW m \in Nat, NEW T, T \subseteq 0 .. m, T # {}
    PROVE  Max(T) \in T /\ \A y \in T : Max(T) >= y
<1> DEFINE U == {m - y : y \in T}
<1>1. U \subseteq Nat /\ U # {}
  <2>1. \A y \in T : y \in 0 .. m
    OBVIOUS
  <2>2. \A y \in T : m - y \in Nat
    BY <2>1
  <2> QED
    BY <2>2
<1>2. PICK u \in U : \A v \in U : u <= v
  BY <1>1, Least
<1>3. PICK x \in T : u = m - x
  BY <1>2
<1>4. ASSUME NEW y \in T PROVE x >= y
  <2>1. m - y \in U
    OBVIOUS
  <2>2. m - x <= m - y
    BY <1>2, <1>3, <2>1
  <2> QED
    BY <2>2
<1>5. T \subseteq Nat
  OBVIOUS
<1>6. Max(T) = x
  BY <1>4, <1>5, MaxIs
<1> QED
  BY <1>4, <1>6

\* The fold of F over the numbers ws: the largest index of s comes last.
Folds(f, F, ws, S) ==
    \A s \in SUBSET S : f[s] = IF s = {} THEN 0 ELSE F[<<f[s \ {Max(s)}], ws[Max(s)]>>]

\* The same, of a function on the subsets of 1 .. m only.
FoldOf(f, F, ws, m) ==
    f = [s \in SUBSET (1 .. m) |-> IF s = {} THEN 0 ELSE F[<<f[s \ {Max(s)}], ws[Max(s)]>>]]

\* A fold over c - 1 numbers extends to one over c.
LEMMA FoldExtends ==
    ASSUME NEW c \in Nat \ {0}, NEW F, NEW ws, NEW f, Folds(f, F, ws, 1 .. c - 1)
    PROVE  Folds([s \in SUBSET (1 .. c) |-> IF c \in s THEN F[<<f[s \ {c}], ws[c]>>] ELSE f[s]],
                 F, ws, 1 .. c)
<1> DEFINE g == [s \in SUBSET (1 .. c) |-> IF c \in s THEN F[<<f[s \ {c}], ws[c]>>] ELSE f[s]]
<1>1. ASSUME NEW s \in SUBSET (1 .. c), s # {}, c \in s
      PROVE  Max(s) = c /\ g[s] = F[<<g[s \ {c}], ws[c]>>]
  <2>1. Max(s) = c
    <3>1. s \subseteq Nat /\ \A y \in s : c >= y
      OBVIOUS
    <3> QED
      BY <1>1, <3>1, MaxIs
  <2>2. g[s \ {c}] = f[s \ {c}]
    OBVIOUS
  <2> QED
    BY <1>1, <2>1, <2>2
<1>2. ASSUME NEW s \in SUBSET (1 .. c), s # {}, c \notin s
      PROVE  g[s] = F[<<g[s \ {Max(s)}], ws[Max(s)]>>]
  <2>1. s \in SUBSET (1 .. c - 1)
    BY <1>2
  <2>2. f[s] = F[<<f[s \ {Max(s)}], ws[Max(s)]>>]
    BY <1>2, <2>1 DEF Folds
  <2>3. g[s] = f[s] /\ g[s \ {Max(s)}] = f[s \ {Max(s)}]
    BY <1>2
  <2> QED
    BY <2>2, <2>3
<1>3. g[{}] = 0
  <2>1. {} \in SUBSET (1 .. c - 1) /\ {} \in SUBSET (1 .. c)
    OBVIOUS
  <2>2. f[{}] = 0
    BY <2>1 DEF Folds
  <2> QED
    BY <2>1, <2>2
<1> QED
  BY <1>1, <1>2, <1>3 DEF Folds

\* There is a fold over any list of numbers.
LEMMA FoldDefined ==
    ASSUME NEW m \in Nat, NEW F, NEW ws
    PROVE  \E f : FoldOf(f, F, ws, m)
<1> DEFINE T == {c \in Nat : ~ \E f : Folds(f, F, ws, 1 .. c)}
<1>1. T = {}
  <2> SUFFICES ASSUME T # {} PROVE FALSE
    OBVIOUS
  <2>1. PICK c \in T : \A d \in T : c <= d
    BY Least
  <2>2. CASE c = 0
    <3> DEFINE g == [s \in SUBSET (1 .. 0) |-> 0]
    <3>1. \A s \in SUBSET (1 .. 0) : s = {} /\ g[s] = 0
      OBVIOUS
    <3>2. Folds(g, F, ws, 1 .. 0)
      BY <3>1 DEF Folds
    <3> QED
      BY <2>1, <2>2, <3>2
  <2>3. CASE c # 0
    <3>1. c \in Nat \ {0} /\ c - 1 \in Nat /\ c - 1 \notin T
      BY <2>1, <2>3
    <3>2. PICK f : Folds(f, F, ws, 1 .. c - 1)
      BY <3>1
    <3>3. \E g : Folds(g, F, ws, 1 .. c)
      BY <3>1, <3>2, FoldExtends
    <3> QED
      BY <2>1, <3>3
  <2> QED
    BY <2>2, <2>3
<1>2. PICK f : Folds(f, F, ws, 1 .. m)
  BY <1>1
<1> DEFINE g == [s \in SUBSET (1 .. m) |-> f[s]]
<1>3. ASSUME NEW s \in SUBSET (1 .. m)
      PROVE  g[s] = IF s = {} THEN 0 ELSE F[<<g[s \ {Max(s)}], ws[Max(s)]>>]
  <2>1. s \ {Max(s)} \in SUBSET (1 .. m)
    OBVIOUS
  <2> QED
    BY <1>2, <2>1 DEF Folds
<1>4. FoldOf(g, F, ws, m)
  BY <1>3 DEF FoldOf
<1> HIDE DEF g
<1> QED
  BY <1>4

\* What holds of nothing, and of the rest with one more, holds of all.
LEMMA FoldInduction ==
    ASSUME NEW m \in Nat, NEW F, NEW ws, NEW f, Folds(f, F, ws, 1 .. m),
           NEW P, <<{}, 0>> \in P,
           \A s \in SUBSET (1 .. m), x \in 1 .. m : \A d :
               <<s, d>> \in P => <<s \cup {x}, F[<<d, ws[x]>>]>> \in P
    PROVE  \A s \in SUBSET (1 .. m) : <<s, f[s]>> \in P
<1> DEFINE T == {c \in Nat : \E s \in SUBSET (1 .. m) : s \subseteq 1 .. c /\ <<s, f[s]>> \notin P}
<1> SUFFICES ASSUME NEW z \in SUBSET (1 .. m), <<z, f[z]>> \notin P PROVE FALSE
  OBVIOUS
<1>1. m \in T
  OBVIOUS
<1>2. PICK c \in T : \A d \in T : c <= d
  BY <1>1, Least
<1>3. PICK s \in SUBSET (1 .. m) : s \subseteq 1 .. c /\ <<s, f[s]>> \notin P
  BY <1>2
<1>4. s # {}
  BY <1>3 DEF Folds
<1> DEFINE x == Max(s)
<1>5. x \in s /\ \A y \in s : x >= y
  <2>1. s \subseteq 0 .. m
    OBVIOUS
  <2> QED
    BY <1>4, <2>1, Greatest
<1> HIDE DEF x
<1>6. s \ {x} \in SUBSET (1 .. m) /\ s \ {x} \subseteq 1 .. x - 1 /\ x - 1 \in Nat /\ x - 1 < c
  <2>1. c \in Nat /\ x \in 1 .. m /\ x \in 1 .. c
    BY <1>3, <1>5
  <2>2. \A y \in s \ {x} : y \in 1 .. m /\ x >= y /\ y # x
    BY <1>3, <1>5
  <2>3. \A y \in s \ {x} : y \in 1 .. x - 1
    BY <2>1, <2>2
  <2> QED
    BY <2>1, <2>2, <2>3
<1>7. x - 1 \notin T
  <2>1. ASSUME x - 1 \in T PROVE FALSE
    <3>1. c <= x - 1 /\ c \in Nat
      BY <1>2, <2>1
    <3> QED
      BY <1>6, <3>1
  <2> QED
    BY <2>1
<1>8. <<s \ {x}, f[s \ {x}]>> \in P
  BY <1>6, <1>7
<1>9. <<(s \ {x}) \cup {x}, F[<<f[s \ {x}], ws[x]>>]>> \in P
  <2>1. x \in 1 .. m
    BY <1>3, <1>5
  <2> DEFINE r == s \ {x}
             d == f[s \ {x}]
  <2>2. r \in SUBSET (1 .. m) /\ <<r, d>> \in P
    BY <1>6, <1>8
  <2> HIDE DEF r, d
  <2>3. <<r \cup {x}, F[<<d, ws[x]>>]>> \in P
    BY <2>1, <2>2
  <2> QED
    BY <2>3 DEF r, d
<1>10. (s \ {x}) \cup {x} = s /\ f[s] = F[<<f[s \ {x}], ws[x]>>]
  BY <1>4, <1>5 DEF Folds, x
<1> QED
  BY <1>3, <1>9, <1>10

\* A fold of numbers is a function to numbers.
LEMMA FoldTotal ==
    ASSUME NEW m \in Nat, NEW F \in [Nat \X Nat -> Nat], NEW ws \in [1 .. m -> Nat]
    PROVE  \E f \in [SUBSET (1 .. m) -> Nat] : FoldOf(f, F, ws, m)
<1>1. PICK f : FoldOf(f, F, ws, m)
  BY FoldDefined
<1> DEFINE P == {q \in (SUBSET (1 .. m)) \X Nat : TRUE}
<1>2. Folds(f, F, ws, 1 .. m)
  BY <1>1 DEF Folds, FoldOf
<1>3. <<{}, 0>> \in P
  OBVIOUS
<1>4. \A s \in SUBSET (1 .. m), x \in 1 .. m : \A d : <<s, d>> \in P => <<s \cup {x}, F[<<d, ws[x]>>]>> \in P
  OBVIOUS
<1>5. \A s \in SUBSET (1 .. m) : <<s, f[s]>> \in P
  <2> HIDE DEF P
  <2> QED
    BY <1>2, <1>3, <1>4, FoldInduction
<1>6. f \in [SUBSET (1 .. m) -> Nat]
  <2>1. \A s \in SUBSET (1 .. m) : f[s] \in Nat
    BY <1>5
  <2>2. f = [s \in SUBSET (1 .. m) |-> f[s]]
    BY <1>1 DEF FoldOf
  <2> QED
    BY <2>1, <2>2
<1> QED
  BY <1>1, <1>6

\* The function that FoldLeft of MaxAll and of GcdAll defines.
MaxIter(ws) == CHOOSE f : f = [s \in SUBSET DOMAIN ws |->
    IF s = {} THEN 0 ELSE IF ws[Max(s)] > f[s \ {Max(s)}] THEN ws[Max(s)] ELSE f[s \ {Max(s)}]]

GcdIter(ws) == CHOOSE f : f = [s \in SUBSET DOMAIN ws |->
    IF s = {} THEN 0
    ELSE IF ws[Max(s)] = 0 THEN f[s \ {Max(s)}]
    ELSE IF f[s \ {Max(s)}] # 0 THEN gcd[<<f[s \ {Max(s)}], ws[Max(s)]>>] ELSE ws[Max(s)]]

\* MaxAll is the fold whose equation MaxIter solves.
LEMMA MaxFolds ==
    ASSUME NEW ws PROVE MaxAll(ws) = MaxIter(ws)[DOMAIN ws]
BY DEF MaxAll, MaxIter, FoldLeft, MapThenFoldSet

\* GcdAll is the fold whose equation GcdIter solves.
LEMMA GcdFolds ==
    ASSUME NEW ws PROVE GcdAll(ws) = GcdIter(ws)[DOMAIN ws]
BY DEF GcdAll, GcdIter, FoldLeft, MapThenFoldSet

MaxOf == [p \in Nat \X Nat |-> IF p[2] > p[1] THEN p[2] ELSE p[1]]

GcdOf == [p \in Nat \X Nat |-> IF p[2] = 0 THEN p[1] ELSE IF p[1] # 0 THEN gcd[p] ELSE p[2]]


\* The last index of a set of indices is one of them.
LEMMA LastIn ==
    ASSUME NEW m \in Nat, NEW s \in SUBSET (1 .. m), s # {}
    PROVE  Max(s) \in s /\ s \ {Max(s)} \in SUBSET (1 .. m)
<1>1. s \subseteq 0 .. m
  OBVIOUS
<1> QED
  BY <1>1, Greatest

\* The equation of an iteration has a solution, which its CHOOSE takes.
MaxEq(f, ws, m) ==
    f = [s \in SUBSET (1 .. m) |->
            IF s = {} THEN 0 ELSE IF ws[Max(s)] > f[s \ {Max(s)}] THEN ws[Max(s)] ELSE f[s \ {Max(s)}]]

\* MaxIter solves its equation.
LEMMA MaxIterates ==
    ASSUME NEW m \in Nat, NEW ws \in [1 .. m -> Nat]
    PROVE  MaxEq(MaxIter(ws), ws, m)
<1>1. MaxOf \in [Nat \X Nat -> Nat] /\ DOMAIN ws = 1 .. m
  BY DEF MaxOf
<1>2. \A a \in Nat, b \in Nat : MaxOf[<<a, b>>] = IF b > a THEN b ELSE a
  BY DEF MaxOf
<1>3. PICK g \in [SUBSET (1 .. m) -> Nat] : FoldOf(g, MaxOf, ws, m)
  BY <1>1, FoldTotal
<1>4. ASSUME NEW s \in SUBSET (1 .. m), s # {}
      PROVE  MaxOf[<<g[s \ {Max(s)}], ws[Max(s)]>>]
                = IF ws[Max(s)] > g[s \ {Max(s)}] THEN ws[Max(s)] ELSE g[s \ {Max(s)}]
  <2>1. g[s \ {Max(s)}] \in Nat /\ ws[Max(s)] \in Nat
    BY <1>4, LastIn
  <2> QED
    BY <2>1, <1>2
<1>5. MaxEq(g, ws, m)
  BY <1>3, <1>4 DEF FoldOf, MaxEq
<1>6. MaxIter(ws) = CHOOSE f : MaxEq(f, ws, m)
  BY <1>1 DEF MaxIter, MaxEq
<1> QED
  BY <1>5, <1>6

\* The loop for max keeps the largest weight.
LEMMA MaxAllIs ==
    ASSUME NEW m \in Nat, NEW ws \in [1 .. m -> Nat]
    PROVE  /\ MaxAll(ws) \in Nat
           /\ \A k \in 1 .. m : ws[k] <= MaxAll(ws)
           /\ MaxAll(ws) = 0 \/ \E k \in 1 .. m : ws[k] = MaxAll(ws)
<1> DEFINE f == MaxIter(ws)
           P == {q \in (SUBSET (1 .. m)) \X Nat :
                    /\ \A k \in q[1] : ws[k] <= q[2]
                    /\ q[2] = 0 \/ \E k \in q[1] : ws[k] = q[2]}
           R == {f[s] : s \in SUBSET (1 .. m)} \cup Nat
           F == [p \in R \X Nat |-> IF p[2] > p[1] THEN p[2] ELSE p[1]]
<1>1. MaxEq(f, ws, m)
  BY MaxIterates
<1> HIDE DEF f
<1>2. ASSUME NEW s \in SUBSET (1 .. m)
      PROVE  f[s] = IF s = {} THEN 0 ELSE F[<<f[s \ {Max(s)}], ws[Max(s)]>>]
  <2>1. CASE s = {}
    BY <1>1, <2>1 DEF MaxEq
  <2>2. CASE s # {}
    <3>1. f[s \ {Max(s)}] \in R /\ ws[Max(s)] \in Nat
      BY <2>2, LastIn
    <3>2. f[s] = IF ws[Max(s)] > f[s \ {Max(s)}] THEN ws[Max(s)] ELSE f[s \ {Max(s)}]
      BY <1>1, <2>2 DEF MaxEq
    <3> HIDE DEF R
    <3> QED
      BY <2>2, <3>1, <3>2
  <2> QED
    BY <2>1, <2>2
<1>3. <<{}, 0>> \in P
  OBVIOUS
<1>4. ASSUME NEW s \in SUBSET (1 .. m), NEW x \in 1 .. m, NEW d, <<s, d>> \in P
      PROVE  <<s \cup {x}, F[<<d, ws[x]>>]>> \in P
  <2>1. d \in Nat /\ ws[x] \in Nat /\ s \cup {x} \in SUBSET (1 .. m)
    BY <1>4
  <2>2. /\ \A k \in s : ws[k] <= d /\ ws[k] \in Nat
        /\ d = 0 \/ \E k \in s : ws[k] = d
    BY <1>4
  <2> DEFINE c == F[<<d, ws[x]>>]
  <2>3. c = IF ws[x] > d THEN ws[x] ELSE d
    BY <2>1
  <2> HIDE DEF c
  <2>4. c \in Nat /\ d <= c /\ ws[x] <= c
    BY <2>1, <2>3
  <2>5. \A k \in s \cup {x} : ws[k] <= c
    BY <2>1, <2>2, <2>4
  <2>6. c = 0 \/ \E k \in s \cup {x} : ws[k] = c
    BY <2>2, <2>3
  <2>7. <<s \cup {x}, c>> \in P
    BY <2>1, <2>4, <2>5, <2>6
  <2> QED
    BY <2>7 DEF c
<1> HIDE DEF P, F
<1>5. Folds(f, F, ws, 1 .. m)
  BY <1>2 DEF Folds
<1>6. <<1 .. m, f[1 .. m]>> \in P
  BY <1>3, <1>4, <1>5, FoldInduction
<1>7. MaxAll(ws) = f[1 .. m]
  BY MaxFolds DEF f
<1> QED
  BY <1>6, <1>7 DEF P

\* A divisor of a divisor is a divisor.
LEMMA DividesTrans ==
    ASSUME NEW a \in Nat, NEW b \in Nat, NEW c \in Nat, Divides(a, b), Divides(b, c)
    PROVE  Divides(a, c)
<1>1. PICK x \in Nat, y \in Nat : b = a * x /\ c = b * y
  BY DEF Divides
<1>2. c = a * (x * y) /\ x * y \in Nat
  BY <1>1, Rings
<1> QED
  BY <1>2 DEF Divides

GcdEq(f, ws, m) ==
    f = [s \in SUBSET (1 .. m) |->
            IF s = {} THEN 0
            ELSE IF ws[Max(s)] = 0 THEN f[s \ {Max(s)}]
            ELSE IF f[s \ {Max(s)}] # 0 THEN gcd[<<f[s \ {Max(s)}], ws[Max(s)]>>] ELSE ws[Max(s)]]

\* GcdIter solves its equation.
LEMMA GcdIterates ==
    ASSUME NEW m \in Nat, NEW ws \in [1 .. m -> Nat]
    PROVE  GcdEq(GcdIter(ws), ws, m)
<1>1. GcdOf \in [Nat \X Nat -> Nat] /\ DOMAIN ws = 1 .. m
  <2>1. ASSUME NEW p \in Nat \X Nat PROVE gcd[p] \in Nat
    <3>1. PICK a \in Nat, b \in Nat : p = <<a, b>>
      OBVIOUS
    <3>2. gcd[<<a, b>>] \in Nat
      BY GcdIs DEF Gcds
    <3> QED
      BY <3>1, <3>2
  <2> QED
    BY <2>1 DEF GcdOf
<1>2. \A a \in Nat, b \in Nat : GcdOf[<<a, b>>] = IF b = 0 THEN a ELSE IF a # 0 THEN gcd[<<a, b>>] ELSE b
  BY DEF GcdOf
<1>3. PICK g \in [SUBSET (1 .. m) -> Nat] : FoldOf(g, GcdOf, ws, m)
  BY <1>1, FoldTotal
<1>4. ASSUME NEW s \in SUBSET (1 .. m), s # {}
      PROVE  GcdOf[<<g[s \ {Max(s)}], ws[Max(s)]>>]
                = IF ws[Max(s)] = 0 THEN g[s \ {Max(s)}]
                  ELSE IF g[s \ {Max(s)}] # 0 THEN gcd[<<g[s \ {Max(s)}], ws[Max(s)]>>] ELSE ws[Max(s)]
  <2>1. g[s \ {Max(s)}] \in Nat /\ ws[Max(s)] \in Nat
    BY <1>4, LastIn
  <2> QED
    BY <2>1, <1>2
<1>5. GcdEq(g, ws, m)
  BY <1>3, <1>4 DEF FoldOf, GcdEq
<1>6. GcdIter(ws) = CHOOSE f : GcdEq(f, ws, m)
  BY <1>1 DEF GcdIter, GcdEq
<1> QED
  BY <1>5, <1>6

\* The loop for delta finds the greatest common divisor of the weights.
LEMMA GcdAllIs ==
    ASSUME NEW m \in Nat, NEW ws \in [1 .. m -> Nat]
    PROVE  /\ GcdAll(ws) \in Nat
           /\ \A k \in 1 .. m : Divides(GcdAll(ws), ws[k])
           /\ \A e \in Nat : (\A k \in 1 .. m : Divides(e, ws[k])) => Divides(e, GcdAll(ws))
<1> DEFINE f == GcdIter(ws)
           P == {q \in (SUBSET (1 .. m)) \X Nat :
                    /\ \A k \in q[1] : Divides(q[2], ws[k])
                    /\ \A e \in Nat : (\A k \in q[1] : Divides(e, ws[k])) => Divides(e, q[2])}
           R == {f[s] : s \in SUBSET (1 .. m)} \cup Nat
           F == [p \in R \X Nat |-> IF p[2] = 0 THEN p[1] ELSE IF p[1] # 0 THEN gcd[p] ELSE p[2]]
<1>1. GcdEq(f, ws, m)
  BY GcdIterates
<1> HIDE DEF f
<1>2. ASSUME NEW s \in SUBSET (1 .. m)
      PROVE  f[s] = IF s = {} THEN 0 ELSE F[<<f[s \ {Max(s)}], ws[Max(s)]>>]
  <2>1. CASE s = {}
    BY <1>1, <2>1 DEF GcdEq
  <2>2. CASE s # {}
    <3>1. f[s \ {Max(s)}] \in R /\ ws[Max(s)] \in Nat
      BY <2>2, LastIn
    <3>2. f[s] = IF ws[Max(s)] = 0 THEN f[s \ {Max(s)}]
                 ELSE IF f[s \ {Max(s)}] # 0 THEN gcd[<<f[s \ {Max(s)}], ws[Max(s)]>>] ELSE ws[Max(s)]
      BY <1>1, <2>2 DEF GcdEq
    <3> HIDE DEF R
    <3> QED
      BY <2>2, <3>1, <3>2
  <2> QED
    BY <2>1, <2>2
<1>3. <<{}, 0>> \in P
  BY Divided0
<1>4. ASSUME NEW s \in SUBSET (1 .. m), NEW x \in 1 .. m, NEW d, <<s, d>> \in P
      PROVE  <<s \cup {x}, F[<<d, ws[x]>>]>> \in P
  <2>1. d \in Nat /\ ws[x] \in Nat /\ s \cup {x} \in SUBSET (1 .. m)
    BY <1>4
  <2>2. /\ \A k \in s : Divides(d, ws[k]) /\ ws[k] \in Nat
        /\ \A e \in Nat : (\A k \in s : Divides(e, ws[k])) => Divides(e, d)
    BY <1>4
  <2> DEFINE c == F[<<d, ws[x]>>]
  <2>3. c = IF ws[x] = 0 THEN d ELSE IF d # 0 THEN gcd[<<d, ws[x]>>] ELSE ws[x]
    BY <2>1
  <2> HIDE DEF c
  <2>4. c \in Gcds(d, ws[x])
    <3>1. \A a \in Nat : a \in Gcds(a, 0) /\ a \in Gcds(0, a)
      BY GcdZero DEF Gcds
    <3> QED
      BY <2>1, <2>3, <3>1, GcdIs
  <2>5. /\ c \in Nat /\ Divides(c, d) /\ Divides(c, ws[x])
        /\ \A e \in Nat : Divides(e, d) /\ Divides(e, ws[x]) => Divides(e, c)
    BY <2>4 DEF Gcds
  <2>6. \A k \in s \cup {x} : Divides(c, ws[k])
    BY <2>1, <2>2, <2>5, DividesTrans
  <2>7. \A e \in Nat : (\A k \in s \cup {x} : Divides(e, ws[k])) => Divides(e, c)
    BY <2>2, <2>5
  <2>8. <<s \cup {x}, c>> \in P
    BY <2>1, <2>5, <2>6, <2>7
  <2> QED
    BY <2>8 DEF c
<1> HIDE DEF P, F
<1>5. Folds(f, F, ws, 1 .. m)
  BY <1>2 DEF Folds
<1>6. <<1 .. m, f[1 .. m]>> \in P
  BY <1>3, <1>4, <1>5, FoldInduction
<1>7. GcdAll(ws) = f[1 .. m]
  BY GcdFolds DEF f
<1> QED
  BY <1>6, <1>7 DEF P

-----------------------------------------------------------------------------
(* The table.                                                               *)

\* The positions of addrs hold the addresses of S, each once.
Lists(xs, S) == /\ xs \in Seq(Addrs)
                /\ \A j, k \in 1 .. Len(xs) : xs[j] = xs[k] => j = k
                /\ \A a \in Addrs : a \in S <=> \E k \in 1 .. Len(xs) : xs[k] = a

\* ws, delta and m are what the weights c come to: of the addresses in S.
Reduces(c, S, ws, d, m) ==
    /\ ws \in [Addrs -> Nat] /\ d \in Nat /\ m \in Nat
    /\ \A a \in Addrs : ws[a] * d = c[a]
    /\ S # {} => /\ \A e \in Nat : (\A a \in S : Divides(e, ws[a])) => e = 1
                 /\ \A a \in S : ws[a] <= m
                 /\ \E a \in S : ws[a] = m

\* What is left of it when a list given to New repeats an address: the largest
\* weight found may be one that was overwritten.
Scales(c, S, ws, d, m) ==
    /\ ws \in [Addrs -> Nat] /\ d \in Nat /\ m \in Nat
    /\ \A a \in Addrs : ws[a] * d = c[a]
    /\ \A a \in Addrs : IF a \in S THEN ws[a] <= m ELSE ws[a] = 0

Configured(c) == {a \in Addrs : c[a] # 0}

NoRepeat(strs) == IsInjective([k \in DOMAIN strs |-> strs[k].address])

\* The addresses are the configured ones, and whoever is in Get has no more
\* tries than twice their number: the cursor moves only when there are some.
CursorInv == /\ conf \in [Addrs -> Nat]
             /\ Lists(addrs, Configured(conf))
             /\ i \in Nat
             /\ retry \in [Procs -> Nat \cup {None}]
             /\ \A p \in Procs : InGet(p) => retry[p] <= 2 * n

\* The weights are the configured ones, scaled, and not above max.
ScaledInv == CursorInv /\ Scales(conf, Configured(conf), weight, delta, max)

\* The weights are the configured ones, reduced.
TableInv == CursorInv /\ Reduces(conf, Configured(conf), weight, delta, max)

\* Dividing by a divisor, and multiplying by it, gives the number back.
LEMMA DivideBack ==
    ASSUME NEW g \in Nat, NEW w \in Nat, w # 0, Divides(g, w)
    PROVE  g > 0 /\ w \div g \in Nat /\ (w \div g) * g = w
<1>1. PICK q \in Nat : w = g * q
  BY DEF Divides
<1>2. g > 0
  BY <1>1
<1>3. PICK r \in Int : r = w \div g /\ r * g <= w /\ w < (r + 1) * g
  BY <1>2
<1>4. r = q
  <2>1. w = q * g
    BY <1>1
  <2>2. ASSUME r < q PROVE FALSE
    <3>1. (r + 1) * g <= q * g
      <4>1. r + 1 <= q
        BY <1>3, <2>2
      <4> QED
        BY <1>2, <1>3, <4>1
    <3> QED
      BY <1>2, <1>3, <2>1, <3>1
  <2>3. ASSUME r > q PROVE FALSE
    <3>1. (q + 1) * g <= r * g
      <4>1. q + 1 <= r
        BY <1>3, <2>3
      <4> QED
        BY <1>2, <1>3, <4>1
    <3>2. (q + 1) * g = q * g + g
      BY <1>2
    <3> QED
      BY <1>2, <1>3, <2>1, <3>1, <3>2
  <2> QED
    BY <1>3, <2>2, <2>3
<1> QED
  BY <1>1, <1>2, <1>3, <1>4

\* A common factor cancels.
LEMMA Cancels ==
    ASSUME NEW a \in Nat, NEW b \in Nat, NEW g \in Nat, g > 0, a * g <= b * g
    PROVE  a <= b
<1> SUFFICES ASSUME b + 1 <= a PROVE FALSE
  OBVIOUS
<1>1. (b + 1) * g <= a * g /\ (b + 1) * g = b * g + g
  OBVIOUS
<1> QED
  BY <1>1

\* Dividing the weights by the greatest common divisor of a list of them
\* reduces them.
LEMMA Reducing ==
    ASSUME NEW c \in [Addrs -> Nat], NEW m \in Nat, NEW ws \in [1 .. m -> Nat],
           NEW S, S = Configured(c), NEW v, v = Divided(S, c, GcdAll(ws)),
           NEW x, x = IF S = {} THEN 0 ELSE MaxAll(ws) \div GcdAll(ws),
           \A a \in S : \E k \in 1 .. m : ws[k] = c[a],
           \A k \in 1 .. m : ws[k] = 0 \/ \E a \in S : ws[k] = c[a]
    PROVE  Reduces(c, S, v, GcdAll(ws), x)
<1> DEFINE g == GcdAll(ws)
           t == MaxAll(ws)
<1>1. /\ g \in Nat /\ t \in Nat
      /\ \A k \in 1 .. m : Divides(g, ws[k]) /\ ws[k] <= t
      /\ \A e \in Nat : (\A k \in 1 .. m : Divides(e, ws[k])) => Divides(e, g)
      /\ t = 0 \/ \E k \in 1 .. m : ws[k] = t
  BY GcdAllIs, MaxAllIs
<1> HIDE DEF g, t
<1>2. \A a \in Addrs : v[a] = IF a \in S THEN c[a] \div g ELSE 0
  BY DEF Divided, g
<1>3. ASSUME NEW a \in S
      PROVE  /\ a \in Addrs /\ c[a] \in Nat /\ c[a] > 0 /\ c[a] <= t
             /\ Divides(g, c[a]) /\ g > 0 /\ v[a] \in Nat /\ v[a] * g = c[a]
  <2>1. a \in Addrs /\ c[a] \in Nat /\ c[a] # 0
    BY DEF Configured
  <2>2. Divides(g, c[a]) /\ c[a] <= t
    BY <1>1
  <2>3. v[a] = c[a] \div g
    BY <1>2, <2>1
  <2>4. g > 0 /\ c[a] \div g \in Nat /\ (c[a] \div g) * g = c[a]
    BY <1>1, <2>1, <2>2, DivideBack
  <2> QED
    BY <2>1, <2>2, <2>3, <2>4
<1>4. \A a \in Addrs : a \notin S => v[a] = 0 /\ c[a] = 0
  BY <1>2 DEF Configured
<1>5. v \in [Addrs -> Nat] /\ \A a \in Addrs : v[a] * g = c[a]
  <2>1. \A a \in Addrs : v[a] \in Nat
    BY <1>3, <1>4
  <2>2. v \in [Addrs -> Nat]
    BY <2>1 DEF Divided
  <2>3. \A a \in Addrs : a \notin S => v[a] * g = c[a]
    BY <1>1, <1>4
  <2> QED
    BY <1>3, <2>2, <2>3
<1>6. x \in Nat /\ (S # {} => (\A a \in S : v[a] <= x) /\ (\E a \in S : v[a] = x))
  <2>1. CASE S = {}
    BY <2>1
  <2>2. CASE S # {}
    <3>1. PICK b \in S : \E k \in 1 .. m : ws[k] = c[b]
      BY <2>2
    <3>2. t > 0
      BY <1>1, <1>3
    <3>3. PICK a \in S : c[a] = t
      BY <1>1, <3>2, SMTT(30)
    <3>4. x = t \div g
      BY <2>2 DEF t, g
    <3>5. x = v[a] /\ x \in Nat /\ x * g = t
      BY <1>2, <1>3, <3>3, <3>4
    <3>6. ASSUME NEW y \in S PROVE v[y] <= x
      <4>1. v[y] * g <= x * g /\ v[y] \in Nat /\ g \in Nat /\ g > 0
        BY <1>1, <1>3, <3>5
      <4> QED
        BY <3>5, <4>1, Cancels
    <3> QED
      BY <3>3, <3>5, <3>6
  <2> QED
    BY <2>1, <2>2
<1>7. ASSUME S # {}, NEW e \in Nat, \A a \in S : Divides(e, v[a]) PROVE e = 1
  <2>1. ASSUME NEW a \in S PROVE Divides(g * e, c[a])
    <3>1. PICK q \in Nat : v[a] = e * q
      BY <1>7 DEF Divides
    <3>2. c[a] = g * (e * q)
      BY <1>1, <1>3, <3>1
    <3>3. c[a] = (g * e) * q
      BY <1>1, <3>1, <3>2, Rings
    <3> QED
      BY <3>3 DEF Divides
  <2>2. g * e \in Nat
    BY <1>1
  <2>3. \A k \in 1 .. m : Divides(g * e, ws[k])
    <3>1. Divides(g * e, 0)
      BY <2>2, Divided0
    <3> QED
      BY <2>1, <3>1
  <2>4. Divides(g * e, g)
    BY <1>1, <2>2, <2>3
  <2>5. PICK q \in Nat : g = (g * e) * q
    BY <2>4 DEF Divides
  <2>6. g = g * (e * q) /\ e * q \in Nat /\ g > 0
    BY <1>1, <1>3, <1>7, <2>5, Rings
  <2>7. e * q = 1
    <3> DEFINE z == e * q
    <3>1. z \in Nat /\ g \in Nat /\ g = g * z /\ g > 0
      BY <1>1, <2>6
    <3> HIDE DEF z
    <3>2. z = 1
      <4>1. z >= 2 => g * z >= g * 2
        BY <3>1
      <4>2. z = 0 => g = 0
        BY <3>1
      <4> QED
        BY <3>1, <4>1, <4>2
    <3> QED
      BY <3>2 DEF z
  <2> QED
    <3>1. e >= 1 /\ q >= 1
      BY <2>7
    <3>2. e * q >= e * 1
      BY <3>1
    <3> QED
      BY <2>7, <3>1, <3>2
<1> QED
  BY <1>1, <1>5, <1>6, <1>7 DEF Reduces, g

\* Dividing the weights by a greatest common divisor of them and of others
\* scales them.
LEMMA Scaling ==
    ASSUME NEW c \in [Addrs -> Nat], NEW m \in Nat, NEW ws \in [1 .. m -> Nat],
           NEW S, S = Configured(c), NEW v, v = Divided(S, c, GcdAll(ws)),
           NEW x, x = IF S = {} THEN 0 ELSE MaxAll(ws) \div GcdAll(ws),
           \A a \in S : \E k \in 1 .. m : ws[k] = c[a]
    PROVE  Scales(c, S, v, GcdAll(ws), x)
<1> DEFINE g == GcdAll(ws)
           t == MaxAll(ws)
<1>1. g \in Nat /\ t \in Nat /\ \A k \in 1 .. m : Divides(g, ws[k]) /\ ws[k] <= t
  BY GcdAllIs, MaxAllIs
<1>2. S # {} => x = t \div g
  OBVIOUS
<1>4. \A a \in Addrs : v[a] = IF a \in S THEN c[a] \div g ELSE 0
  BY DEF Divided
<1> HIDE DEF g, t
<1>5. ASSUME NEW a \in S
      PROVE  v[a] \in Nat /\ v[a] * g = c[a] /\ g > 0 /\ c[a] <= t
  <2>1. a \in Addrs /\ c[a] \in Nat /\ c[a] # 0
    BY DEF Configured
  <2>2. Divides(g, c[a]) /\ c[a] <= t
    BY <1>1
  <2>3. v[a] = c[a] \div g
    BY <1>4, <2>1
  <2>4. g > 0 /\ c[a] \div g \in Nat /\ (c[a] \div g) * g = c[a]
    BY <1>1, <2>1, <2>2, DivideBack
  <2> QED
    BY <2>2, <2>3, <2>4
<1>6. \A a \in Addrs : a \notin S => v[a] = 0 /\ c[a] = 0
  BY <1>4 DEF Configured
<1>7. v \in [Addrs -> Nat] /\ \A a \in Addrs : v[a] * g = c[a]
  <2>1. \A a \in Addrs : v[a] \in Nat
    BY <1>5, <1>6
  <2>2. v \in [Addrs -> Nat]
    BY <2>1 DEF Divided
  <2>3. \A a \in Addrs : a \notin S => v[a] * g = c[a]
    BY <1>1, <1>6
  <2> QED
    BY <1>5, <2>2, <2>3
<1>8. x \in Nat /\ \A a \in S : v[a] <= x
  <2>1. CASE S = {}
    BY <2>1
  <2>2. CASE S # {}
    <3>1. g \in Nat /\ t \in Nat /\ g > 0
      BY <1>1, <1>5, <2>2
    <3>2. PICK q \in Int : q = t \div g /\ q * g <= t /\ t < (q + 1) * g
      BY <3>1
    <3>3. q >= 0
      <4>1. ASSUME q + 1 <= 0 PROVE FALSE
        <5>1. (q + 1) * g <= 0 * g
          BY <3>1, <3>2, <4>1
        <5> QED
          BY <3>1, <3>2, <5>1
      <4> QED
        BY <3>2, <4>1
    <3>4. ASSUME NEW a \in S, q + 1 <= v[a] PROVE FALSE
      <4>1. PICK y \in Nat : y = v[a] /\ y * g <= t /\ q + 1 <= y
        BY <1>5, <3>4
      <4>2. (q + 1) * g <= y * g
        <5>1. q + 1 \in Nat
          BY <3>2, <3>3
        <5> QED
          BY <3>1, <4>1, <5>1, Products
      <4> QED
        BY <3>1, <3>2, <4>1, <4>2
    <3>5. \A a \in S : v[a] <= q
      BY <1>5, <3>2, <3>4
    <3> QED
      BY <1>2, <2>2, <3>2, <3>3, <3>5
  <2> QED
    BY <2>1, <2>2
<1> QED
  BY <1>1, <1>6, <1>7, <1>8 DEF Scales, g

\* ListedAt is the last index at which the address has a weight.
LEMMA Listed ==
    ASSUME NEW strs \in Seq(Items), NEW a \in Addrs
    PROVE  /\ ListedAt(strs, a) \in 0 .. Len(strs)
           /\ ListedAt(strs, a) # 0 => LET s == strs[ListedAt(strs, a)]
                                       IN  s.address = a /\ s.weight \in Nat \ {0}
           /\ \A k \in 1 .. Len(strs) : strs[k].address = a /\ strs[k].weight # 0 => ListedAt(strs, a) >= k
<1> DEFINE T == {0} \cup {k \in DOMAIN strs : strs[k].address = a /\ strs[k].weight # 0}
<1>1. \A k \in 1 .. Len(strs) : strs[k].address \in Addrs /\ strs[k].weight \in Nat
  <2> TAKE k \in 1 .. Len(strs)
  <2>1. strs[k] \in Items
    OBVIOUS
  <2> QED
    BY <2>1, StrsAssumption DEF Items
<1>2. T \subseteq 0 .. Len(strs) /\ T # {} /\ Len(strs) \in Nat
  OBVIOUS
<1>3. Max(T) \in T /\ \A y \in T : Max(T) >= y
  <2> HIDE DEF T
  <2> QED
    BY <1>2, Greatest
<1>4. ListedAt(strs, a) = Max(T)
  BY DEF ListedAt
<1> QED
  BY <1>1, <1>2, <1>3, <1>4

\* New lists each address that has a weight, and scales the weights; it reduces
\* them if the list repeats no address.
LEMMA NewTable ==
    ASSUME NEW strs \in Seq(Items), New(strs)
    PROVE  /\ conf \in [Addrs -> Nat] /\ Lists(addrs, Configured(conf))
           /\ Scales(conf, Configured(conf), weight, delta, max)
           /\ NoRepeat(strs) => Reduces(conf, Configured(conf), weight, delta, max)
<1> DEFINE at(a)  == ListedAt(strs, a)
           m == Len(strs)
           listed == {a \in Addrs : at(a) # 0}
           ws == [k \in 1 .. m |-> strs[k].weight]
<1>1. m \in Nat /\ DOMAIN strs = 1 .. m
  OBVIOUS
<1>2. \A k \in 1 .. m : strs[k].address \in Addrs /\ strs[k].weight \in Nat
  <2> TAKE k \in 1 .. m
  <2>1. strs[k] \in Items
    BY <1>1
  <2> QED
    BY <2>1, StrsAssumption DEF Items
<1>3. \A a \in Addrs : at(a) \in 0 .. m /\ (at(a) # 0 => strs[at(a)].address = a /\ strs[at(a)].weight # 0)
  BY Listed
<1>4. ASSUME NoRepeat(strs), NEW k \in 1 .. m, strs[k].weight # 0 PROVE at(strs[k].address) = k
  <2> DEFINE a == strs[k].address
  <2>1. a \in Addrs /\ at(a) >= k
    BY <1>2, <1>4, Listed
  <2>2. at(a) \in 1 .. m /\ strs[at(a)].address = strs[k].address
    BY <1>3, <2>1
  <2> QED
    BY <1>1, <1>4, <2>2 DEF NoRepeat, IsInjective
<1>5. /\ conf = [a \in Addrs |-> IF a \in listed THEN strs[at(a)].weight ELSE 0]
      /\ addrs \in [1 .. Cardinality(listed) -> listed] /\ ToSet(addrs) = listed
      /\ \A j, k \in DOMAIN addrs : j < k => at(addrs[j]) < at(addrs[k])
      /\ delta = GcdAll(ws)
      /\ weight = Divided(listed, conf, delta)
      /\ max = IF listed = {} THEN 0 ELSE MaxAll(ws) \div delta
  BY <1>1 DEF New
<1>6. conf \in [Addrs -> Nat]
  BY <1>2, <1>3, <1>5
<1>7. listed = Configured(conf)
  BY <1>3, <1>5 DEF Configured
<1>8. Cardinality(listed) \in Nat
  <2> DEFINE K == {k \in 1 .. m : strs[k].address \in listed}
             h == [k \in K |-> strs[k].address]
  <2>1. IsFiniteSet(K)
    <3>1. IsFiniteSet(1 .. m)
      BY <1>1, FS_Interval
    <3> QED
      BY <3>1, FS_Subset
  <2>2. \A a \in listed : \E k \in K : h[k] = a
    <3> TAKE a \in listed
    <3>1. at(a) \in K /\ strs[at(a)].address = a
      BY <1>3
    <3> QED
      BY <3>1
  <2>3. h \in Surjection(K, listed)
    BY <2>2 DEF Surjection
  <2> QED
    BY <2>1, <2>3, FS_Surjection, FS_CardinalityType
<1> HIDE DEF at, listed
<1>9. Lists(addrs, listed)
  <2>1. addrs \in Seq(Addrs) /\ DOMAIN addrs = 1 .. Len(addrs)
    <3>1. listed \subseteq Addrs
      BY DEF listed
    <3>2. addrs \in Seq(listed)
      BY <1>5, <1>8, SMTT(30)
    <3> QED
      BY <3>1, <3>2
  <2>2. ASSUME NEW j \in 1 .. Len(addrs), NEW k \in 1 .. Len(addrs), addrs[j] = addrs[k] PROVE j = k
    <3>1. \A a \in listed : at(a) \in Int
      BY <1>3 DEF listed
    <3>2. at(addrs[j]) \in Int /\ addrs[j] \in listed
      BY <1>5, <2>1, <3>1
    <3>3. ~(j < k) /\ ~(k < j)
      BY <1>5, <2>1, <2>2, <3>2
    <3> QED
      BY <3>3
  <2>3. \A a \in Addrs : a \in listed <=> \E k \in 1 .. Len(addrs) : addrs[k] = a
    BY <1>5, <2>1 DEF ToSet
  <2> QED
    BY <2>1, <2>2, <2>3 DEF Lists
<1>10. ws \in [1 .. m -> Nat]
  BY <1>2
<1>11. \A a \in listed : \E k \in 1 .. m : ws[k] = conf[a]
  <2> TAKE a \in listed
  <2>1. at(a) \in 1 .. m /\ conf[a] = strs[at(a)].weight
    BY <1>3, <1>5 DEF listed
  <2> QED
    BY <2>1
<1>12. delta = GcdAll(ws) /\ weight = Divided(listed, conf, GcdAll(ws))
  BY <1>5
<1>13. max = IF listed = {} THEN 0 ELSE MaxAll(ws) \div GcdAll(ws)
  BY <1>5
<1>14. Scales(conf, listed, weight, delta, max)
  <2> HIDE DEF ws
  <2> QED
    BY <1>1, <1>6, <1>7, <1>10, <1>11, <1>12, <1>13, Scaling
<1>15. ASSUME NoRepeat(strs) PROVE Reduces(conf, listed, weight, delta, max)
  <2>1. \A k \in 1 .. m : ws[k] = 0 \/ \E a \in listed : ws[k] = conf[a]
    <3> SUFFICES ASSUME NEW k \in 1 .. m, strs[k].weight # 0 PROVE \E a \in listed : ws[k] = conf[a]
      OBVIOUS
    <3> DEFINE a == strs[k].address
    <3>1. a \in Addrs /\ at(a) = k
      BY <1>2, <1>4, <1>15
    <3>2. a \in listed
      BY <3>1 DEF listed
    <3>3. conf[a] = strs[k].weight
      BY <1>5, <3>1, <3>2
    <3> QED
      BY <3>2, <3>3
  <2> HIDE DEF ws
  <2> QED
    BY <1>1, <1>6, <1>7, <1>10, <1>11, <1>12, <1>13, <2>1, Reducing
<1> QED
  BY <1>6, <1>7, <1>9, <1>14, <1>15

\* update finds the unit of an address, or appends it.
LEMMA WithUnitIs ==
    ASSUME NEW S, Lists(addrs, S), NEW a \in Addrs
    PROVE  /\ Lists(WithUnit(a), S \cup {a})
           /\ UnitIndex(a) \in 0 .. Len(WithUnit(a)) - 1
           /\ WithUnit(a)[UnitIndex(a) + 1] = a
           /\ a \in S => WithUnit(a) = addrs
           /\ a \notin S => Len(WithUnit(a)) = Len(addrs) + 1 /\ \A k \in 1 .. Len(addrs) : WithUnit(a)[k] = addrs[k]
<1> DEFINE xs == WithUnit(a)
<1>1. addrs \in Seq(Addrs) /\ DOMAIN addrs = 1 .. Len(addrs) /\ (a \in S <=> a \in ToSet(addrs))
  BY DEF Lists, ToSet
<1>2. a \in S => xs = addrs
  BY <1>1 DEF WithUnit
<1>3. ASSUME a \notin S
      PROVE  /\ xs \in Seq(Addrs) /\ Len(xs) = Len(addrs) + 1 /\ xs[Len(addrs) + 1] = a
             /\ \A k \in 1 .. Len(addrs) : xs[k] = addrs[k]
  <2>1. xs = Append(addrs, a)
    BY <1>1, <1>3 DEF WithUnit
  <2> QED
    BY <1>1, <2>1, AppendProperties
<1> HIDE DEF xs
<1>4. Lists(xs, S \cup {a})
  <2>1. CASE a \in S
    <3>1. S \cup {a} = S
      BY <2>1
    <3> QED
      BY <1>2, <2>1, <3>1
  <2>2. CASE a \notin S
    <3>1. xs \in Seq(Addrs) /\ Len(addrs) \in Nat
      BY <1>1, <1>3, <2>2, LenProperties
    <3>2. ASSUME NEW j \in 1 .. Len(xs), NEW k \in 1 .. Len(xs), xs[j] = xs[k] PROVE j = k
      <4>1. \A x \in 1 .. Len(addrs) : addrs[x] # a
        BY <2>2 DEF Lists
      <4>2. \A x \in 1 .. Len(xs) : x \in 1 .. Len(addrs) \/ x = Len(addrs) + 1
        <5>1. PICK m \in Nat : m = Len(addrs)
          BY <3>1
        <5>2. Len(xs) = m + 1
          BY <1>3, <2>2, <5>1
        <5> QED
          BY <5>1, <5>2
      <4>3. \A x, y \in 1 .. Len(addrs) : addrs[x] = addrs[y] => x = y
        BY DEF Lists
      <4> QED
        BY <1>3, <2>2, <3>2, <4>1, <4>2, <4>3
    <3>3. \A b \in Addrs : b \in S \cup {a} <=> \E k \in 1 .. Len(xs) : xs[k] = b
      <4>1. \A x : x \in 1 .. Len(xs) <=> x \in 1 .. Len(addrs) \/ x = Len(addrs) + 1
        <5>1. PICK m \in Nat : m = Len(addrs)
          BY <3>1
        <5>2. Len(xs) = m + 1
          BY <1>3, <2>2, <5>1
        <5> QED
          BY <5>1, <5>2
      <4>2. \A b \in Addrs : b \in S <=> \E k \in 1 .. Len(addrs) : addrs[k] = b
        BY DEF Lists
      <4> QED
        BY <1>3, <2>2, <4>1, <4>2
    <3> QED
      BY <3>1, <3>2, <3>3 DEF Lists
  <2> QED
    BY <2>1, <2>2
<1>5. PICK k \in 1 .. Len(xs) : xs[k] = a
  BY <1>4 DEF Lists
<1>6. UnitIndex(a) + 1 = k
  <2>1. \A x \in 1 .. Len(xs) : xs[x] = a => x = k
    BY <1>4, <1>5 DEF Lists
  <2>2. (CHOOSE x \in 1 .. Len(xs) : xs[x] = a) = k
    BY <1>5, <2>1
  <2>3. UnitIndex(a) = k - 1
    BY <2>2 DEF UnitIndex, xs
  <2> QED
    BY <2>3
<1>7. UnitIndex(a) \in 0 .. Len(xs) - 1
  <2>0. PICK m \in Nat : m = Len(xs)
    BY <1>4, LenProperties DEF Lists
  <2>1. UnitIndex(a) = (CHOOSE x \in 1 .. Len(xs) : xs[x] = a) - 1
    BY DEF UnitIndex, xs
  <2>2. (CHOOSE x \in 1 .. Len(xs) : xs[x] = a) \in 1 .. Len(xs)
    BY <1>5
  <2>3. (CHOOSE x \in 1 .. Len(xs) : xs[x] = a) \in 1 .. m
    BY <2>0, <2>2
  <2>4. UnitIndex(a) \in 0 .. m - 1
    BY <2>0, <2>1, <2>3
  <2> QED
    BY <2>0, <2>4
<1> QED
  BY <1>2, <1>3, <1>4, <1>5, <1>6, <1>7 DEF xs

\* A part of a sequence, by its first index and its length.
LEMMA SubSeqIs ==
    ASSUME NEW T, NEW xs, NEW lo \in Nat, NEW hi \in Nat, NEW c \in Nat, hi = c + lo - 1,
           \A k \in lo .. hi : xs[k] \in T
    PROVE  /\ SubSeq(xs, lo, hi) \in Seq(T) /\ Len(SubSeq(xs, lo, hi)) = c
           /\ \A k \in 1 .. c : SubSeq(xs, lo, hi)[k] = xs[lo + k - 1]
<1>1. hi - lo + 1 = c /\ (lo <= hi <=> c # 0)
  OBVIOUS
<1>2. SubSeq(xs, lo, hi) \in Seq(T)
  BY SubSeqProperties
<1>3. Len(SubSeq(xs, lo, hi)) = IF lo <= hi THEN hi - lo + 1 ELSE 0
  BY SubSeqProperties
<1>4. \A k \in lo .. hi : xs[k] \in T
  OBVIOUS
<1>5. \A k \in 1 .. hi - lo + 1 : SubSeq(xs, lo, hi)[k] = xs[lo + k - 1]
  BY <1>4
<1> QED
  BY <1>1, <1>2, <1>3, <1>5

\* RemoveAt closes the gap, and what it removes is no longer listed.
LEMMA Removing ==
    ASSUME NEW xs, NEW S, Lists(xs, S), NEW m \in Nat, m = Len(xs), NEW u \in 1 .. m
    PROVE  /\ Len(RemoveAt(xs, u)) = m - 1
           /\ \A k \in 1 .. m - 1 : RemoveAt(xs, u)[k] = IF k < u THEN xs[k] ELSE xs[k + 1]
           /\ Lists(RemoveAt(xs, u), S \ {xs[u]})
<1> DEFINE r == RemoveAt(xs, u)
<1>1. xs \in Seq(Addrs) /\ \A k \in 1 .. m : xs[k] \in Addrs
  BY LenProperties, ElementOfSeq DEF Lists
<1>2. /\ r \in Seq(Addrs) /\ Len(r) = m - 1
      /\ \A k \in 1 .. m - 1 : r[k] = IF k < u THEN xs[k] ELSE xs[k + 1]
  <2> DEFINE s == SubSeq(xs, 1, u - 1)
             t == SubSeq(xs, u + 1, m)
  <2>1. s \in Seq(Addrs) /\ Len(s) = u - 1 /\ \A k \in 1 .. u - 1 : s[k] = xs[k]
    <3>1. \A k \in 1 .. u - 1 : k \in 1 .. m
      OBVIOUS
    <3>2. \A k \in 1 .. u - 1 : xs[k] \in Addrs
      BY <1>1, <3>1
    <3>3. u - 1 \in Nat /\ 1 \in Nat /\ u - 1 = (u - 1) + 1 - 1
      OBVIOUS
    <3>4. s \in Seq(Addrs)
      BY <3>2, <3>3, SubSeqIs
    <3>5. Len(s) = u - 1
      BY <3>2, <3>3, SubSeqIs
    <3>6. ASSUME NEW k \in 1 .. u - 1 PROVE s[k] = xs[k]
      <4>1. s[k] = xs[1 + k - 1]
        BY <3>2, <3>3, SubSeqIs
      <4>2. 1 + k - 1 = k
        OBVIOUS
      <4> QED
        BY <4>1, <4>2
    <3> QED
      BY <3>4, <3>5, <3>6
  <2>2. t \in Seq(Addrs) /\ Len(t) = m - u /\ \A k \in 1 .. m - u : t[k] = xs[u + k]
    <3>1. \A k \in u + 1 .. m : k \in 1 .. m
      OBVIOUS
    <3>2. \A k \in u + 1 .. m : xs[k] \in Addrs
      BY <1>1, <3>1
    <3>3. m - u \in Nat /\ u + 1 \in Nat /\ m = (m - u) + (u + 1) - 1
      OBVIOUS
    <3>4. t \in Seq(Addrs)
      BY <3>2, <3>3, SubSeqIs
    <3>5. Len(t) = m - u
      BY <3>2, <3>3, SubSeqIs
    <3>6. ASSUME NEW k \in 1 .. m - u PROVE t[k] = xs[u + k]
      <4>0. \A j \in 1 .. m - u : t[j] = xs[u + 1 + j - 1]
        BY <3>2, <3>3, SubSeqIs
      <4>1. t[k] = xs[u + 1 + k - 1]
        BY <4>0
      <4>2. u + 1 + k - 1 = u + k
        OBVIOUS
      <4> QED
        BY <4>1, <4>2
    <3> QED
      BY <3>4, <3>5, <3>6
  <2>3. r = s \o t
    BY DEF RemoveAt
  <2> HIDE DEF s, t, r
  <2>4. /\ r \in Seq(Addrs) /\ Len(r) = Len(s) + Len(t)
        /\ \A k \in 1 .. Len(s) + Len(t) : r[k] = IF k <= Len(s) THEN s[k] ELSE t[k - Len(s)]
    BY <2>1, <2>2, <2>3, ConcatProperties
  <2>5. Len(r) = m - 1
    BY <2>1, <2>2, <2>4
  <2>6. ASSUME NEW k \in 1 .. m - 1 PROVE r[k] = IF k < u THEN xs[k] ELSE xs[k + 1]
    <3>1. k \in 1 .. Len(s) + Len(t) /\ (k < u <=> k <= Len(s)) /\ k - Len(s) = k + 1 - u
      BY <1>1, <2>1, <2>2
    <3>2. CASE k < u
      <4>1. k \in 1 .. u - 1
        BY <3>2
      <4>2. r[k] = s[k]
        BY <2>4, <3>1, <3>2
      <4> QED
        BY <2>1, <3>2, <4>1, <4>2
    <3>3. CASE ~(k < u)
      <4>1. k + 1 - u \in 1 .. m - u /\ u + (k + 1 - u) = k + 1
        BY <1>1, <3>3
      <4>2. r[k] = t[k + 1 - u]
        BY <2>4, <3>1, <3>3
      <4> QED
        BY <2>2, <3>3, <4>1, <4>2
    <3> QED
      BY <3>2, <3>3
  <2> QED
    BY <2>4, <2>5, <2>6
<1> HIDE DEF r
<1>3. \A j, k \in 1 .. m : xs[j] = xs[k] => j = k
  BY DEF Lists
<1>4. ASSUME NEW j \in 1 .. Len(r), NEW k \in 1 .. Len(r), r[j] = r[k] PROVE j = k
  <2> DEFINE x == IF j < u THEN j ELSE j + 1
             y == IF k < u THEN k ELSE k + 1
  <2>1. x \in 1 .. m /\ y \in 1 .. m /\ (x = y => j = k)
    BY <1>1, <1>2
  <2>2. r[j] = xs[x] /\ r[k] = xs[y]
    BY <1>2
  <2> QED
    BY <1>3, <1>4, <2>1, <2>2
<1>5. ASSUME NEW a \in Addrs
      PROVE  a \in S \ {xs[u]} <=> \E k \in 1 .. Len(r) : r[k] = a
  <2>0. a \in S <=> \E k \in 1 .. m : xs[k] = a
    BY DEF Lists
  <2>1. ASSUME a \in S, a # xs[u] PROVE \E k \in 1 .. Len(r) : r[k] = a
    <3>1. PICK k \in 1 .. m : xs[k] = a
      BY <2>0, <2>1
    <3>2. k # u
      BY <2>1, <3>1
    <3>3. CASE k < u
      <4>1. k \in 1 .. m - 1
        BY <1>1, <3>3
      <4> QED
        BY <1>2, <3>1, <3>3, <4>1
    <3>4. CASE k > u
      <4>1. k - 1 \in 1 .. m - 1 /\ ~(k - 1 < u) /\ (k - 1) + 1 = k
        BY <1>1, <3>4
      <4> QED
        BY <1>2, <3>1, <4>1
    <3> QED
      BY <3>2, <3>3, <3>4
  <2>2. ASSUME NEW k \in 1 .. Len(r), r[k] = a PROVE a \in S /\ a # xs[u]
    <3> DEFINE x == IF k < u THEN k ELSE k + 1
    <3>0. k \in 1 .. m - 1
      BY <1>2
    <3>1. x \in 1 .. m /\ x # u
      BY <3>0
    <3>2. xs[x] = a
      BY <1>2, <2>2, <3>0
    <3> HIDE DEF x
    <3> QED
      BY <1>3, <2>0, <3>1, <3>2
  <2> QED
    BY <2>1, <2>2
<1>6. Lists(r, S \ {xs[u]})
  BY <1>2, <1>4, <1>5 DEF Lists
<1> QED
  BY <1>2, <1>6 DEF r

\* adjust lists the address with its new weight, or no longer, and reduces
\* the weights, from any that delta gives back.
LEMMA Adjusts ==
    ASSUME conf \in [Addrs -> Nat], Lists(addrs, Configured(conf)),
           NEW a \in Addrs, NEW w \in Nat, Adjust(a, w), conf' = [conf EXCEPT ![a] = w]
    PROVE  /\ conf' \in [Addrs -> Nat] /\ Lists(addrs', Configured(conf'))
           /\ (\A b \in Addrs : weight[b] * delta = conf[b])
                 => /\ Reduces(conf', Configured(conf'), weight', delta', max')
                    /\ Scales(conf', Configured(conf'), weight', delta', max')
<1> DEFINE xs == WithUnit(a)
           S  == Configured(conf)
           c  == [conf EXCEPT ![a] = w]
           u  == UnitIndex(a) + 1
<1>1. /\ Lists(xs, S \cup {a}) /\ u \in 1 .. Len(xs) /\ xs[u] = a
  <2>1. Lists(xs, S \cup {a}) /\ UnitIndex(a) \in 0 .. Len(xs) - 1 /\ xs[u] = a
    BY WithUnitIs
  <2>2. Len(xs) \in Nat
    BY <2>1, LenProperties DEF Lists
  <2> HIDE DEF xs
  <2> QED
    BY <2>1, <2>2
<1>2. addrs' = IF w = 0 THEN RemoveAt(xs, u) ELSE xs
  BY DEF Adjust
<1> HIDE DEF xs, u
<1>3. c \in [Addrs -> Nat] /\ \A b \in Addrs : c[b] = IF b = a THEN w ELSE conf[b]
  OBVIOUS
<1>4. Lists(addrs', Configured(c))
  <2>1. CASE w = 0
    <3>1. Configured(c) = (S \cup {a}) \ {a}
      BY <1>3, <2>1 DEF Configured
    <3>2. Len(xs) \in Nat
      BY <1>1, LenProperties DEF Lists
    <3>3. Lists(RemoveAt(xs, u), (S \cup {a}) \ {xs[u]})
      BY <1>1, <3>2, Removing
    <3> QED
      BY <1>1, <1>2, <2>1, <3>1, <3>3
  <2>2. CASE w # 0
    <3>1. Configured(c) = S \cup {a}
      BY <1>3, <2>2 DEF Configured
    <3> QED
      BY <1>1, <1>2, <2>2, <3>1
  <2> QED
    BY <2>1, <2>2
<1>5. ASSUME \A b \in Addrs : weight[b] * delta = conf[b]
      PROVE  Reduces(c, Configured(c), weight', delta', max') /\ Scales(c, Configured(c), weight', delta', max')
  <2> DEFINE T  == Configured(c)
             m  == Len(xs)
             ws == UnitWeights(xs, c)
  <2>1. [b \in Addrs |-> IF b = a THEN w ELSE weight[b] * delta] = c
    BY <1>3, <1>5
  <2>2. /\ delta' = GcdAll(ws)
        /\ weight' = Divided(ToSet(addrs'), c, delta')
        /\ max' = IF addrs' = <<>> THEN 0 ELSE MaxAll(ws) \div delta'
    BY <2>1 DEF Adjust, xs
  <2>3. ToSet(addrs') = T /\ (addrs' = <<>> <=> T = {})
    <3>1. addrs' \in Seq(Addrs) /\ \A b \in Addrs : b \in T <=> \E k \in 1 .. Len(addrs') : addrs'[k] = b
      BY <1>4 DEF Lists
    <3>2. DOMAIN addrs' = 1 .. Len(addrs') /\ \A k \in 1 .. Len(addrs') : addrs'[k] \in Addrs
      BY <3>1, LenProperties, ElementOfSeq
    <3>3. T \subseteq Addrs
      BY DEF Configured
    <3>4. ToSet(addrs') = T
      BY <3>1, <3>2, <3>3 DEF ToSet
    <3>5. addrs' = <<>> <=> Len(addrs') = 0
      BY <3>1, EmptySeq
    <3>6. T # {} <=> \E k \in 1 .. Len(addrs') : TRUE
      BY <3>2, <3>4 DEF ToSet
    <3>7. Len(addrs') \in Nat /\ (Len(addrs') = 0 <=> ~ \E k \in 1 .. Len(addrs') : TRUE)
      <4>1. PICK z \in Nat : z = Len(addrs')
        BY <3>1, LenProperties
      <4>2. z # 0 => z \in 1 .. z
        OBVIOUS
      <4>3. z = 0 => ~ \E k \in 1 .. z : TRUE
        OBVIOUS
      <4> QED
        BY <4>1, <4>2, <4>3
    <3> QED
      BY <3>4, <3>5, <3>6, <3>7
  <2>4. m \in Nat /\ DOMAIN xs = 1 .. m /\ \A k \in 1 .. m : xs[k] \in Addrs
    BY <1>1, LenProperties, ElementOfSeq DEF Lists
  <2>5. ws \in [1 .. m -> Nat] /\ \A k \in 1 .. m : ws[k] = c[xs[k]]
    <3>1. ws = [k \in 1 .. m |-> c[xs[k]]]
      BY <2>4 DEF UnitWeights
    <3>2. \A k \in 1 .. m : c[xs[k]] \in Nat
      BY <1>3, <2>4
    <3> HIDE DEF ws, m, c
    <3> QED
      BY <3>1, <3>2
  <2>6. \A b \in T : \E k \in 1 .. m : ws[k] = c[b]
    <3>1. \A b \in T : b \in Addrs /\ b \in S \cup {a}
      BY <1>3 DEF Configured
    <3>2. \A b \in T : \E k \in 1 .. m : xs[k] = b
      BY <1>1, <3>1 DEF Lists
    <3> HIDE DEF T, m, ws, c
    <3> QED
      BY <2>5, <3>2
  <2>7. \A k \in 1 .. m : ws[k] = 0 \/ \E b \in T : ws[k] = c[b]
    BY <2>4, <2>5 DEF Configured
  <2> HIDE DEF ws, m, c
  <2>8. Reduces(c, T, Divided(T, c, GcdAll(ws)), GcdAll(ws), IF T = {} THEN 0 ELSE MaxAll(ws) \div GcdAll(ws))
    BY <1>3, <2>4, <2>5, <2>6, <2>7, Reducing
  <2>9. Scales(c, T, Divided(T, c, GcdAll(ws)), GcdAll(ws), IF T = {} THEN 0 ELSE MaxAll(ws) \div GcdAll(ws))
    BY <1>3, <2>4, <2>5, <2>6, Scaling
  <2> HIDE DEF T
  <2>10. weight' = Divided(T, c, GcdAll(ws)) /\ max' = IF T = {} THEN 0 ELSE MaxAll(ws) \div GcdAll(ws)
    BY <2>2, <2>3
  <2> QED
    BY <2>2, <2>8, <2>9, <2>10 DEF T
<1> QED
  BY <1>3, <1>4, <1>5

\* A try finds addresses, and leaves the cursor on one of them.
LEMMA CursorMoves ==
    ASSUME CursorInv, NEW p \in Procs, Try(p)
    PROVE  n \in Nat \ {0} /\ i' \in 0 .. n - 1
<1>1. n \in Nat
  BY LenProperties DEF CursorInv, Lists, n
<1>2. retry[p] \in Nat /\ retry[p] # 0 /\ retry[p] <= 2 * n
  BY NoneAssumption DEF CursorInv, Try, InGet
<1>3. n > 0
  BY <1>1, <1>2
<1>4. (i + 1) % n \in 0 .. n - 1
  BY <1>1, <1>3 DEF CursorInv
<1>5. i' = (i + 1) % n
  BY DEF Try, NextI
<1> QED
  BY <1>1, <1>3, <1>4, <1>5

\* Initially, whatever list New is called with.
LEMMA CursorStarts == Init => CursorInv
<1> SUFFICES ASSUME Init PROVE CursorInv
  OBVIOUS
<1>1. PICK strs \in Strs : New(strs)
  BY DEF Init
<1>2. strs \in Seq(Items)
  BY StrsAssumption
<1>3. conf \in [Addrs -> Nat] /\ Lists(addrs, Configured(conf))
  BY <1>1, <1>2, NewTable
<1> QED
  BY <1>3 DEF Init, CursorInv, InGet

\* Steps that leave the addresses alone.
LEMMA CursorTries ==
    ASSUME CursorInv, NEW p \in Procs, GetBegin(p) \/ GetStep(p)
    PROVE  CursorInv'
<1>1. n \in Nat
  BY LenProperties DEF CursorInv, Lists, n
<1>2. UNCHANGED table /\ addrs' = addrs /\ conf' = conf /\ n' = n
  BY DEF GetBegin, GetStep, TryHit, TrySmall, TryDown, GetEnd, table, n
<1>3. i' \in Nat
  <2>1. CASE Try(p)
    BY <2>1, CursorMoves
  <2>2. CASE UNCHANGED i
    BY <2>2 DEF CursorInv
  <2> QED
    BY <2>1, <2>2 DEF GetBegin, GetStep, TryHit, TrySmall, TryDown, GetEnd
<1>4. \E t \in Nat \cup {None} : (t # None => t <= 2 * n) /\ retry' = [retry EXCEPT ![p] = t]
  <2>1. CASE GetBegin(p)
    <3>1. 2 * n \in Nat /\ 2 * n <= 2 * n
      BY <1>1
    <3>2. retry' = [retry EXCEPT ![p] = 2 * n]
      BY <2>1 DEF GetBegin
    <3> QED
      BY <3>1, <3>2
  <2>2. CASE TryHit(p) \/ GetEnd(p)
    BY <2>2 DEF TryHit, GetEnd
  <2>3. CASE TrySmall(p) \/ TryDown(p)
    <3>1. retry[p] \in Nat /\ retry[p] # 0 /\ retry[p] <= 2 * n
      BY <2>3, NoneAssumption DEF CursorInv, TrySmall, TryDown, Try, InGet
    <3>2. retry[p] - 1 \in Nat /\ retry[p] - 1 <= 2 * n
      BY <1>1, <3>1
    <3>3. retry' = [retry EXCEPT ![p] = retry[p] - 1]
      BY <2>3 DEF TrySmall, TryDown
    <3> QED
      BY <3>2, <3>3
  <2> QED
    BY <2>1, <2>2, <2>3 DEF GetStep
<1>5. /\ retry' \in [Procs -> Nat \cup {None}]
      /\ \A q \in Procs : InGet(q)' => retry'[q] <= 2 * n
  BY <1>4 DEF CursorInv, InGet
<1>6. Lists(addrs', Configured(conf')) /\ conf' \in [Addrs -> Nat]
  BY <1>2 DEF CursorInv
<1> QED
  BY <1>2, <1>3, <1>5, <1>6 DEF CursorInv

\* Update and Remove keep the invariants; a cursor that moves back stays a
\* number.
LEMMA CursorUpdates ==
    ASSUME CursorInv, NEW a \in Addrs, NEW w \in Nat, ApplyUpdate(a, w),
           UNCHANGED i \/ i' = IF Len(addrs') > 0 /\ i > UnitIndex(a) THEN (i - 1) % Len(addrs') ELSE i
    PROVE  CursorInv' /\ (TableInv => TableInv') /\ (ScaledInv => ScaledInv')
<1>1. /\ conf' \in [Addrs -> Nat] /\ Lists(addrs', Configured(conf'))
      /\ (\A b \in Addrs : weight[b] * delta = conf[b])
            => /\ Reduces(conf', Configured(conf'), weight', delta', max')
               /\ Scales(conf', Configured(conf'), weight', delta', max')
  <2>1. Adjust(a, w) /\ conf' = [conf EXCEPT ![a] = w]
    BY DEF ApplyUpdate
  <2> QED
    BY <2>1, Adjusts DEF CursorInv
<1>2. i' \in Nat
  <2>1. Len(addrs') \in Nat
    BY <1>1, LenProperties DEF Lists
  <2>2. Len(addrs') > 0 => (i - 1) % Len(addrs') \in Nat
    BY <2>1 DEF CursorInv
  <2> QED
    BY <2>2 DEF CursorInv
<1>3. retry' = retry /\ \A p \in Procs : retry[p] = None
  BY DEF ApplyUpdate, NobodyInGet, InGet
<1>4. CursorInv'
  BY <1>1, <1>2, <1>3 DEF CursorInv, InGet
<1>5. TableInv \/ ScaledInv => \A b \in Addrs : weight[b] * delta = conf[b]
  BY DEF TableInv, ScaledInv, Reduces, Scales
<1> QED
  BY <1>1, <1>4, <1>5 DEF TableInv, ScaledInv

\* Every step keeps the invariants.
LEMMA CursorSteps ==
    ASSUME CursorInv, [Next]_vars
    PROVE  CursorInv' /\ (TableInv => TableInv') /\ (ScaledInv => ScaledInv')
<1>1. ASSUME NEW p \in Procs, GetBegin(p) \/ GetStep(p) PROVE CursorInv' /\ (TableInv => TableInv') /\ (ScaledInv => ScaledInv')
  <2>1. CursorInv'
    BY <1>1, CursorTries
  <2>2. UNCHANGED table
    BY <1>1 DEF GetBegin, GetStep, TryHit, TrySmall, TryDown, GetEnd
  <2> QED
    BY <2>1, <2>2 DEF TableInv, ScaledInv, table
<1>2. ASSUME NEW a \in Addrs, Flip(a) PROVE CursorInv' /\ (TableInv => TableInv') /\ (ScaledInv => ScaledInv')
  BY <1>2 DEF Flip, table, CursorInv, TableInv, ScaledInv, InGet, n
<1>3. ASSUME NEW a \in Addrs, RemoveAddr(a) PROVE CursorInv' /\ (TableInv => TableInv') /\ (ScaledInv => ScaledInv')
  BY <1>3, CursorUpdates DEF RemoveAddr
<1>4. ASSUME NEW a \in Addrs, NEW w \in 0 .. MaxWeight, Update(a, w) PROVE CursorInv' /\ (TableInv => TableInv') /\ (ScaledInv => ScaledInv')
  <2>1. w \in Nat
    BY StrsAssumption
  <2> QED
    BY <1>4, <2>1, CursorUpdates DEF Update
<1>5. ASSUME UNCHANGED vars PROVE CursorInv' /\ (TableInv => TableInv') /\ (ScaledInv => ScaledInv')
  BY <1>5 DEF vars, table, CursorInv, TableInv, ScaledInv, InGet, n
<1> QED
  BY <1>1, <1>2, <1>3, <1>4, <1>5 DEF Next

\* The addresses are the configured ones, each once, and the cursor moves
\* only when there are addresses.
THEOREM CursorInvariant == Spec => []CursorInv
<1>1. Init => CursorInv
  BY CursorStarts
<1>2. CursorInv /\ [Next]_vars => CursorInv'
  BY CursorSteps
<1> QED
  BY <1>1, <1>2, PTL DEF Spec

\* A remainder of 0 is a division.
LEMMA ModZero ==
    ASSUME NEW x \in Nat, NEW d \in Nat \ {0}, x % d = 0
    PROVE  Divides(d, x)
<1>1. PICK q \in Int : q = x \div d /\ x = q * d
  OBVIOUS
<1>2. q \in Nat
  <2>1. q < 0 => q * d < 0
    OBVIOUS
  <2> QED
    BY <1>1, <2>1
<1>3. x = d * q
  BY <1>1
<1> QED
  BY <1>2, <1>3 DEF Divides

\* The invariant of the table says what WeightsFaithful does.
LEMMA TableFaithful == TableInv => WeightsFaithful
<1> SUFFICES ASSUME TableInv PROVE WeightsFaithful
  OBVIOUS
<1> DEFINE S == Configured(conf)
<1>1. Lists(addrs, S) /\ Reduces(conf, S, weight, delta, max)
  BY DEF TableInv, CursorInv
<1>2. /\ addrs \in Seq(Addrs) /\ n \in Nat /\ DOMAIN addrs = 1 .. n /\ n = Len(addrs)
      /\ \A k \in 1 .. n : addrs[k] \in Addrs
  BY <1>1, LenProperties, ElementOfSeq DEF Lists, n
<1>3. ToSet(addrs) = S
  <2>1. \A b \in Addrs : b \in S <=> \E k \in 1 .. n : addrs[k] = b
    BY <1>1, <1>2 DEF Lists
  <2>2. S \subseteq Addrs
    BY DEF Configured
  <2> HIDE DEF S
  <2> QED
    BY <1>2, <2>1, <2>2 DEF ToSet
<1>4. IsInjective(addrs)
  BY <1>1, <1>2 DEF Lists, IsInjective
<1>5. \A b \in S : weight[b] * delta = conf[b]
  BY <1>1 DEF Reduces, Configured
<1>6. ASSUME n > 0
      PROVE  /\ ~ \E d \in 2 .. MaxWeight : \A b \in S : weight[b] % d = 0
             /\ max = Max({weight[b] : b \in S})
  <2>1. S # {} /\ S \subseteq Addrs
    <3>1. 1 \in 1 .. n
      BY <1>2, <1>6
    <3>2. addrs[1] \in ToSet(addrs)
      BY <1>2, <3>1 DEF ToSet
    <3> QED
      BY <1>3, <3>2 DEF Configured
  <2> HIDE DEF S
  <2>2. /\ \A b \in S : weight[b] \in Nat /\ weight[b] <= max
        /\ \E b \in S : weight[b] = max
        /\ \A e \in Nat : (\A b \in S : Divides(e, weight[b])) => e = 1
    BY <1>1, <2>1 DEF Reduces
  <2>3. ASSUME NEW d \in 2 .. MaxWeight, \A b \in S : weight[b] % d = 0 PROVE FALSE
    <3>1. d \in Nat \ {0} /\ d # 1
      BY StrsAssumption
    <3>2. \A b \in S : Divides(d, weight[b])
      BY <2>2, <2>3, <3>1, ModZero
    <3> QED
      BY <2>2, <3>1, <3>2
  <2>4. Max({weight[b] : b \in S}) = max
    <3> DEFINE T == {weight[b] : b \in S}
    <3>1. T \subseteq Nat /\ max \in T /\ \A y \in T : max >= y
      BY <2>2
    <3> HIDE DEF T
    <3>2. Max(T) = max
      BY <3>1, MaxIs
    <3> QED
      BY <3>2 DEF T
  <2> QED
    BY <2>3, <2>4
<1>7. S = {b \in Addrs : conf[b] # 0}
  BY DEF Configured
<1> HIDE DEF S
<1> QED
  BY <1>3, <1>4, <1>5, <1>6, <1>7 DEF WeightsFaithful

\* The table says what was configured, through any updates and removals of
\* any addresses, when no list given to New repeats an address: New folds the
\* weights of overwritten items into max and delta as well.
THEOREM WeightsStayFaithful ==
    ASSUME \A strs \in Strs : NoRepeat(strs)
    PROVE  Spec => []WeightsFaithful
<1>1. Init => TableInv
  <2> SUFFICES ASSUME Init PROVE TableInv
    OBVIOUS
  <2>1. PICK strs \in Strs : New(strs)
    BY DEF Init
  <2>2. strs \in Seq(Items) /\ NoRepeat(strs)
    BY StrsAssumption
  <2>3. Reduces(conf, Configured(conf), weight, delta, max)
    BY <2>1, <2>2, NewTable
  <2> QED
    BY <2>3, CursorStarts DEF TableInv
<1>2. TableInv /\ [Next]_vars => TableInv'
  BY CursorSteps DEF TableInv
<1>3. TableInv => WeightsFaithful
  BY TableFaithful
<1> QED
  BY <1>1, <1>2, <1>3, PTL DEF Spec

\* Removing an address leaves the cursor on the address it was on.
LEMMA RemoveFollows ==
    ASSUME CursorInv, NEW a \in Addrs, RemoveAddr(a), i < n, addrs[i + 1] # a
    PROVE  i' < Len(addrs') /\ addrs'[i' + 1] = addrs[i + 1]
<1> DEFINE xs == WithUnit(a)
           S  == Configured(conf)
           u  == UnitIndex(a) + 1
<1>1. PICK m \in Nat : m = Len(xs)
  BY WithUnitIs, LenProperties DEF CursorInv, Lists
<1>2. /\ Lists(xs, S \cup {a}) /\ UnitIndex(a) \in 0 .. m - 1 /\ xs[u] = a
      /\ a \in S => xs = addrs
      /\ a \notin S => m = Len(addrs) + 1 /\ \A k \in 1 .. Len(addrs) : xs[k] = addrs[k]
  BY <1>1, WithUnitIs DEF CursorInv
<1>3. u \in 1 .. m /\ UnitIndex(a) = u - 1
  BY <1>2
<1>4. addrs' = RemoveAt(xs, u)
  BY DEF RemoveAddr, ApplyUpdate, Adjust
<1> HIDE DEF u, xs, S
<1>5. /\ Len(addrs') = m - 1
      /\ \A k \in 1 .. m - 1 : addrs'[k] = IF k < u THEN xs[k] ELSE xs[k + 1]
  <2> DEFINE T == S \cup {a}
             r == RemoveAt(xs, u)
  <2>1. Lists(xs, T)
    BY <1>2
  <2> HIDE DEF T
  <2>2. Len(r) = m - 1
    <3>1. m \in Nat /\ m = Len(xs) /\ u \in 1 .. m
      BY <1>1, <1>3
    <3>2. Len(RemoveAt(xs, u)) = m - 1
      BY ONLY <2>1, <3>1, Removing
    <3> QED
      BY <3>2
  <2>3. \A k \in 1 .. m - 1 : r[k] = IF k < u THEN xs[k] ELSE xs[k + 1]
    BY <1>1, <1>3, <2>1, Removing, ZenonT(30)
  <2> HIDE DEF r
  <2>4. addrs' = r
    BY <1>4 DEF r
  <2> QED
    BY <2>2, <2>3, <2>4
<1>6. i \in Nat /\ n \in Nat /\ n = Len(addrs)
  BY LenProperties DEF CursorInv, Lists, n
<1>7. i' = IF m - 1 > 0 /\ i > u - 1 THEN (i - 1) % (m - 1) ELSE i
  BY <1>3, <1>5 DEF RemoveAddr
<1>8. CASE a \in S
  <2>1. xs = addrs /\ m = n
    BY <1>1, <1>2, <1>6, <1>8
  <2>2. i # u - 1
    BY <1>2, <1>3, <2>1, <1>6
  <2>3. CASE i < u - 1
    <3>1. i' = i /\ i + 1 \in 1 .. m - 1 /\ i + 1 < u
      BY <1>3, <1>6, <1>7, <2>3
    <3> QED
      BY <1>5, <1>6, <2>1, <3>1
  <2>4. CASE i > u - 1
    <3>1. m - 1 > 0 /\ i - 1 \in 0 .. m - 2
      BY <1>3, <1>6, <2>1, <2>4
    <3>2. (i - 1) % (m - 1) = i - 1
      BY <3>1
    <3>3. i' = i - 1 /\ i' + 1 = i /\ i \in 1 .. m - 1 /\ ~(i < u)
      BY <1>3, <1>6, <1>7, <2>4, <3>1, <3>2
    <3> QED
      BY <1>5, <2>1, <3>3
  <2> QED
    BY <1>3, <1>6, <2>2, <2>3, <2>4
<1>9. CASE a \notin S
  <2>1. m = n + 1 /\ \A k \in 1 .. n : xs[k] = addrs[k]
    BY <1>2, <1>6, <1>9
  <2>2. u = n + 1
    <3>1. ASSUME u \in 1 .. n PROVE FALSE
      <4>1. addrs[u] = a
        BY <1>2, <2>1, <3>1
      <4> QED
        BY <1>6, <1>9, <3>1, <4>1 DEF CursorInv, Lists, S
    <3> QED
      BY <1>3, <1>6, <2>1, <3>1
  <2>3. i' = i /\ i + 1 \in 1 .. m - 1 /\ i + 1 < u
    BY <1>6, <1>7, <2>1, <2>2
  <2> QED
    BY <1>5, <1>6, <2>1, <2>3
<1> QED
  BY <1>8, <1>9

\* Remove, whichever address it removes and from wherever the cursor stands,
\* does not skip the address whose turn it is.
THEOREM CursorFollows == Spec => RemoveKeepsCursor
<1>1. CursorInv /\ [Next]_vars
         => [\A a \in Addrs : RemoveAddr(a) /\ i < n /\ addrs[i + 1] # a
               => i' < Len(addrs') /\ addrs'[i' + 1] = addrs[i + 1]]_vars
  BY RemoveFollows
<1> QED
  BY <1>1, CursorInvariant, PTL DEF Spec, RemoveKeepsCursor

-----------------------------------------------------------------------------
(* Outages and the last resort.                                             *)

\* How many tries ago the cursor, now at j, was at position k of m.
Back(j, k, m) == IF k <= j THEN j - k ELSE j + m - k

\* An address that p has to itself, available all the time, and that no try of
\* p can have passed: p would remember it, or return it.
Overlooked(p, a) == /\ a \in up[p] \cap alone[p]
                    /\ address[p] = None \/ (p \notin late /\ weight[a] = max)

\* What the cursor passed since p began is nothing overlooked; it passes one
\* position with each try of p at least.
PassedInv(p) ==
    /\ ScaledInv
    /\ cw \in Int
    /\ avail \in [Addrs -> BOOLEAN] /\ address \in [Procs -> Addrs \cup {None}]
    /\ up \in [Procs -> SUBSET Addrs] /\ alone \in [Procs -> SUBSET Addrs]
    /\ InGet(p) => /\ \A a \in up[p] : avail[a] /\ a \in ToSet(addrs)
                   /\ p \notin late => cw <= max
                   /\ retry[p] < 2 * n => i < n
                   /\ \A k \in 0 .. n - 1 : Back(i, k, n) < 2 * n - retry[p] => ~Overlooked(p, addrs[k + 1])

\* A try moves the cursor on by one: it has passed one more position.
LEMMA BackMoves ==
    ASSUME NEW m \in Nat \ {0}, NEW c \in Nat, NEW k \in 0 .. m - 1, NEW j \in Nat, j > 0 => c < m,
           Back((c + 1) % m, k, m) < j + 1
    PROVE  k = (c + 1) % m \/ Back(c, k, m) < j
<1> DEFINE d == (c + 1) % m
<1>1. d \in 0 .. m - 1 /\ (c < m => d = IF c + 1 = m THEN 0 ELSE c + 1)
  <2>1. d \in 0 .. m - 1
    OBVIOUS
  <2>2. c + 1 < m => d = c + 1
    OBVIOUS
  <2>3. c + 1 = m => d = 0
    <3>1. m % m = 0
      OBVIOUS
    <3> QED
      BY <3>1
  <2> HIDE DEF d
  <2> QED
    BY <2>1, <2>2, <2>3
<1>2. Back(d, k, m) < j + 1
  OBVIOUS
<1> HIDE DEF d
<1>3. ASSUME j = 0 PROVE k = d
  BY <1>1, <1>2, <1>3 DEF Back
<1>4. ASSUME j > 0 PROVE k = d \/ Back(c, k, m) < j
  BY <1>1, <1>2, <1>4 DEF Back
<1>5. k = d \/ Back(c, k, m) < j
  BY <1>3, <1>4
<1> QED
  BY <1>5 DEF d

\* The functions keep their types.
LEMMA PassedTypes ==
    ASSUME NEW p \in Procs, PassedInv(p), [Next]_vars
    PROVE  /\ ScaledInv' /\ cw' \in Int
           /\ avail' \in [Addrs -> BOOLEAN] /\ address' \in [Procs -> Addrs \cup {None}]
           /\ up' \in [Procs -> SUBSET Addrs] /\ alone' \in [Procs -> SUBSET Addrs]
<1>1. ScaledInv'
  BY CursorSteps DEF PassedInv, ScaledInv
<1>2. /\ cw \in Int /\ max \in Int /\ avail \in [Addrs -> BOOLEAN] /\ address \in [Procs -> Addrs \cup {None}]
      /\ up \in [Procs -> SUBSET Addrs] /\ alone \in [Procs -> SUBSET Addrs]
  BY DEF PassedInv, ScaledInv, Scales
<1>3. ToSet(addrs) \subseteq Addrs
  BY ElementOfSeq, LenProperties DEF ToSet, PassedInv, ScaledInv, CursorInv, Lists
<1>4. ASSUME NEW q \in Procs, GetBegin(q)
      PROVE  /\ cw' \in Int /\ avail' \in [Addrs -> BOOLEAN] /\ address' \in [Procs -> Addrs \cup {None}]
             /\ up' \in [Procs -> SUBSET Addrs] /\ alone' \in [Procs -> SUBSET Addrs]
  <2>1. /\ cw' = cw /\ avail' = avail /\ address' = [address EXCEPT ![q] = None]
        /\ up' = [up EXCEPT ![q] = {a \in ToSet(addrs) : avail[a]}] /\ alone' = [alone EXCEPT ![q] = ToSet(addrs)]
    BY <1>4 DEF GetBegin
  <2> QED
    BY <1>2, <1>3, <2>1
<1>5. ASSUME NEW q \in Procs, TryHit(q) \/ GetEnd(q)
      PROVE  /\ cw' \in Int /\ avail' \in [Addrs -> BOOLEAN] /\ address' \in [Procs -> Addrs \cup {None}]
             /\ up' \in [Procs -> SUBSET Addrs] /\ alone' \in [Procs -> SUBSET Addrs]
  <2>1. /\ cw' = cw \/ cw' = NextCw
        /\ avail' = avail /\ address' = [address EXCEPT ![q] = None] /\ up' = [up EXCEPT ![q] = {}]
        /\ alone' = [alone EXCEPT ![q] = {}] \/ alone' = [Others(q) EXCEPT ![q] = {}]
    BY <1>5 DEF TryHit, GetEnd, Try
  <2>2. Others(q) \in [Procs -> SUBSET Addrs]
    BY <1>2 DEF Others
  <2>3. NextCw \in Int
    BY <1>2 DEF NextCw
  <2> QED
    BY <1>2, <2>1, <2>2, <2>3
<1>6. ASSUME NEW q \in Procs, TrySmall(q) \/ TryDown(q)
      PROVE  /\ cw' \in Int /\ avail' \in [Addrs -> BOOLEAN] /\ address' \in [Procs -> Addrs \cup {None}]
             /\ up' \in [Procs -> SUBSET Addrs] /\ alone' \in [Procs -> SUBSET Addrs]
  <2>1. /\ cw' = NextCw /\ avail' = avail /\ up' = up /\ alone' = Others(q)
        /\ address' = address \/ address' = [address EXCEPT ![q] = Tried]
    BY <1>6 DEF TrySmall, TryDown, Try
  <2>2. Others(q) \in [Procs -> SUBSET Addrs]
    BY <1>2 DEF Others
  <2>3. NextCw \in Int
    BY <1>2 DEF NextCw
  <2>4. Tried \in Addrs
    <3>1. Try(q) /\ CursorInv
      BY <1>6 DEF TrySmall, TryDown, PassedInv, ScaledInv
    <3>2. n \in Nat \ {0} /\ i' \in 0 .. n - 1 /\ i' = NextI
      BY <3>1, CursorMoves DEF Try
    <3>3. NextI + 1 \in 1 .. Len(addrs)
      BY <3>2 DEF n
    <3> QED
      BY <3>1, <3>3, ElementOfSeq DEF Tried, CursorInv, Lists
  <2> QED
    BY <1>2, <2>1, <2>2, <2>3, <2>4
<1>7. ASSUME NEW a \in Addrs, Flip(a)
      PROVE  /\ cw' \in Int /\ avail' \in [Addrs -> BOOLEAN] /\ address' \in [Procs -> Addrs \cup {None}]
             /\ up' \in [Procs -> SUBSET Addrs] /\ alone' \in [Procs -> SUBSET Addrs]
  BY <1>2, <1>7 DEF Flip
<1>8. ASSUME NEW a \in Addrs, NEW w, ApplyUpdate(a, w)
      PROVE  /\ cw' \in Int /\ avail' \in [Addrs -> BOOLEAN] /\ address' \in [Procs -> Addrs \cup {None}]
             /\ up' \in [Procs -> SUBSET Addrs] /\ alone' \in [Procs -> SUBSET Addrs]
  BY <1>2, <1>8 DEF ApplyUpdate
<1>9. CASE UNCHANGED vars
  BY <1>1, <1>2, <1>9 DEF vars
<1> QED
  BY <1>1, <1>4, <1>5, <1>6, <1>7, <1>8, <1>9 DEF Next, GetStep, RemoveAddr, Update

\* A Get that begins has passed nothing.
LEMMA PassedBegins ==
    ASSUME NEW p \in Procs, PassedInv(p), GetBegin(p)
    PROVE  PassedInv(p)'
<1>1. /\ ScaledInv' /\ cw' \in Int
      /\ avail' \in [Addrs -> BOOLEAN] /\ address' \in [Procs -> Addrs \cup {None}]
      /\ up' \in [Procs -> SUBSET Addrs] /\ alone' \in [Procs -> SUBSET Addrs]
  BY PassedTypes DEF Next
<1>2. /\ addrs' = addrs /\ n' = n /\ i' = i /\ avail' = avail /\ max' = max /\ cw' = cw
      /\ up'[p] = {a \in ToSet(addrs) : avail[a]} /\ retry'[p] = 2 * n /\ (p \notin late' => ~(cw > max))
  BY DEF GetBegin, table, n, PassedInv, ScaledInv, CursorInv
<1>3. n \in Nat /\ i \in Nat /\ max \in Nat /\ cw \in Int
  BY LenProperties DEF PassedInv, ScaledInv, Scales, CursorInv, Lists, n
<1>4. \A k \in 0 .. n - 1 : ~(Back(i, k, n) < 2 * n - 2 * n)
  BY <1>3 DEF Back
<1>5. ~(2 * n < 2 * n) /\ (p \notin late' => cw <= max)
  BY <1>2, <1>3
<1> QED
  BY <1>1, <1>2, <1>4, <1>5 DEF PassedInv

\* What a try of q changes for p: if p tries itself, it has one try less, and it
\* remembers an address or has met one that is not available; if another
\* caller tries, the address is not p's alone any more.
LEMMA TryForOne ==
    ASSUME NEW p \in Procs, NEW q \in Procs, PassedInv(p), InGet(p),
           TryHit(q) \/ TrySmall(q) \/ TryDown(q), InGet(p)'
    PROVE  /\ up'[p] = up[p] /\ (p \in late' <=> p \in late) /\ alone'[p] \subseteq alone[p]
           /\ address'[p] = None => address[p] = None
           /\ retry[p] \in 0 .. 2 * n /\ retry'[p] \in {retry[p], retry[p] - 1}
           /\ ~ /\ Tried \in up[p] \cap alone'[p]
                /\ address'[p] = None \/ (p \notin late /\ weight[Tried] = max)
<1>1. /\ retry \in [Procs -> Nat \cup {None}] /\ address \in [Procs -> Addrs \cup {None}]
      /\ up \in [Procs -> SUBSET Addrs] /\ alone \in [Procs -> SUBSET Addrs]
  BY DEF PassedInv, ScaledInv, CursorInv
<1>2. retry[p] \in Nat /\ retry[p] <= 2 * n /\ n \in Nat
  BY <1>1, LenProperties DEF InGet, PassedInv, ScaledInv, CursorInv, Lists, n
<1>3. CASE q # p
  <2>1. /\ retry'[p] = retry[p] /\ address'[p] = address[p] /\ up'[p] = up[p] /\ (p \in late' <=> p \in late)
    BY <1>1, <1>3 DEF TryHit, TrySmall, TryDown
  <2>2. alone'[p] = alone[p] \ {Tried}
    BY <1>3 DEF TryHit, TrySmall, TryDown, Others
  <2> QED
    BY <1>2, <2>1, <2>2
<1>4. CASE q = p
  <2>1. ~TryHit(p)
    BY <1>1 DEF TryHit, InGet
  <2>2. TrySmall(p) \/ TryDown(p)
    BY <1>4, <2>1
  <2>3. /\ up' = up /\ late' = late /\ alone'[p] = alone[p]
        /\ retry'[p] = retry[p] - 1 /\ Try(p)
    BY <1>1, <2>2 DEF TrySmall, TryDown, Others
  <2>4. CASE TryDown(p)
    <3>1. ~avail[Tried] /\ address' = address
      BY <2>4 DEF TryDown
    <3>2. Tried \notin up[p]
      BY <3>1 DEF PassedInv
    <3> QED
      BY <1>2, <2>3, <3>1, <3>2
  <2>5. CASE TrySmall(p)
    <3>1. weight[Tried] < NextCw /\ address' = [address EXCEPT ![p] = Tried]
      BY <2>5 DEF TrySmall
    <3>2. ASSUME Tried \in up[p] PROVE address'[p] # None /\ (p \notin late => weight[Tried] # max)
      <4>1. Tried \in Addrs
        BY <1>1, <3>2
      <4>2. weight[Tried] \in Nat /\ max \in Nat /\ cw \in Int
        BY <4>1 DEF PassedInv, ScaledInv, Scales
      <4>3. p \notin late => NextCw <= max
        BY <4>2 DEF NextCw, PassedInv
      <4>4. p \notin late => weight[Tried] # max
        <5>1. NextCw \in Int
          BY <4>2 DEF NextCw
        <5> QED
          BY <3>1, <4>2, <4>3, <5>1
      <4>5. address'[p] = Tried
        BY <1>1, <3>1
      <4> QED
        BY <4>1, <4>4, <4>5, NoneAssumption
    <3>3. address'[p] = None => address[p] = None
      <4>1. Tried \in ToSet(addrs) /\ ToSet(addrs) \subseteq Addrs
        <5>1. CursorInv
          BY DEF PassedInv, ScaledInv
        <5>2. i' \in 0 .. n - 1 /\ n = Len(addrs) /\ DOMAIN addrs = 1 .. n /\ i' = NextI
          BY <2>3, <5>1, CursorMoves, LenProperties DEF CursorInv, Lists, n, Try
        <5>3. NextI + 1 \in DOMAIN addrs
          BY <1>2, <5>2
        <5> QED
          BY <5>1, <5>3, ElementOfSeq, LenProperties DEF Tried, ToSet, CursorInv, Lists
      <4> QED
        BY <1>1, <3>1, <4>1, NoneAssumption
    <3> QED
      BY <1>2, <2>3, <3>2, <3>3
  <2> QED
    BY <2>2, <2>4, <2>5
<1> QED
  BY <1>3, <1>4

\* A try of any caller keeps what p has passed free of overlooked addresses.
LEMMA PassedTries ==
    ASSUME NEW p \in Procs, NEW q \in Procs, PassedInv(p), TryHit(q) \/ TrySmall(q) \/ TryDown(q)
    PROVE  PassedInv(p)'
<1>1. /\ ScaledInv' /\ cw' \in Int
      /\ avail' \in [Addrs -> BOOLEAN] /\ address' \in [Procs -> Addrs \cup {None}]
      /\ up' \in [Procs -> SUBSET Addrs] /\ alone' \in [Procs -> SUBSET Addrs]
  BY PassedTypes DEF Next, GetStep
<1>2. Try(q) /\ UNCHANGED <<addrs, weight, max, avail>> /\ n' = n
  BY DEF TryHit, TrySmall, TryDown, table, n
<1>3. CursorInv /\ max \in Nat /\ cw \in Int /\ i \in Nat
  BY DEF PassedInv, ScaledInv, Scales, CursorInv
<1>4. n \in Nat \ {0} /\ i' \in 0 .. n - 1 /\ i' = (i + 1) % n /\ cw' = NextCw /\ Tried = addrs[i' + 1]
  BY <1>2, <1>3, CursorMoves DEF Try, NextI, Tried
<1>5. ASSUME InGet(p)'
      PROVE  /\ \A a \in up'[p] : avail[a] /\ a \in ToSet(addrs)
             /\ p \notin late' => cw' <= max
             /\ i' < n
             /\ \A k \in 0 .. n - 1 : Back(i', k, n) < 2 * n - retry'[p]
                   => ~ /\ addrs[k + 1] \in up'[p] \cap alone'[p]
                        /\ address'[p] = None \/ (p \notin late' /\ weight[addrs[k + 1]] = max)
  <2>1. InGet(p)
    <3>1. q = p => InGet(p)
      BY <1>2 DEF Try
    <3>2. q # p => retry'[p] = retry[p]
      BY DEF TryHit, TrySmall, TryDown, PassedInv, ScaledInv, CursorInv
    <3> QED
      BY <1>5, <3>1, <3>2 DEF InGet
  <2>2. /\ up'[p] = up[p] /\ (p \in late' <=> p \in late) /\ alone'[p] \subseteq alone[p]
        /\ address'[p] = None => address[p] = None
        /\ retry[p] \in 0 .. 2 * n /\ retry'[p] \in {retry[p], retry[p] - 1}
        /\ ~ /\ Tried \in up[p] \cap alone'[p]
             /\ address'[p] = None \/ (p \notin late /\ weight[Tried] = max)
    BY <1>5, <2>1, TryForOne
  <2>3. \A a \in up'[p] : avail[a] /\ a \in ToSet(addrs)
    BY <2>1, <2>2 DEF PassedInv
  <2>4. p \notin late' => cw' <= max
    <3>1. p \notin late' => cw <= max
      BY <2>1, <2>2 DEF PassedInv
    <3> QED
      BY <1>3, <1>4, <3>1 DEF NextCw
  <2>5. ASSUME NEW k \in 0 .. n - 1, Back(i', k, n) < 2 * n - retry'[p],
               addrs[k + 1] \in up'[p] \cap alone'[p],
               address'[p] = None \/ (p \notin late' /\ weight[addrs[k + 1]] = max)
        PROVE  FALSE
    <3>1. PICK j \in Nat : j = 2 * n - retry[p]
      BY <1>4, <2>2
    <3>2. 2 * n - retry'[p] <= j + 1 /\ 2 * n - retry'[p] \in Int
      BY <1>4, <2>2, <3>1
    <3>3. Back(i', k, n) \in Int
      BY <1>4 DEF Back
    <3>4. Back(i', k, n) < j + 1
      BY <2>5, <3>1, <3>2, <3>3
    <3>5. j > 0 => i < n
      <4>1. j > 0 => retry[p] < 2 * n
        BY <1>4, <2>2, <3>1
      <4> QED
        BY <2>1, <4>1 DEF PassedInv
    <3>6. k = i' \/ Back(i, k, n) < j
      BY <1>3, <1>4, <3>4, <3>5, BackMoves
    <3>7. k # i'
      BY <1>4, <2>2, <2>5
    <3>8. ~Overlooked(p, addrs[k + 1])
      BY <2>1, <3>1, <3>6, <3>7 DEF PassedInv
    <3> QED
      BY <2>2, <2>5, <3>8 DEF Overlooked
  <2> QED
    BY <1>4, <2>3, <2>4, <2>5
<1> QED
  BY <1>1, <1>2, <1>5 DEF PassedInv, Overlooked

\* What leaves p's Get as it was, and takes addresses from it at most.
LEMMA PassedStays ==
    ASSUME NEW p \in Procs, PassedInv(p), [Next]_vars,
           UNCHANGED <<addrs, weight, max, i, cw>>, retry'[p] = retry[p], address'[p] = address[p],
           up'[p] \subseteq up[p], alone'[p] = alone[p], p \in late' <=> p \in late,
           \A a \in up'[p] : avail'[a] = avail[a]
    PROVE  PassedInv(p)'
<1>1. /\ ScaledInv' /\ cw' \in Int
      /\ avail' \in [Addrs -> BOOLEAN] /\ address' \in [Procs -> Addrs \cup {None}]
      /\ up' \in [Procs -> SUBSET Addrs] /\ alone' \in [Procs -> SUBSET Addrs]
  BY PassedTypes
<1>2. n' = n /\ InGet(p)' = InGet(p)
  BY DEF n, InGet
<1>3. \A a : Overlooked(p, a)' => Overlooked(p, a)
  BY DEF Overlooked
<1>4. InGet(p) => \A a \in up'[p] : avail'[a] /\ a \in ToSet(addrs)
  BY DEF PassedInv
<1>5. InGet(p) => /\ p \notin late' => cw <= max
                  /\ retry[p] < 2 * n => i < n
                  /\ \A k \in 0 .. n - 1 : Back(i, k, n) < 2 * n - retry[p] => ~Overlooked(p, addrs[k + 1])
  BY DEF PassedInv
<1>6. InGet(p) => \A k \in 0 .. n - 1 : Back(i, k, n) < 2 * n - retry[p]
                     => ~ /\ addrs[k + 1] \in up'[p] \cap alone'[p]
                          /\ address'[p] = None \/ (p \notin late' /\ weight[addrs[k + 1]] = max)
  BY <1>5 DEF Overlooked
<1> QED
  BY <1>1, <1>2, <1>4, <1>5, <1>6 DEF PassedInv, Overlooked

\* Every step of any caller keeps the invariant of each.
LEMMA PassedSteps ==
    ASSUME NEW p \in Procs, PassedInv(p), [Next]_vars
    PROVE  PassedInv(p)'
<1>1. /\ retry \in [Procs -> Nat \cup {None}] /\ address \in [Procs -> Addrs \cup {None}]
      /\ up \in [Procs -> SUBSET Addrs] /\ alone \in [Procs -> SUBSET Addrs]
  BY DEF PassedInv, ScaledInv, CursorInv
<1>2. ASSUME ~InGet(p)' PROVE PassedInv(p)'
  BY <1>2, PassedTypes DEF PassedInv
<1>3. ASSUME NEW q \in Procs, TryHit(q) \/ TrySmall(q) \/ TryDown(q) PROVE PassedInv(p)'
  BY <1>3, PassedTries
<1>4. ASSUME NEW q \in Procs, GetBegin(q) PROVE PassedInv(p)'
  <2>1. CASE q = p
    BY <1>4, <2>1, PassedBegins
  <2>2. CASE q # p
    <3>1. /\ UNCHANGED <<addrs, weight, max, i, cw, avail>> /\ retry'[p] = retry[p] /\ address'[p] = address[p]
          /\ up'[p] = up[p] /\ alone'[p] = alone[p] /\ (p \in late' <=> p \in late)
      BY <1>1, <1>4, <2>2 DEF GetBegin, table
    <3> QED
      BY <3>1, PassedStays
  <2> QED
    BY <2>1, <2>2
<1>5. ASSUME NEW q \in Procs, GetEnd(q) PROVE PassedInv(p)'
  <2>1. CASE q = p
    <3>1. ~InGet(p)'
      BY <1>1, <1>5, <2>1 DEF GetEnd, InGet
    <3> QED
      BY <1>2, <3>1
  <2>2. CASE q # p
    <3>1. /\ UNCHANGED <<addrs, weight, max, i, cw, avail>> /\ retry'[p] = retry[p] /\ address'[p] = address[p]
          /\ up'[p] = up[p] /\ alone'[p] = alone[p] /\ (p \in late' <=> p \in late)
      BY <1>1, <1>5, <2>2 DEF GetEnd, table
    <3> QED
      BY <3>1, PassedStays
  <2> QED
    BY <2>1, <2>2
<1>6. ASSUME NEW a \in Addrs, Flip(a) PROVE PassedInv(p)'
  <2>1. /\ UNCHANGED <<addrs, weight, max, i, cw, retry, address, alone, late>>
        /\ avail' = [avail EXCEPT ![a] = ~@] /\ up'[p] = up[p] \ {a}
    BY <1>6 DEF Flip, table
  <2>2. \A b \in up'[p] : avail'[b] = avail[b]
    BY <1>1, <2>1 DEF PassedInv
  <2> QED
    BY <2>1, <2>2, PassedStays
<1>7. ASSUME NEW a \in Addrs, NEW w, ApplyUpdate(a, w) PROVE PassedInv(p)'
  <2>1. ~InGet(p)'
    BY <1>7 DEF ApplyUpdate, NobodyInGet, InGet
  <2> QED
    BY <1>2, <2>1
<1>8. CASE UNCHANGED vars
  <2>1. UNCHANGED <<addrs, weight, max, i, cw, avail, retry, address, up, alone, late>>
    BY <1>8 DEF vars, table
  <2> QED
    BY <2>1, PassedStays
<1> QED
  BY <1>3, <1>4, <1>5, <1>6, <1>7, <1>8 DEF Next, GetStep, RemoveAddr, Update

\* After 2n tries every position has been passed.
LEMMA NothingOverlooked ==
    ASSUME NEW p \in Procs, PassedInv(p), retry[p] = 0, NEW a \in up[p]
    PROVE  ~Overlooked(p, a)
<1>1. InGet(p)
  BY NoneAssumption DEF InGet
<1>2. PICK m \in Nat : m = n
  BY LenProperties DEF PassedInv, ScaledInv, CursorInv, Lists, n
<1>3. DOMAIN addrs = 1 .. m
  BY <1>2, LenProperties DEF PassedInv, ScaledInv, CursorInv, Lists, n
<1>4. PICK k \in 1 .. m : addrs[k] = a
  BY <1>1, <1>3 DEF PassedInv, ToSet
<1>5. i \in Nat /\ i < m
  <2>1. 0 < 2 * m
    BY <1>2, <1>4
  <2> QED
    BY <1>1, <1>2, <2>1 DEF PassedInv, ScaledInv, CursorInv
<1>6. k - 1 \in 0 .. m - 1 /\ (k - 1) + 1 = k /\ Back(i, k - 1, m) < 2 * m - 0
  BY <1>2, <1>4, <1>5 DEF Back
<1>7. \A z \in 0 .. m - 1 : Back(i, z, m) < 2 * m - 0 => ~Overlooked(p, addrs[z + 1])
  BY <1>1, <1>2 DEF PassedInv
<1> QED
  BY <1>4, <1>6, <1>7

\* The invariant of every caller.
AllPassedInv == \A p \in Procs : PassedInv(p)

LEMMA PassedInvariant == Spec => []AllPassedInv
<1>1. Init => AllPassedInv
  <2> SUFFICES ASSUME Init, NEW p \in Procs PROVE PassedInv(p)
    BY DEF AllPassedInv
  <2>1. CursorInv
    BY CursorStarts
  <2>2. PICK strs \in Strs : New(strs)
    BY DEF Init
  <2>3. strs \in Seq(Items)
    BY StrsAssumption
  <2>4. Scales(conf, Configured(conf), weight, delta, max)
    BY <2>2, <2>3, NewTable
  <2>5. ~InGet(p)
    BY DEF Init, InGet
  <2> QED
    BY <2>1, <2>4, <2>5 DEF Init, PassedInv, ScaledInv
<1>2. AllPassedInv /\ [Next]_vars => AllPassedInv'
  BY PassedSteps DEF AllPassedInv
<1> QED
  BY <1>1, <1>2, PTL DEF Spec

\* A caller is told of an outage only if each address was unavailable at some
\* moment while it looked or another caller came to it meanwhile, however many
\* callers share the cursor.
THEOREM OutagesAreReal == Spec => []NoFalseOutage
<1>1. AllPassedInv => NoFalseOutage
  BY NothingOverlooked DEF AllPassedInv, NoFalseOutage, Overlooked
<1> QED
  BY <1>1, PassedInvariant, PTL

\* A Get that began with cw not above max returns one of the heaviest
\* addresses, or an earlier one, if there is one that it has to itself: it
\* does not come to its last try.
THEOREM LastResortIsRare == Spec => []LastResort
<1>1. AllPassedInv => LastResort
  BY NothingOverlooked DEF AllPassedInv, LastResort, Overlooked
<1> QED
  BY <1>1, PassedInvariant, PTL

\* Some address was not available all the time a caller looked that is told
\* of an outage, however many callers share the cursor.
SomeWasDown == \A p \in Procs : retry[p] = 0 /\ address[p] = None /\ n > 0 => up[p] # ToSet(addrs)

\* A caller in Get that remembers no address, though all have been available
\* since it began, has made no try yet.
LooksInv ==
    /\ CursorInv
    /\ avail \in [Addrs -> BOOLEAN] /\ up \in [Procs -> SUBSET Addrs]
    /\ address \in [Procs -> Addrs \cup {None}]
    /\ \A p \in Procs : InGet(p) => /\ \A a \in up[p] : avail[a]
                                    /\ address[p] = None /\ up[p] = ToSet(addrs) => retry[p] = 2 * n

\* What one caller does is nothing to the others.
LEMMA LooksOthers ==
    ASSUME LooksInv, CursorInv', NEW p \in Procs, avail' = avail, addrs' = addrs,
           \A q \in Procs : q # p => retry'[q] = retry[q] /\ address'[q] = address[q] /\ up'[q] = up[q],
           up' \in [Procs -> SUBSET Addrs], address' \in [Procs -> Addrs \cup {None}],
           InGet(p)' => /\ \A a \in up'[p] : avail[a]
                        /\ address'[p] = None /\ up'[p] = ToSet(addrs) => retry'[p] = 2 * n
    PROVE  LooksInv'
<1>1. n' = n
  BY DEF n
<1>2. ASSUME NEW q \in Procs, InGet(q)'
      PROVE  /\ \A a \in up'[q] : avail'[a]
             /\ address'[q] = None /\ up'[q] = ToSet(addrs') => retry'[q] = 2 * n'
  <2>1. CASE q = p
    BY <1>1, <1>2, <2>1
  <2>2. CASE q # p
    BY <1>1, <1>2, <2>2 DEF LooksInv, InGet
  <2> QED
    BY <2>1, <2>2
<1>3. avail' \in [Addrs -> BOOLEAN]
  BY DEF LooksInv
<1> QED
  BY <1>2, <1>3 DEF LooksInv

\* A step of a caller keeps the invariant: a try of an address that is
\* available remembers or returns it.
LEMMA LooksTries ==
    ASSUME LooksInv, NEW p \in Procs, GetBegin(p) \/ GetStep(p)
    PROVE  LooksInv'
<1>1. CursorInv'
  BY CursorTries DEF LooksInv
<1>2. avail' = avail /\ addrs' = addrs /\ retry \in [Procs -> Nat \cup {None}]
  BY DEF GetBegin, GetStep, TryHit, TrySmall, TryDown, GetEnd, table, LooksInv, CursorInv
<1>3. ToSet(addrs) \subseteq Addrs
  BY ElementOfSeq, LenProperties DEF ToSet, LooksInv, CursorInv, Lists
<1>4. CASE GetBegin(p)
  <2>1. /\ retry' = [retry EXCEPT ![p] = 2 * n] /\ address' = [address EXCEPT ![p] = None]
        /\ up' = [up EXCEPT ![p] = {a \in ToSet(addrs) : avail[a]}]
    BY <1>4 DEF GetBegin
  <2>2. /\ up' \in [Procs -> SUBSET Addrs] /\ address' \in [Procs -> Addrs \cup {None}]
        /\ up'[p] = {a \in ToSet(addrs) : avail[a]} /\ retry'[p] = 2 * n
        /\ \A q \in Procs : q # p => retry'[q] = retry[q] /\ address'[q] = address[q] /\ up'[q] = up[q]
    BY <1>2, <1>3, <2>1 DEF LooksInv
  <2> QED
    BY <1>1, <1>2, <2>2, LooksOthers
<1>5. CASE TryHit(p) \/ GetEnd(p)
  <2>1. /\ retry' = [retry EXCEPT ![p] = None] /\ address' = [address EXCEPT ![p] = None]
        /\ up' = [up EXCEPT ![p] = {}]
    BY <1>5 DEF TryHit, GetEnd
  <2>2. /\ up' \in [Procs -> SUBSET Addrs] /\ address' \in [Procs -> Addrs \cup {None}] /\ ~InGet(p)'
        /\ \A q \in Procs : q # p => retry'[q] = retry[q] /\ address'[q] = address[q] /\ up'[q] = up[q]
    BY <1>2, <2>1 DEF LooksInv, InGet
  <2> QED
    BY <1>1, <1>2, <2>2, LooksOthers
<1>6. CASE TrySmall(p) \/ TryDown(p)
  <2>1. Try(p) /\ retry' = [retry EXCEPT ![p] = @ - 1] /\ up' = up
    BY <1>6 DEF TrySmall, TryDown
  <2>2. Tried \in ToSet(addrs)
    <3>1. i' \in 0 .. n - 1 /\ n \in Nat /\ n = Len(addrs) /\ DOMAIN addrs = 1 .. n /\ i' = NextI
      BY <2>1, CursorMoves, LenProperties DEF LooksInv, CursorInv, Lists, n, Try
    <3>2. NextI + 1 \in DOMAIN addrs
      BY <3>1
    <3> QED
      BY <3>2 DEF Tried, ToSet
  <2>3. address' \in [Procs -> Addrs \cup {None}] /\ (address'[p] = None => address[p] = None /\ ~avail[Tried])
    <3>1. CASE TrySmall(p)
      <4>1. address' = [address EXCEPT ![p] = Tried]
        BY <3>1 DEF TrySmall
      <4> QED
        BY <1>3, <2>2, <4>1, NoneAssumption DEF LooksInv
    <3>2. CASE TryDown(p)
      BY <3>2 DEF TryDown, LooksInv
    <3> QED
      BY <1>6, <3>1, <3>2
  <2>4. \A q \in Procs : q # p => retry'[q] = retry[q] /\ address'[q] = address[q] /\ up'[q] = up[q]
    BY <1>2, <1>6, <2>1 DEF TrySmall, TryDown, LooksInv
  <2>5. (\A a \in up'[p] : avail[a]) /\ up' \in [Procs -> SUBSET Addrs]
    BY <2>1 DEF LooksInv, Try
  <2>6. ~(address'[p] = None /\ up'[p] = ToSet(addrs))
    BY <2>2, <2>3, <2>5
  <2> QED
    BY <1>1, <1>2, <2>3, <2>4, <2>5, <2>6, LooksOthers
<1> QED
  BY <1>4, <1>5, <1>6 DEF GetStep

\* Every step keeps the invariant of any number of callers.
LEMMA LooksSteps ==
    ASSUME LooksInv, [Next]_vars
    PROVE  LooksInv'
<1>1. CursorInv'
  BY CursorSteps DEF LooksInv
<1>2. ASSUME NEW a \in Addrs, Flip(a) PROVE LooksInv'
  <2>1. /\ avail' = [avail EXCEPT ![a] = ~@] /\ up' = [q \in Procs |-> up[q] \ {a}]
        /\ addrs' = addrs /\ n' = n /\ retry' = retry /\ address' = address /\ a \in ToSet(addrs)
    BY <1>2 DEF Flip, table, n
  <2>2. avail' \in [Addrs -> BOOLEAN] /\ up' \in [Procs -> SUBSET Addrs]
    BY <2>1 DEF LooksInv
  <2>3. ASSUME NEW p \in Procs, InGet(p)'
        PROVE  (\A b \in up'[p] : avail'[b]) /\ up'[p] # ToSet(addrs')
    <3>1. InGet(p) /\ up'[p] = up[p] \ {a} /\ up[p] \subseteq Addrs
      BY <2>1, <2>3 DEF InGet, LooksInv
    <3>2. \A b \in up'[p] : avail[b] /\ b # a /\ b \in Addrs
      BY <3>1 DEF LooksInv
    <3>3. \A b \in Addrs : b # a => avail'[b] = avail[b]
      BY <2>1 DEF LooksInv
    <3> QED
      BY <2>1, <3>1, <3>2, <3>3
  <2> QED
    BY <1>1, <2>1, <2>2, <2>3 DEF LooksInv
<1>3. ASSUME NEW a \in Addrs, NEW w \in Int, ApplyUpdate(a, w) PROVE LooksInv'
  <2>1. /\ avail' = [avail EXCEPT ![a] = IF a \in ToSet(addrs) /\ w # 0 THEN @ ELSE TRUE]
        /\ retry' = retry /\ address' = address /\ up' = up /\ \A p \in Procs : ~InGet(p)
    BY <1>3 DEF ApplyUpdate, NobodyInGet
  <2>2. \A p \in Procs : ~InGet(p)'
    BY <2>1 DEF InGet
  <2>3. avail' \in [Addrs -> BOOLEAN]
    BY <2>1 DEF LooksInv
  <2> QED
    BY <1>1, <2>1, <2>2, <2>3 DEF LooksInv
<1>4. ASSUME UNCHANGED vars PROVE LooksInv'
  BY <1>4 DEF vars, table, LooksInv, CursorInv, InGet, n
<1>5. ASSUME NEW a \in Addrs, RemoveAddr(a) PROVE LooksInv'
  BY <1>3, <1>5 DEF RemoveAddr
<1>6. ASSUME NEW a \in Addrs, NEW w \in 0 .. MaxWeight, Update(a, w) PROVE LooksInv'
  BY <1>3, <1>6 DEF Update
<1> QED
  BY <1>2, <1>4, <1>5, <1>6, LooksTries DEF Next

\* Of any number of callers none is told of an outage while every address is
\* available all the time it looks.
THEOREM OutagesNeedOne == Spec => []SomeWasDown
<1>1. Init => LooksInv
  <2> SUFFICES ASSUME Init PROVE LooksInv
    OBVIOUS
  <2>1. \A p \in Procs : ~InGet(p)
    BY DEF Init, InGet
  <2> QED
    BY <2>1, CursorStarts DEF Init, LooksInv
<1>2. LooksInv /\ [Next]_vars => LooksInv'
  BY LooksSteps
<1>3. LooksInv => SomeWasDown
  <2> SUFFICES ASSUME LooksInv, NEW p \in Procs, retry[p] = 0, address[p] = None, n > 0, up[p] = ToSet(addrs)
               PROVE  FALSE
    BY DEF SomeWasDown
  <2>1. InGet(p) /\ n \in Nat
    BY NoneAssumption, LenProperties DEF InGet, LooksInv, CursorInv, Lists, n
  <2>2. retry[p] = 2 * n
    BY <2>1 DEF LooksInv
  <2> QED
    BY <2>1, <2>2
<1> QED
  BY <1>1, <1>2, <1>3, PTL DEF Spec

-----------------------------------------------------------------------------
(* Turns.                                                                   *)

\* The first element of s in the order in which sums take them.
First(s) == CHOOSE x \in s : TRUE

\* What the sum of f over s is, when g has the sum over the rest.
SumStep(g, f, s) == IF s = {} THEN 0 ELSE f[First(s)] + g[s \ {First(s)}]

\* g sums f over every subset of S.
Sums(g, f, S) == \A s \in SUBSET S : g[s] = SumStep(g, f, s)

\* The equation of the sum of f, and the function its CHOOSE takes.
SumEq(g, f, S) == g = [s \in SUBSET S |-> SumStep(g, f, s)]

SumIter(f) == CHOOSE g : SumEq(g, f, DOMAIN f)

\* A sum is the function that solves its equation.
LEMMA SumFolds ==
    ASSUME NEW f PROVE SumFunction(f) = SumIter(f)[DOMAIN f]
BY DEF SumFunction, SumFunctionOnSet, FoldFunctionOnSet, MapThenFoldSet, SumIter, SumEq, SumStep, First

\* A finite set that is not empty has a first element, and fewer without it.
LEMMA Rest ==
    ASSUME NEW S, IsFiniteSet(S), NEW s \in SUBSET S, s # {}
    PROVE  /\ First(s) \in s /\ s \ {First(s)} \in SUBSET S
           /\ Cardinality(s) \in Nat \ {0} /\ Cardinality(s \ {First(s)}) = Cardinality(s) - 1
<1>1. First(s) \in s
  BY DEF First
<1>2. IsFiniteSet(s)
  BY FS_Subset
<1>3. Cardinality(s) \in Nat /\ Cardinality(s \ {First(s)}) = Cardinality(s) - 1
  BY <1>1, <1>2, FS_CardinalityType, FS_RemoveElement
<1>4. Cardinality(s) # 0
  BY <1>2, FS_EmptySet
<1> QED
  BY <1>1, <1>3, <1>4

\* There is a sum over the subsets of a finite set: from those of c - 1
\* elements to those of c.
LEMMA SumDefined ==
    ASSUME NEW S, IsFiniteSet(S), NEW f
    PROVE  \E g : SumEq(g, f, S)
<1> DEFINE Upto(g, c) == \A s \in SUBSET S : Cardinality(s) <= c => g[s] = SumStep(g, f, s)
           T == {c \in Nat : ~ \E g : Upto(g, c)}
<1>1. T = {}
  <2> SUFFICES ASSUME T # {} PROVE FALSE
    OBVIOUS
  <2>1. PICK c \in T : \A d \in T : c <= d
    BY Least
  <2>2. CASE c = 0
    <3> DEFINE g == [s \in SUBSET S |-> 0]
    <3>1. ASSUME NEW s \in SUBSET S, Cardinality(s) <= 0 PROVE g[s] = SumStep(g, f, s)
      <4>1. s # {} => Cardinality(s) \in Nat \ {0}
        BY Rest
      <4>2. s = {}
        BY <3>1, <4>1
      <4> QED
        BY <4>2 DEF SumStep
    <3>2. Upto(g, 0)
      BY <3>1
    <3> HIDE DEF g
    <3> QED
      BY <2>2, <3>2
  <2>3. CASE c # 0
    <3>1. c - 1 \in Nat /\ c - 1 \notin T /\ c \in Nat
      BY <2>1, <2>3
    <3>2. PICK h : Upto(h, c - 1)
      BY <3>1
    <3> DEFINE g == [s \in SUBSET S |-> IF Cardinality(s) = c THEN SumStep(h, f, s) ELSE h[s]]
    <3>3. ASSUME NEW s \in SUBSET S, Cardinality(s) <= c PROVE g[s] = SumStep(g, f, s)
      <4>1. CASE s = {}
        <5>1. Cardinality(s) = 0
          BY <4>1, FS_EmptySet
        <5>2. g[s] = h[s] /\ h[s] = 0
          BY <2>3, <3>1, <3>2, <4>1, <5>1 DEF SumStep
        <5> QED
          BY <4>1, <5>2 DEF SumStep
      <4>2. CASE s # {}
        <5> DEFINE r == s \ {First(s)}
        <5>1. /\ r \in SUBSET S /\ Cardinality(s) \in Nat
              /\ Cardinality(r) = Cardinality(s) - 1 /\ Cardinality(r) # c
          BY <3>1, <3>3, <4>2, Rest
        <5>2. g[r] = h[r]
          BY <5>1
        <5>3. SumStep(g, f, s) = SumStep(h, f, s)
          BY <4>2, <5>2 DEF SumStep
        <5>4. Cardinality(s) # c => h[s] = SumStep(h, f, s)
          BY <3>1, <3>2, <3>3, <5>1
        <5> QED
          BY <5>3, <5>4
      <4> QED
        BY <4>1, <4>2
    <3>4. Upto(g, c)
      BY <3>3
    <3> HIDE DEF g
    <3> QED
      BY <2>1, <3>4
  <2> QED
    BY <2>2, <2>3
<1>2. Cardinality(S) \in Nat /\ \A s \in SUBSET S : Cardinality(s) <= Cardinality(S)
  BY FS_CardinalityType, FS_Subset
<1>3. PICK h : Upto(h, Cardinality(S))
  BY <1>1, <1>2
<1> DEFINE g == [s \in SUBSET S |-> h[s]]
<1>4. ASSUME NEW s \in SUBSET S PROVE g[s] = SumStep(g, f, s)
  <2>1. h[s] = SumStep(h, f, s)
    BY <1>2, <1>3
  <2>2. SumStep(g, f, s) = SumStep(h, f, s)
    BY DEF SumStep
  <2> QED
    BY <2>1, <2>2
<1>5. SumEq(g, f, S)
  BY <1>4 DEF SumEq
<1> HIDE DEF g
<1> QED
  BY <1>5

\* A sum over the finite domain of f.
LEMMA SumIterates ==
    ASSUME NEW S, IsFiniteSet(S), NEW f \in [S -> Nat]
    PROVE  SumFunction(f) = SumIter(f)[S] /\ Sums(SumIter(f), f, S)
<1>1. DOMAIN f = S
  OBVIOUS
<1>2. \E g : SumEq(g, f, DOMAIN f)
  BY <1>1, SumDefined
<1>3. SumEq(SumIter(f), f, DOMAIN f)
  BY <1>2 DEF SumIter
<1>4. \A s \in SUBSET S : SumIter(f)[s] = SumStep(SumIter(f), f, s)
  BY <1>1, <1>3 DEF SumEq
<1> QED
  BY <1>1, <1>4, SumFolds DEF Sums

\* Of two sums the one with the smaller numbers is the smaller, and they are
\* equal only if all the numbers are.
LEMMA SumsCompare ==
    ASSUME NEW S, IsFiniteSet(S), NEW f \in [S -> Nat], NEW e \in [S -> Nat],
           \A x \in S : f[x] <= e[x]
    PROVE  /\ SumFunction(f) \in Nat /\ SumFunction(e) \in Nat
           /\ SumFunction(f) <= SumFunction(e)
           /\ SumFunction(f) = SumFunction(e) => f = e
<1> DEFINE g == SumIter(f)
           h == SumIter(e)
           Good(s) == /\ g[s] \in Nat /\ h[s] \in Nat /\ g[s] <= h[s]
                      /\ g[s] = h[s] => \A x \in s : f[x] = e[x]
           T == {c \in Nat : \E s \in SUBSET S : Cardinality(s) = c /\ ~Good(s)}
<1>1. /\ SumFunction(f) = g[S] /\ SumFunction(e) = h[S]
      /\ \A s \in SUBSET S : g[s] = SumStep(g, f, s) /\ h[s] = SumStep(h, e, s)
  BY SumIterates DEF Sums
<1> HIDE DEF g, h
<1>2. T = {}
  <2> SUFFICES ASSUME T # {} PROVE FALSE
    OBVIOUS
  <2>1. PICK c \in T : \A d \in T : c <= d
    BY Least
  <2>2. PICK s \in SUBSET S : Cardinality(s) = c /\ ~Good(s)
    BY <2>1
  <2>3. CASE s = {}
    <3>1. g[s] = 0 /\ h[s] = 0
      BY <1>1, <2>3 DEF SumStep
    <3> QED
      BY <2>2, <2>3, <3>1
  <2>4. CASE s # {}
    <3> DEFINE x == First(s)
               r == s \ {First(s)}
    <3>1. x \in s /\ r \in SUBSET S /\ c - 1 \in Nat /\ Cardinality(r) = c - 1 /\ c - 1 \notin T
      <4>1. x \in s /\ r \in SUBSET S /\ Cardinality(s) \in Nat \ {0} /\ Cardinality(r) = Cardinality(s) - 1
        BY <2>4, Rest, Zenon
      <4>2. c - 1 \in Nat /\ Cardinality(r) = c - 1 /\ ~(c <= c - 1)
        BY <2>2, <4>1
      <4>3. c - 1 \notin T
        BY <2>1, <4>2
      <4> QED
        BY <4>1, <4>2, <4>3
    <3>2. Good(r)
      BY <3>1
    <3>3. g[s] = f[x] + g[r] /\ h[s] = e[x] + h[r]
      BY <1>1, <2>4 DEF SumStep
    <3>4. f[x] \in Nat /\ e[x] \in Nat /\ f[x] <= e[x]
      BY <3>1
    <3>5. s = r \cup {x}
      BY <3>1
    <3> HIDE DEF x, r
    <3>6. /\ g[s] \in Nat /\ h[s] \in Nat /\ g[s] <= h[s]
          /\ g[s] = h[s] => g[r] = h[r] /\ f[x] = e[x]
      BY <3>2, <3>3, <3>4
    <3>7. g[s] = h[s] => \A y \in s : f[y] = e[y]
      BY <3>2, <3>5, <3>6
    <3> QED
      BY <2>2, <3>6, <3>7
  <2> QED
    BY <2>3, <2>4
<1>3. Good(S)
  <2>1. Cardinality(S) \in Nat /\ S \in SUBSET S
    BY FS_CardinalityType
  <2> QED
    BY <1>2, <2>1
<1>4. (\A x \in S : f[x] = e[x]) => f = e
  OBVIOUS
<1> QED
  BY <1>1, <1>3, <1>4

\* The address at position k is the one a round of m positions comes to after
\* Rank(k, m) others: a round goes from position 1 to the last, then to 0.
Rank(k, m) == IF k = 0 THEN m - 1 ELSE k - 1

\* How often an address of weight w and rank r is returned from the beginning
\* of the rounds until j positions of the round with current weight c are
\* passed.
Hits(w, c, r, j) ==
    LET h == w - c + (IF r < j THEN 1 ELSE 0)
    IN  IF h > 0 THEN h ELSE 0

\* The rounds come to c, j no later than to d, l: they go from max down to 1.
NoLater(c, j, d, l) == c > d \/ (c = d /\ j <= l)

\* Where the rounds of m positions go on after j positions, and with which
\* current weight after c, when q is where they go on and x is max.
NextPlace(j, m) == IF j + 1 = m THEN 0 ELSE j + 1
NextRound(c, q, x) == IF q # 0 THEN c ELSE IF c - 1 <= 0 THEN x ELSE c - 1

\* What the try at q returns of an address at position k with weight w, and
\* what it has returned of it when the rounds end there.
Return(k, q, w, c) == IF k = q /\ w >= c THEN 1 ELSE 0
Lap(q, c, w) == IF q = 0 /\ c = 1 THEN w ELSE 0

\* This window began at d, l, and what was returned since is what lies between
\* there and the position to be tried next: over the end of the rounds, which
\* is their beginning, when over is TRUE.
TurnsFrom(d, l, over) ==
    /\ d \in 1 .. max /\ l \in 0 .. n - 1
    /\ IF over THEN NoLater(NextCw, i, d, l) ELSE NoLater(d, l, NextCw, i)
    /\ \A k \in 0 .. n - 1 :
          served[addrs[k + 1]] = Hits(weight[addrs[k + 1]], NextCw, Rank(k, n), i)
                                   - Hits(weight[addrs[k + 1]], d, Rank(k, n), l)
                                   + (IF over THEN weight[addrs[k + 1]] ELSE 0)

\* Either nothing was returned in this window, and the cursor and cw may be
\* anywhere, or the cursor is on an address, cw in the range of the rounds,
\* and the returns are those between the beginning of the window and here.
TurnsInv == /\ ScaledInv
            /\ cw \in Nat /\ (cw = 0 => i = 0)
            /\ served \in [Addrs -> Nat]
            /\ \A a \in Addrs : conf[a] = 0 => served[a] = 0
            /\ \/ \A a \in Addrs : served[a] = 0
               \/ /\ i < n /\ NextCw \in 1 .. max
                  /\ \E d \in 1 .. max, l \in 0 .. n - 1, over \in BOOLEAN : TurnsFrom(d, l, over)

\* Nothing is returned more often than its weight says, and later points of
\* the rounds have more returns before them.
LEMMA HitsBounds ==
    ASSUME NEW w \in Nat, NEW r \in Nat, NEW c \in Nat \ {0}, NEW j \in Nat,
           NEW d \in Nat \ {0}, NEW l \in Nat
    PROVE  /\ Hits(w, c, r, j) \in Nat /\ Hits(w, c, r, j) <= w
           /\ NoLater(c, j, d, l) => Hits(w, c, r, j) <= Hits(w, d, r, l)
BY DEF Hits, NoLater

\* One position further there is one more return of the address at that
\* position, if its weight reaches c.  At the end of the rounds every address
\* has been returned as often as its weight says.
LEMMA HitsMove ==
    ASSUME NEW m \in Nat \ {0}, NEW x \in Nat, NEW c \in 1 .. x, NEW j \in 0 .. m - 1,
           NEW w \in 0 .. x, NEW k \in 0 .. m - 1
    PROVE  Hits(w, NextRound(c, NextPlace(j, m), x), Rank(k, m), NextPlace(j, m))
              = Hits(w, c, Rank(k, m), j) + Return(k, NextPlace(j, m), w, c) - Lap(NextPlace(j, m), c, w)
<1> DEFINE r == Rank(k, m)
           q == NextPlace(j, m)
           e == NextRound(c, q, x)
<1>1. r \in 0 .. m - 1 /\ (r = j <=> k = q)
  BY DEF Rank, NextPlace
<1> USE DEF NextPlace, NextRound, Return, Lap
<1> HIDE DEF r
<1>2. CASE q # 0
  <2>1. q = j + 1 /\ e = c
    BY <1>2
  <2>2. r < q <=> (r < j \/ r = j)
    BY <1>1, <2>1
  <2>3. Hits(w, c, r, q) = Hits(w, c, r, j) + (IF r = j /\ w >= c THEN 1 ELSE 0)
    BY <1>1, <2>2 DEF Hits
  <2> QED
    BY <1>1, <1>2, <2>1, <2>3 DEF r
<1>3. CASE q = 0
  <2>1. j = m - 1 /\ ~(r < q) /\ (r < j <=> r # j)
    BY <1>1, <1>3
  <2>2. CASE c = 1
    <3>1. e = x
      BY <1>3, <2>2
    <3>2. Hits(w, x, r, q) = 0
      BY <2>1 DEF Hits
    <3>3. Hits(w, 1, r, j) \in Nat /\ Hits(w, 1, r, j) + (IF r = j /\ w >= 1 THEN 1 ELSE 0) = w
      BY <2>1 DEF Hits
    <3> QED
      BY <1>1, <1>3, <2>2, <3>1, <3>2, <3>3 DEF r
  <2>3. CASE c # 1
    <3>1. e = c - 1
      BY <1>3, <2>3
    <3>2. Hits(w, c - 1, r, q) = Hits(w, c, r, j) + (IF r = j /\ w >= c THEN 1 ELSE 0)
      BY <2>1 DEF Hits
    <3> QED
      BY <1>1, <1>3, <2>3, <3>1, <3>2 DEF r
  <2> QED
    BY <2>2, <2>3
<1> QED
  BY <1>2, <1>3

\* The rounds go on from c, j to e, q, or begin again.
LEMMA PointMoves ==
    ASSUME NEW m \in Nat \ {0}, NEW x \in Nat, NEW c \in 1 .. x, NEW j \in 0 .. m - 1,
           NEW d \in 1 .. x, NEW l \in 0 .. m - 1
    PROVE  LET q == NextPlace(j, m)
               e == NextRound(c, q, x)
           IN
           /\ q \in 0 .. m - 1 /\ e \in 1 .. x
           /\ q = 0 /\ c = 1 => NoLater(e, q, d, l)
           /\ ~(q = 0 /\ c = 1) /\ NoLater(d, l, c, j) => NoLater(d, l, e, q)
           /\ NoLater(c, j, d, l) /\ ~(c = d /\ j = l) => NoLater(e, q, d, l) /\ ~(q = 0 /\ c = 1)
<1> DEFINE q == NextPlace(j, m)
<1> USE DEF NextPlace, NextRound
<1>1. CASE q # 0
  BY <1>1 DEF NoLater
<1>2. CASE q = 0 /\ c = 1
  BY <1>2 DEF NoLater
<1>3. CASE q = 0 /\ c # 1
  BY <1>3 DEF NoLater
<1> QED
  BY <1>1, <1>2, <1>3

\* The positions hold the addresses, each with a weight from 1 to max.
LEMMA Positions ==
    ASSUME ScaledInv
    PROVE  /\ n \in Nat /\ max \in Nat /\ i \in Nat
           /\ \A k \in 0 .. n - 1 : /\ addrs[k + 1] \in Addrs /\ weight[addrs[k + 1]] \in 1 .. max
                                    /\ \A j \in 0 .. n - 1 : addrs[j + 1] = addrs[k + 1] => j = k
           /\ \A a \in Addrs : conf[a] # 0 => \E k \in 0 .. n - 1 : addrs[k + 1] = a
           /\ \A a \in Addrs : conf[a] = 0 => weight[a] = 0
<1>1. /\ addrs \in Seq(Addrs) /\ n \in Nat /\ n = Len(addrs) /\ DOMAIN addrs = 1 .. n
      /\ \A k \in 1 .. n : addrs[k] \in Addrs
      /\ max \in Nat /\ i \in Nat
  BY LenProperties, ElementOfSeq DEF ScaledInv, CursorInv, Lists, Scales, n
<1>2. /\ \A j, k \in 1 .. n : addrs[j] = addrs[k] => j = k
      /\ \A a \in Addrs : conf[a] # 0 <=> \E k \in 1 .. n : addrs[k] = a
  BY <1>1 DEF ScaledInv, CursorInv, Lists, Configured
<1>3. \A a \in Addrs : IF conf[a] # 0 THEN weight[a] \in 1 .. max ELSE weight[a] = 0
  <2> TAKE a \in Addrs
  <2>1. /\ weight[a] \in Nat /\ delta \in Nat /\ weight[a] * delta = conf[a]
        /\ IF conf[a] # 0 THEN weight[a] <= max ELSE weight[a] = 0
    BY DEF ScaledInv, Scales, Configured
  <2>2. 0 * delta = 0
    BY <2>1
  <2> QED
    BY <1>1, <2>1, <2>2
<1>4. ASSUME NEW k \in 0 .. n - 1
      PROVE  /\ addrs[k + 1] \in Addrs /\ weight[addrs[k + 1]] \in 1 .. max
             /\ \A j \in 0 .. n - 1 : addrs[j + 1] = addrs[k + 1] => j = k
  <2>1. k + 1 \in 1 .. n /\ \A j \in 0 .. n - 1 : j + 1 \in 1 .. n /\ (j + 1 = k + 1 => j = k)
    BY <1>1
  <2>2. addrs[k + 1] \in Addrs /\ conf[addrs[k + 1]] # 0
    BY <1>1, <1>2, <2>1
  <2> QED
    BY <1>2, <1>3, <2>1, <2>2
<1>5. ASSUME NEW a \in Addrs, conf[a] # 0 PROVE \E k \in 0 .. n - 1 : addrs[k + 1] = a
  <2>1. PICK k \in 1 .. n : addrs[k] = a
    BY <1>2, <1>5
  <2>2. k - 1 \in 0 .. n - 1 /\ (k - 1) + 1 = k
    BY <1>1, <2>1
  <2> QED
    BY <2>1, <2>2
<1> QED
  BY <1>1, <1>3, <1>4, <1>5

\* A try is of the next position with the next value of cw, which is not 0;
\* the rounds go on from there.
LEMMA TryMoves ==
    ASSUME ScaledInv, cw \in Nat, cw = 0 => i = 0, NEW p \in Procs, Try(p), UNCHANGED table
    PROVE  /\ n \in Nat \ {0} /\ NextCw \in Nat \ {0} /\ cw' = NextCw
           /\ NextI \in 0 .. n - 1 /\ i' = NextI /\ Tried = addrs[NextI + 1]
           /\ i < n => NextI = NextPlace(i, n)
           /\ NextCw' = NextRound(NextCw, NextI, max)
<1>1. n \in Nat \ {0} /\ i' \in 0 .. n - 1 /\ i' = NextI /\ cw' = NextCw /\ max' = max /\ i \in Nat
  BY CursorMoves DEF ScaledInv, CursorInv, Try, table
<1>2. max \in Nat \ {0}
  <2>1. 0 \in 0 .. n - 1 /\ max \in Nat
    BY <1>1, Positions
  <2>2. weight[addrs[0 + 1]] \in 1 .. max
    BY <2>1, Positions
  <2> QED
    BY <2>1, <2>2
<1>3. NextCw \in Nat \ {0}
  BY <1>1, <1>2 DEF NextCw
<1>4. NextCw' = NextRound(NextCw, NextI, max)
  <2>1. NextCw' = IF i' # 0 THEN cw' ELSE IF cw' - 1 <= 0 THEN max' ELSE cw' - 1
    BY DEF NextCw
  <2> QED
    BY <1>1, <2>1 DEF NextRound
<1>5. i < n => NextI = NextPlace(i, n)
  <2>1. i + 1 < n => (i + 1) % n = i + 1
    BY <1>1
  <2>2. i + 1 = n => (i + 1) % n = 0
    <3>1. n % n = 0
      BY <1>1
    <3> QED
      BY <3>1
  <2> QED
    BY <1>1, <2>1, <2>2 DEF NextI, NextPlace
<1> QED
  BY <1>1, <1>3, <1>4, <1>5 DEF Tried

\* The returns of a window that began at d, l are those up to here: one more
\* of the address tried, if its weight reaches cw.
LEMMA WindowGoesOn ==
    ASSUME TurnsInv, NEW p \in Procs, Try(p), UNCHANGED table,
           i < n, NEW c \in 1 .. max, c = NextCw,
           NEW d \in 1 .. max, NEW l \in 0 .. n - 1, NEW over \in BOOLEAN, TurnsFrom(d, l, over),
           ~(over /\ c = d /\ i = l),
           \A k \in 0 .. n - 1 : served'[addrs[k + 1]] = served[addrs[k + 1]]
                + (IF k = NextI /\ weight[addrs[k + 1]] >= c THEN 1 ELSE 0)
    PROVE  \E b \in BOOLEAN : TurnsFrom(d, l, b)'
<1>0. PICK b \in BOOLEAN : b <=> over \/ (NextI = 0 /\ c = 1)
  OBVIOUS
<1>1. /\ ScaledInv /\ n \in Nat \ {0} /\ i \in 0 .. n - 1 /\ max \in Nat
      /\ NextI \in Nat /\ NextI = NextPlace(i, n) /\ NextCw' = NextRound(c, NextI, max)
      /\ i' = NextI
      /\ addrs' = addrs /\ n' = n /\ weight' = weight /\ max' = max
  BY TryMoves, Positions DEF TurnsInv, table, n
<1>2. PICK m \in Nat \ {0}, x \in Nat, j \in Nat, q \in Nat, e \in Int :
         m = n /\ x = max /\ j = i /\ q = NextI /\ e = NextCw' /\ j \in 0 .. m - 1
  <2>1. NextI \in Nat /\ i \in Nat /\ i \in 0 .. n - 1
    BY <1>1
  <2>2. NextCw' \in Int
    BY <1>1 DEF NextRound
  <2> QED
    BY <1>1, <2>1, <2>2
<1>3. c \in 1 .. x /\ d \in 1 .. x /\ l \in 0 .. m - 1
  BY <1>2
<1>4. q = NextPlace(j, m) /\ e = NextRound(c, q, x)
  BY <1>1, <1>2
<1>5. IF over THEN NoLater(c, j, d, l) ELSE NoLater(d, l, c, j)
  BY <1>2 DEF TurnsFrom
<1>6. /\ IF b THEN NoLater(e, q, d, l) ELSE NoLater(d, l, e, q)
      /\ ~(over /\ q = 0 /\ c = 1) /\ e \in 1 .. x
  <2>1. /\ e \in 1 .. x
        /\ q = 0 /\ c = 1 => NoLater(e, q, d, l)
        /\ ~(q = 0 /\ c = 1) /\ NoLater(d, l, c, j) => NoLater(d, l, e, q)
        /\ NoLater(c, j, d, l) /\ ~(c = d /\ j = l) => NoLater(e, q, d, l) /\ ~(q = 0 /\ c = 1)
    <3>1. m \in Nat \ {0} /\ x \in Nat /\ j \in 0 .. m - 1
      BY <1>2
    <3> QED
      BY <1>3, <1>4, <3>1, PointMoves
  <2>2. ~(over /\ c = d /\ j = l) /\ (b <=> over \/ (q = 0 /\ c = 1))
    BY <1>0, <1>2
  <2> QED
    BY <1>5, <2>1, <2>2
<1>7. ASSUME NEW k \in 0 .. m - 1, NEW w, w = weight[addrs[k + 1]]
      PROVE  served'[addrs[k + 1]]
                = Hits(w, e, Rank(k, m), q) - Hits(w, d, Rank(k, m), l) + (IF b THEN w ELSE 0)
  <2>1. w \in 1 .. x /\ w \in 0 .. x /\ w \in Nat
    BY <1>1, <1>2, <1>7, Positions
  <2>2. Hits(w, e, Rank(k, m), q) = Hits(w, c, Rank(k, m), j) + Return(k, q, w, c) - Lap(q, c, w)
    <3>1. m \in Nat \ {0} /\ x \in Nat /\ j \in 0 .. m - 1 /\ k \in 0 .. m - 1 /\ c \in 1 .. x /\ w \in 0 .. x
      BY <1>2, <1>3, <2>1
    <3>2. Hits(w, NextRound(c, NextPlace(j, m), x), Rank(k, m), NextPlace(j, m))
             = Hits(w, c, Rank(k, m), j) + Return(k, NextPlace(j, m), w, c) - Lap(NextPlace(j, m), c, w)
      BY ONLY <3>1, HitsMove
    <3> QED
      BY <1>4, <3>2
  <2>3. served'[addrs[k + 1]] = served[addrs[k + 1]] + (IF k = q /\ w >= c THEN 1 ELSE 0)
    BY <1>2, <1>7
  <2>4. served[addrs[k + 1]]
           = Hits(w, c, Rank(k, m), j) - Hits(w, d, Rank(k, m), l) + (IF over THEN w ELSE 0)
    BY <1>2, <1>7 DEF TurnsFrom
  <2>5. /\ Hits(w, c, Rank(k, m), j) \in Int /\ Hits(w, d, Rank(k, m), l) \in Int
        /\ Hits(w, e, Rank(k, m), q) \in Int
    <3>1. w \in Nat /\ j \in Nat /\ q \in Nat /\ Rank(k, m) \in Nat /\ c \in Nat \ {0} /\ d \in Nat \ {0} /\ e \in Nat \ {0} /\ l \in Nat
      BY <1>2, <1>3, <1>6, <2>1 DEF Rank
    <3>2. Hits(w, c, Rank(k, m), j) \in Nat
      BY <3>1, HitsBounds, Zenon
    <3>3. Hits(w, d, Rank(k, m), l) \in Nat
      BY <3>1, HitsBounds, Zenon
    <3>4. Hits(w, e, Rank(k, m), q) \in Nat
      BY <3>1, HitsBounds, Zenon
    <3> QED
      BY <3>2, <3>3, <3>4
  <2> DEFINE hc == Hits(w, c, Rank(k, m), j)
             hd == Hits(w, d, Rank(k, m), l)
             he == Hits(w, e, Rank(k, m), q)
  <2> HIDE DEF hc, hd, he
  <2>6. /\ hc \in Int /\ hd \in Int /\ he \in Int
        /\ he = hc + (IF k = q /\ w >= c THEN 1 ELSE 0) - (IF q = 0 /\ c = 1 THEN w ELSE 0)
        /\ served[addrs[k + 1]] = hc - hd + (IF over THEN w ELSE 0)
    BY <2>2, <2>4, <2>5 DEF hc, hd, he, Return, Lap
  <2>7. b <=> over \/ (q = 0 /\ c = 1)
    BY <1>0, <1>2
  <2>8. served'[addrs[k + 1]] = he - hd + (IF b THEN w ELSE 0)
    <3>1. CASE over
      BY <1>6, <2>1, <2>3, <2>6, <2>7, <3>1
    <3>2. CASE ~over
      BY <2>1, <2>3, <2>6, <2>7, <3>2
    <3> QED
      BY <3>1, <3>2
  <2> QED
    BY <2>8 DEF hd, he
<1>8. TurnsFrom(d, l, b)'
  <2>1. /\ (d \in 1 .. max /\ l \in 0 .. n - 1)'
        /\ (IF b THEN NoLater(NextCw', i', d, l) ELSE NoLater(d, l, NextCw', i'))
    BY <1>1, <1>2, <1>6
  <2>2. \A k \in 0 .. n' - 1 :
          served'[addrs'[k + 1]] = Hits(weight'[addrs'[k + 1]], NextCw', Rank(k, n'), i')
             - Hits(weight'[addrs'[k + 1]], d, Rank(k, n'), l) + (IF b THEN weight'[addrs'[k + 1]] ELSE 0)
    BY <1>1, <1>2, <1>7
  <2> QED
    BY <2>1, <2>2 DEF TurnsFrom
<1> QED
  BY <1>8

\* The first return of a window: it begins at the position tried.
LEMMA WindowBegins ==
    ASSUME TurnsInv, NEW p \in Procs, Try(p), UNCHANGED table,
           NEW c \in 1 .. max, c = NextCw, weight[Tried] >= c,
           \A a \in Addrs : served'[a] = IF a = Tried THEN 1 ELSE 0
    PROVE  \E d \in 1 .. max, l \in 0 .. n - 1, b \in BOOLEAN : TurnsFrom(d, l, b)'
<1>0. PICK b \in BOOLEAN : b <=> (NextI = 0 /\ c = 1)
  OBVIOUS
<1>1. /\ ScaledInv /\ n \in Nat \ {0} /\ max \in Nat
      /\ NextI \in 0 .. n - 1 /\ NextCw' = NextRound(c, NextI, max)
      /\ i' = NextI /\ Tried = addrs[NextI + 1]
      /\ addrs' = addrs /\ n' = n /\ weight' = weight /\ max' = max
  BY TryMoves, Positions DEF TurnsInv, table, n
<1>2. PICK m \in Nat \ {0}, x \in Nat, j \in Nat, q \in Nat, e \in Int :
         /\ m = n /\ x = max /\ j = Rank(NextI, n) /\ q = NextI /\ e = NextCw'
         /\ j \in 0 .. m - 1 /\ q = NextPlace(j, m)
  <2>1. NextI \in Nat /\ Rank(NextI, n) \in Nat /\ Rank(NextI, n) \in 0 .. n - 1
    BY <1>1 DEF Rank
  <2>2. NextCw' \in Int
    BY <1>1 DEF NextRound
  <2>3. NextI = NextPlace(Rank(NextI, n), n)
    BY <1>1 DEF Rank, NextPlace
  <2> QED
    BY <1>1, <2>1, <2>2, <2>3
<1>3. /\ c \in 1 .. x /\ e = NextRound(c, q, x) /\ x = max
      /\ addrs' = addrs /\ n' = m /\ weight' = weight /\ max' = x /\ i' = q /\ NextCw' = e
  BY <1>1, <1>2
<1>4. b <=> q = 0 /\ c = 1
  BY <1>0, <1>2
<1>5. e \in 1 .. x /\ IF b THEN NoLater(e, q, c, j) ELSE NoLater(c, j, e, q)
  <2>1. /\ m \in Nat \ {0} /\ x \in Nat /\ j \in 0 .. m - 1 /\ c \in 1 .. x
        /\ q = NextPlace(j, m) /\ e = NextRound(c, q, x)
    BY <1>2, <1>3
  <2>2. /\ q = 0 /\ c = 1 => NoLater(e, q, c, j)
        /\ ~(q = 0 /\ c = 1) /\ NoLater(c, j, c, j) => NoLater(c, j, e, q)
        /\ e \in 1 .. x
    BY ONLY <2>1, PointMoves
  <2>3. NoLater(c, j, c, j)
    BY ONLY <2>1 DEF NoLater
  <2> QED
    BY <1>4, <2>2, <2>3
<1>6. ASSUME NEW k \in 0 .. m - 1, NEW w, w = weight[addrs[k + 1]]
      PROVE  served'[addrs[k + 1]]
                = Hits(w, e, Rank(k, m), q) - Hits(w, c, Rank(k, m), j) + (IF b THEN w ELSE 0)
  <2>1. w \in 0 .. x /\ w \in Nat
    <3>1. k \in 0 .. n - 1
      BY <1>2
    <3>2. weight[addrs[k + 1]] \in 1 .. max
      BY <1>1, <3>1, Positions
    <3>3. w \in 1 .. x /\ x \in Nat
      BY <1>2, <1>6, <3>2
    <3> QED
      BY ONLY <3>3
  <2>2. Hits(w, e, Rank(k, m), q) = Hits(w, c, Rank(k, m), j) + Return(k, q, w, c) - Lap(q, c, w)
    <3>1. /\ m \in Nat \ {0} /\ x \in Nat /\ j \in 0 .. m - 1 /\ k \in 0 .. m - 1 /\ c \in 1 .. x
          /\ w \in 0 .. x
      BY <1>2, <1>3, <2>1
    <3>2. Hits(w, NextRound(c, NextPlace(j, m), x), Rank(k, m), NextPlace(j, m))
             = Hits(w, c, Rank(k, m), j) + Return(k, NextPlace(j, m), w, c) - Lap(NextPlace(j, m), c, w)
      BY ONLY <3>1, HitsMove
    <3> QED
      BY <1>2, <1>3, <3>2
  <2>3. served'[addrs[k + 1]] = Return(k, q, w, c)
    <3>1. addrs[k + 1] \in Addrs /\ (addrs[k + 1] = Tried <=> k = q)
      BY <1>1, <1>2, Positions
    <3>2. k = q => w >= c
      BY <1>1, <1>2, <1>6
    <3> QED
      BY <3>1, <3>2 DEF Return
  <2> DEFINE hc == Hits(w, c, Rank(k, m), j)
             he == Hits(w, e, Rank(k, m), q)
  <2>4. hc \in Int /\ he \in Int
    <3>1. w \in Nat /\ j \in Nat /\ q \in Nat /\ Rank(k, m) \in Nat /\ c \in Nat \ {0} /\ e \in Nat \ {0}
      BY <1>2, <1>3, <1>5, <2>1 DEF Rank
    <3>2. Hits(w, c, Rank(k, m), j) \in Nat
      BY <3>1, HitsBounds, Zenon
    <3>3. Hits(w, e, Rank(k, m), q) \in Nat
      BY <3>1, HitsBounds, Zenon
    <3> QED
      BY <3>2, <3>3
  <2>5. he = hc + Return(k, q, w, c) - Lap(q, c, w)
    BY <2>2
  <2>6. Return(k, q, w, c) \in Int
    BY DEF Return
  <2> HIDE DEF hc, he
  <2>7. served'[addrs[k + 1]] = he - hc + (IF b THEN w ELSE 0)
    BY <1>4, <2>1, <2>3, <2>4, <2>5, <2>6 DEF Lap
  <2> QED
    BY <2>7 DEF hc, he
<1>7. TurnsFrom(c, j, b)'
  <2>1. /\ (c \in 1 .. max /\ j \in 0 .. n - 1)'
        /\ (IF b THEN NoLater(NextCw', i', c, j) ELSE NoLater(c, j, NextCw', i'))
    BY <1>2, <1>3, <1>5
  <2>2. \A k \in 0 .. n' - 1 :
          served'[addrs'[k + 1]] = Hits(weight'[addrs'[k + 1]], NextCw', Rank(k, n'), i')
             - Hits(weight'[addrs'[k + 1]], c, Rank(k, n'), j) + (IF b THEN weight'[addrs'[k + 1]] ELSE 0)
    BY <1>3, <1>6
  <2> QED
    BY <2>1, <2>2 DEF TurnsFrom
<1> QED
  BY <1>2, <1>7

\* A window that is full, and in which nothing more is returned, may as well
\* have begun at any later point.
LEMMA WindowIsFull ==
    ASSUME TurnsInv, NEW p \in Procs, Try(p), UNCHANGED table, served' = served,
           i < n, NEW d \in 1 .. max, NEW l \in 0 .. n - 1, TurnsFrom(d, l, TRUE), NextCw = d, i = l
    PROVE  \E e \in 1 .. max, q \in 0 .. n - 1 : TurnsFrom(e, q, TRUE)'
<1>1. /\ ScaledInv /\ n \in Nat \ {0} /\ max \in Nat
      /\ NextI \in 0 .. n - 1 /\ NextI = NextPlace(i, n) /\ NextCw' = NextRound(d, NextI, max) /\ i' = NextI
      /\ addrs' = addrs /\ n' = n /\ weight' = weight /\ max' = max
  BY TryMoves, Positions DEF TurnsInv, table, n
<1>2. PICK e \in 1 .. max, q \in 0 .. n - 1 : e = NextCw' /\ q = NextI
  <2>1. NextCw' \in 1 .. max
    BY <1>1 DEF NextRound
  <2> QED
    BY <1>1, <2>1
<1>3. ASSUME NEW k \in 0 .. n - 1, NEW w, w = weight[addrs[k + 1]]
      PROVE  served[addrs[k + 1]] = Hits(w, e, Rank(k, n), q) - Hits(w, e, Rank(k, n), q) + w
  <2>1. w \in Nat
    BY <1>1, <1>3, Positions
  <2>2. served[addrs[k + 1]] = Hits(w, d, Rank(k, n), l) - Hits(w, d, Rank(k, n), l) + w
    BY <1>3 DEF TurnsFrom
  <2>3. Hits(w, d, Rank(k, n), l) \in Nat /\ Hits(w, e, Rank(k, n), q) \in Nat
    <3>1. /\ Rank(k, n) \in Nat /\ d \in Nat \ {0} /\ e \in Nat \ {0} /\ l \in Nat /\ q \in Nat
      BY <1>1 DEF Rank
    <3>2. Hits(w, d, Rank(k, n), l) \in Nat
      BY <2>1, <3>1, HitsBounds, Zenon
    <3>3. Hits(w, e, Rank(k, n), q) \in Nat
      BY <2>1, <3>1, HitsBounds, Zenon
    <3> QED
      BY <3>2, <3>3
  <2> QED
    BY <2>1, <2>2, <2>3
<1>4. TurnsFrom(e, q, TRUE)'
  <2>1. (e \in 1 .. max /\ q \in 0 .. n - 1)' /\ NoLater(NextCw', i', e, q)
    BY <1>1, <1>2 DEF NoLater
  <2>2. \A k \in 0 .. n' - 1 :
          served'[addrs'[k + 1]] = Hits(weight'[addrs'[k + 1]], NextCw', Rank(k, n'), i')
             - Hits(weight'[addrs'[k + 1]], e, Rank(k, n'), q) + weight'[addrs'[k + 1]]
    BY <1>1, <1>2, <1>3
  <2> QED
    BY <2>1, <2>2 DEF TurnsFrom
<1> QED
  BY <1>4

\* Nothing returned so far, and what is to be returned.
LEMMA NothingServed ==
    ASSUME TurnsInv, ScaledInv', cw' \in Nat, cw' = 0 => i' = 0,
           served' \in [Addrs -> Nat], \A a \in Addrs : served'[a] = 0
    PROVE  TurnsInv'
BY DEF TurnsInv

\* A try keeps the first part of the invariant: the table and cw.
LEMMA TryKeeps ==
    ASSUME TurnsInv, NEW p \in Procs, Try(p), GetStep(p), UNCHANGED table
    PROVE  /\ ScaledInv' /\ cw' \in Nat /\ cw' # 0 /\ conf' = conf /\ i' < n' /\ Tried \in Addrs
           /\ conf[Tried] # 0 /\ (NextCw <= max => NextCw' \in 1 .. max /\ max' = max /\ n' = n)
<1>1. /\ n \in Nat \ {0} /\ NextCw \in Nat \ {0} /\ cw' = NextCw
      /\ NextI \in 0 .. n - 1 /\ i' = NextI /\ Tried = addrs[NextI + 1]
      /\ NextCw' = NextRound(NextCw, NextI, max)
  BY TryMoves DEF TurnsInv
<1>2. max \in Nat /\ addrs' = addrs /\ n' = n /\ max' = max /\ conf' = conf
  BY Positions DEF TurnsInv, table, n
<1>3. [Next]_vars
  BY DEF Next
<1>4. ScaledInv'
  BY <1>3, CursorSteps DEF TurnsInv, ScaledInv
<1>5. Tried \in Addrs /\ conf[Tried] # 0
  <2>1. Tried \in Addrs /\ weight[Tried] \in 1 .. max
    BY <1>1, Positions DEF TurnsInv
  <2>2. weight[Tried] # 0
    BY <1>2, <2>1
  <2> QED
    BY <2>1, <2>2, Positions DEF TurnsInv
<1>6. NextCw <= max => NextCw' \in 1 .. max
  BY <1>1, <1>2 DEF NextRound
<1> QED
  BY <1>1, <1>2, <1>4, <1>5, <1>6

\* An address is returned: the first of its window, or one more.
LEMMA TurnHit ==
    ASSUME TurnsInv, IsFiniteSet(Addrs), NEW p \in Procs, TryHit(p)
    PROVE  TurnsInv'
<1>1. Try(p) /\ GetStep(p) /\ UNCHANGED table /\ weight[Tried] >= NextCw
  BY DEF TryHit, GetStep
<1>2. /\ ScaledInv' /\ cw' \in Nat /\ cw' # 0 /\ conf' = conf /\ i' < n' /\ Tried \in Addrs
      /\ conf[Tried] # 0 /\ (NextCw <= max => NextCw' \in 1 .. max /\ max' = max /\ n' = n)
  BY <1>1, TryKeeps
<1>3. /\ n \in Nat \ {0} /\ NextCw \in Nat \ {0} /\ NextI \in 0 .. n - 1 /\ Tried = addrs[NextI + 1]
  BY <1>1, TryMoves DEF TurnsInv
<1>4. /\ max \in Nat /\ weight \in [Addrs -> Nat] /\ served \in [Addrs -> Nat]
      /\ \A a \in Addrs : conf[a] = 0 => served[a] = 0
  BY Positions DEF TurnsInv, ScaledInv, Scales
<1>5. PICK c \in 1 .. max : c = NextCw
  <2>1. weight[Tried] \in 1 .. max
    BY <1>3, Positions DEF TurnsInv
  <2> QED
    BY <1>1, <1>3, <1>4, <2>1
<1>6. served' = [a \in Addrs |-> (IF Total < Window THEN served[a] ELSE 0) + (IF a = Tried THEN 1 ELSE 0)]
  BY DEF TryHit
<1>7. served' \in [Addrs -> Nat] /\ \A a \in Addrs : conf[a] = 0 => served'[a] = 0
  BY <1>2, <1>4, <1>6
<1>8. (i < n)' /\ (NextCw \in 1 .. max)'
  BY <1>2, <1>5
<1>9. CASE ~(Total < Window) \/ \A a \in Addrs : served[a] = 0
  <2>1. \A a \in Addrs : served'[a] = IF a = Tried THEN 1 ELSE 0
    BY <1>4, <1>6, <1>9
  <2>2. \E d \in 1 .. max, l \in 0 .. n - 1, b \in BOOLEAN : TurnsFrom(d, l, b)'
    BY <1>1, <1>5, <2>1, WindowBegins
  <2>3. \E d \in 1 .. max', l \in 0 .. n' - 1, b \in BOOLEAN : TurnsFrom(d, l, b)'
    BY <1>2, <1>5, <2>2
  <2> QED
    BY <1>2, <1>7, <1>8, <2>3 DEF TurnsInv
<1>10. CASE Total < Window /\ ~ \A a \in Addrs : served[a] = 0
  <2>1. PICK d \in 1 .. max, l \in 0 .. n - 1, over \in BOOLEAN : TurnsFrom(d, l, over)
    BY <1>10 DEF TurnsInv
  <2>2. i < n
    BY <1>10 DEF TurnsInv
  <2>3. ~(over /\ c = d /\ i = l)
    <3>1. ASSUME over, c = d, i = l PROVE FALSE
      <4>1. \A k \in 0 .. n - 1 : served[addrs[k + 1]] = weight[addrs[k + 1]]
        <5> TAKE k \in 0 .. n - 1
        <5> DEFINE w == weight[addrs[k + 1]]
        <5>1. w \in 1 .. max
          BY Positions DEF TurnsInv
        <5>2. served[addrs[k + 1]] = Hits(w, d, Rank(k, n), l) - Hits(w, d, Rank(k, n), l) + w
          BY <1>5, <2>1, <3>1 DEF TurnsFrom
        <5> HIDE DEF w
        <5>3. Hits(w, d, Rank(k, n), l) \in Nat
          <6>1. w \in Nat /\ Rank(k, n) \in Nat /\ d \in Nat \ {0} /\ l \in Nat
            BY <1>3, <1>4, <5>1 DEF Rank
          <6> QED
            BY <6>1, HitsBounds, Zenon
        <5>4. served[addrs[k + 1]] = w
          BY <1>4, <5>1, <5>2, <5>3
        <5> QED
          BY <5>4 DEF w
      <4>2. \A a \in Addrs : served[a] = weight[a]
        <5> TAKE a \in Addrs
        <5>1. CASE conf[a] = 0
          BY <1>4, <5>1, Positions DEF TurnsInv
        <5>2. CASE conf[a] # 0
          <6>1. PICK k \in 0 .. n - 1 : addrs[k + 1] = a
            BY <5>2, Positions DEF TurnsInv
          <6> QED
            BY <4>1, <6>1
        <5> QED
          BY <5>1, <5>2
      <4>3. served = weight
        BY <1>4, <4>2
      <4>4. Total = Window /\ Window \in Nat
        <5>1. \A a \in Addrs : weight[a] <= weight[a]
          BY <1>4
        <5>2. SumFunction(weight) \in Nat
          BY <1>4, <5>1, SumsCompare
        <5> QED
          BY <4>3, <5>2 DEF Total, Window
      <4> QED
        BY <1>10, <4>4
    <3> QED
      BY <3>1
  <2>4. \A k \in 0 .. n - 1 : served'[addrs[k + 1]] = served[addrs[k + 1]]
                + (IF k = NextI /\ weight[addrs[k + 1]] >= c THEN 1 ELSE 0)
    <3> TAKE k \in 0 .. n - 1
    <3>1. addrs[k + 1] \in Addrs /\ (addrs[k + 1] = Tried <=> k = NextI)
      BY <1>3, Positions DEF TurnsInv
    <3>2. k = NextI => weight[addrs[k + 1]] >= c
      BY <1>1, <1>3, <1>5
    <3>3. served'[addrs[k + 1]] = served[addrs[k + 1]] + (IF addrs[k + 1] = Tried THEN 1 ELSE 0)
      BY <1>6, <1>10, <3>1
    <3> QED
      BY <3>1, <3>2, <3>3
  <2>5. \E b \in BOOLEAN : TurnsFrom(d, l, b)'
    BY <1>1, <1>5, <2>1, <2>2, <2>3, <2>4, WindowGoesOn
  <2>6. \E e \in 1 .. max', q \in 0 .. n' - 1, b \in BOOLEAN : TurnsFrom(e, q, b)'
    BY <1>2, <1>5, <2>1, <2>5
  <2> QED
    BY <1>2, <1>7, <1>8, <2>6 DEF TurnsInv
<1> QED
  BY <1>9, <1>10

\* The weight of the address tried is too small: nothing is returned, in a
\* window that goes on or is full.
LEMMA TurnSmall ==
    ASSUME TurnsInv, NEW p \in Procs, TrySmall(p)
    PROVE  TurnsInv'
<1>1. Try(p) /\ GetStep(p) /\ UNCHANGED table /\ weight[Tried] < NextCw /\ served' = served
  BY DEF TrySmall, GetStep
<1>2. /\ ScaledInv' /\ cw' \in Nat /\ cw' # 0 /\ conf' = conf /\ i' < n' /\ Tried \in Addrs
      /\ conf[Tried] # 0 /\ (NextCw <= max => NextCw' \in 1 .. max /\ max' = max /\ n' = n)
  BY <1>1, TryKeeps
<1>3. CASE \A a \in Addrs : served[a] = 0
  BY <1>1, <1>2, <1>3, NothingServed DEF TurnsInv
<1>4. CASE ~ \A a \in Addrs : served[a] = 0
  <2>1. i < n /\ NextCw \in 1 .. max /\ max \in Nat
    BY <1>4, Positions DEF TurnsInv
  <2>2. PICK d \in 1 .. max, l \in 0 .. n - 1, over \in BOOLEAN : TurnsFrom(d, l, over)
    BY <1>4 DEF TurnsInv
  <2>3. PICK c \in 1 .. max : c = NextCw
    BY <2>1
  <2>4. \E e \in 1 .. max, q \in 0 .. n - 1, b \in BOOLEAN : TurnsFrom(e, q, b)'
    <3>1. CASE over /\ c = d /\ i = l
      <4>1. TurnsFrom(d, l, TRUE) /\ NextCw = d
        BY <2>2, <2>3, <3>1
      <4>2. \E e \in 1 .. max, q \in 0 .. n - 1 : TurnsFrom(e, q, TRUE)'
        BY <1>1, <2>1, <3>1, <4>1, WindowIsFull
      <4> QED
        BY <4>2
    <3>2. CASE ~(over /\ c = d /\ i = l)
      <4>1. \A k \in 0 .. n - 1 : served'[addrs[k + 1]] = served[addrs[k + 1]]
                  + (IF k = NextI /\ weight[addrs[k + 1]] >= c THEN 1 ELSE 0)
        <5> TAKE k \in 0 .. n - 1
        <5>1. addrs[k + 1] \in Addrs /\ weight[addrs[k + 1]] \in Nat /\ served[addrs[k + 1]] \in Nat
          BY Positions DEF TurnsInv
        <5>2. k = NextI => weight[addrs[k + 1]] < c
          BY <1>1, <2>3 DEF Tried
        <5> QED
          BY <1>1, <5>1, <5>2
      <4>2. \E b \in BOOLEAN : TurnsFrom(d, l, b)'
        BY <1>1, <2>1, <2>2, <2>3, <3>2, <4>1, WindowGoesOn
      <4> QED
        BY <2>2, <4>2
    <3> QED
      BY <3>1, <3>2
  <2>5. \E e \in 1 .. max', q \in 0 .. n' - 1, b \in BOOLEAN : TurnsFrom(e, q, b)'
    BY <1>2, <2>1, <2>4
  <2>6. served' \in [Addrs -> Nat] /\ \A a \in Addrs : conf'[a] = 0 => served'[a] = 0
    BY <1>1, <1>2 DEF TurnsInv
  <2> QED
    BY <1>2, <2>1, <2>5, <2>6 DEF TurnsInv
<1> QED
  BY <1>3, <1>4

\* Every step keeps the invariant.
LEMMA TurnSteps ==
    ASSUME TurnsInv, IsFiniteSet(Addrs), [Next]_vars
    PROVE  TurnsInv'
<1>1. ScaledInv'
  BY CursorSteps DEF TurnsInv, ScaledInv
<1>2. ASSUME NEW p \in Procs, TryHit(p) \/ TrySmall(p) PROVE TurnsInv'
  BY <1>2, TurnHit, TurnSmall
<1>3. ASSUME served' = [a \in Addrs |-> 0], cw' \in Nat, cw' = 0 => i' = 0 PROVE TurnsInv'
  <2>1. served' \in [Addrs -> Nat] /\ \A a \in Addrs : served'[a] = 0
    BY <1>3
  <2> QED
    BY <1>1, <1>3, <2>1, NothingServed
<1>4. ASSUME NEW p \in Procs, TryDown(p) PROVE TurnsInv'
  <2>1. Try(p) /\ GetStep(p) /\ UNCHANGED table /\ served' = [a \in Addrs |-> 0]
    BY <1>4 DEF TryDown, GetStep
  <2>2. cw' \in Nat /\ cw' # 0
    BY <2>1, TryKeeps
  <2> QED
    BY <1>3, <2>1, <2>2
<1>5. ASSUME NEW a \in Addrs, Flip(a) PROVE TurnsInv'
  <2>1. UNCHANGED <<i, cw>> /\ served' = [b \in Addrs |-> 0]
    BY <1>5 DEF Flip
  <2> QED
    BY <1>3, <2>1 DEF TurnsInv
<1>6. ASSUME NEW a \in Addrs, NEW w \in 0 .. MaxWeight, Update(a, w) PROVE TurnsInv'
  <2>1. UNCHANGED <<i, cw>> /\ served' = [b \in Addrs |-> 0]
    BY <1>6 DEF Update, ApplyUpdate
  <2> QED
    BY <1>3, <2>1 DEF TurnsInv
<1>7. ASSUME NEW a \in Addrs, RemoveAddr(a) PROVE TurnsInv'
  <2>1. cw' = cw /\ served' = [b \in Addrs |-> 0]
    BY <1>7 DEF RemoveAddr, ApplyUpdate
  <2>2. i = 0 => i' = 0
    <3>1. UnitIndex(a) \in 0 .. Len(WithUnit(a)) - 1
      BY WithUnitIs DEF TurnsInv, ScaledInv, CursorInv
    <3>2. UnitIndex(a) >= 0
      BY <3>1
    <3>3. i = 0 => ~(i > UnitIndex(a))
      BY <3>1, <3>2
    <3> QED
      BY <1>7, <3>3 DEF RemoveAddr
  <2> QED
    BY <1>3, <2>1, <2>2 DEF TurnsInv
<1>8. ASSUME UNCHANGED <<table, i, cw, served>> PROVE TurnsInv'
  <2>1. /\ NextCw' = NextCw /\ n' = n /\ max' = max /\ i' = i /\ cw' = cw /\ served' = served
        /\ addrs' = addrs /\ weight' = weight /\ conf' = conf
    BY <1>8 DEF table, NextCw, n
  <2>2. ASSUME NEW d \in 1 .. max, NEW l \in 0 .. n - 1, NEW over \in BOOLEAN, TurnsFrom(d, l, over)
        PROVE  TurnsFrom(d, l, over)'
    BY <2>1, <2>2 DEF TurnsFrom
  <2>3. (\E d \in 1 .. max, l \in 0 .. n - 1, over \in BOOLEAN : TurnsFrom(d, l, over))
           => \E d \in 1 .. max', l \in 0 .. n' - 1, over \in BOOLEAN : TurnsFrom(d, l, over)'
    BY <2>1, <2>2
  <2> QED
    BY <1>1, <2>1, <2>3 DEF TurnsInv
<1>9. ASSUME NEW p \in Procs, GetBegin(p) \/ GetEnd(p) PROVE TurnsInv'
  BY <1>8, <1>9 DEF GetBegin, GetEnd
<1>10. ASSUME UNCHANGED vars PROVE TurnsInv'
  BY <1>8, <1>10 DEF vars
<1> QED
  BY <1>2, <1>4, <1>5, <1>6, <1>7, <1>9, <1>10 DEF Next, GetStep

\* No address is returned more often than its weight says, so that in a full
\* window each is returned just as often.
LEMMA TurnsProportional ==
    ASSUME TurnsInv, IsFiniteSet(Addrs)
    PROVE  Proportional
<1>1. weight \in [Addrs -> Nat] /\ served \in [Addrs -> Nat] /\ max \in Nat /\ n \in Nat /\ i \in Nat
  BY Positions DEF TurnsInv, ScaledInv, Scales
<1>2. ASSUME NEW a \in Addrs PROVE served[a] <= weight[a]
  <2>1. CASE served[a] = 0
    BY <1>1, <2>1
  <2>2. CASE served[a] # 0
    <3>1. conf[a] # 0 /\ i < n /\ NextCw \in 1 .. max
      BY <2>2 DEF TurnsInv
    <3>2. PICK d \in 1 .. max, l \in 0 .. n - 1, over \in BOOLEAN : TurnsFrom(d, l, over)
      BY <2>2 DEF TurnsInv
    <3>3. PICK k \in 0 .. n - 1 : addrs[k + 1] = a
      BY <3>1, Positions DEF TurnsInv
    <3> DEFINE hc == Hits(weight[a], NextCw, Rank(k, n), i)
               hd == Hits(weight[a], d, Rank(k, n), l)
    <3>4. /\ served[a] = hc - hd + (IF over THEN weight[a] ELSE 0)
          /\ over => NoLater(NextCw, i, d, l)
      BY <3>2, <3>3 DEF TurnsFrom
    <3>5. hc \in Nat /\ hd \in Nat /\ hc <= weight[a] /\ (NoLater(NextCw, i, d, l) => hc <= hd)
      <4>1. /\ weight[a] \in Nat /\ Rank(k, n) \in Nat /\ NextCw \in Nat \ {0} /\ i \in Nat
            /\ d \in Nat \ {0} /\ l \in Nat
        BY <1>1, <3>1 DEF Rank
      <4> QED
        BY <4>1, HitsBounds, Zenon
    <3> HIDE DEF hc, hd
    <3> QED
      BY <1>1, <3>4, <3>5
  <2> QED
    BY <2>1, <2>2
<1>3. SumFunction(served) = SumFunction(weight) => served = weight
  BY <1>1, <1>2, SumsCompare
<1> QED
  BY <1>3 DEF Proportional, Total, Window

\* While nothing is configured and no address becomes unavailable, every
\* sum(weights) turns in a row are each address's weight in turns: for any
\* addresses and weights, any list New was called with, whatever updates and
\* removals went before, and however many callers share the cursor.
THEOREM TurnsAreProportional ==
    ASSUME IsFiniteSet(Addrs)
    PROVE  Spec => []Proportional
<1>1. Init => TurnsInv
  <2> SUFFICES ASSUME Init PROVE TurnsInv
    OBVIOUS
  <2>1. PICK strs \in Strs : New(strs)
    BY DEF Init
  <2>2. strs \in Seq(Items)
    BY StrsAssumption
  <2>3. Scales(conf, Configured(conf), weight, delta, max)
    BY <2>1, <2>2, NewTable
  <2> QED
    BY <2>3, CursorStarts DEF Init, TurnsInv, ScaledInv
<1>2. TurnsInv /\ [Next]_vars => TurnsInv'
  BY TurnSteps
<1>3. TurnsInv => Proportional
  BY TurnsProportional
<1> QED
  BY <1>1, <1>2, <1>3, PTL DEF Spec

================================================================================
