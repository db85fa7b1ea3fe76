----------------------------- MODULE PoolsProofs -----------------------------
(***************************************************************************)
(* Theorems about the cache (XCache) and the buffer pool (XBufferPool), for *)
(* any number of goroutines, keys, buckets, values and buffers.             *)
(***************************************************************************)
EXTENDS XCache, XBufferPool, FiniteSetTheorems, TLAPS

-----------------------------------------------------------------------------
(* The cache.                                                               *)

Element == [v : 1 .. sets, exp : Nat]

CacheType ==
    /\ now \in Nat /\ sets \in 0 .. MaxSets /\ stop \in BOOLEAN
    /\ elements \in [Keys -> Element \cup {NoElement}]
    /\ finalized \in [1 .. MaxSets -> Nat]
    /\ cachePc \in [CacheProcs -> {CacheIdle} \cup [at : {"set"}, k : Keys, e : Element]
                                              \cup [at : {"finalize"}, v : 1 .. sets]]
    /\ cleaner \in {Wait, [at |-> "exit"]} \cup [at : {"now"}, b : 1 .. Buckets]
                       \cup [at : {"lock"}, b : 1 .. Buckets, now : Nat]
                       \cup [at : {"pairs"}, b : 1 .. Buckets, pairs : SUBSET (1 .. sets)]

\* The two halves of Leaving, and the values whose Finalize has been called.
Finalizing == {cachePc[p].v : p \in {q \in CacheProcs : cachePc[q].at = "finalize"}}
Cleaning == IF cleaner.at = "pairs" THEN cleaner.pairs ELSE {}
Done == {v \in 1 .. MaxSets : finalized[v] # 0}

\* No value is twice in one place ...
OnceEach ==
    /\ \A p, q \in CacheProcs : /\ cachePc[p].at = "set" /\ cachePc[q].at = "set"
                                /\ cachePc[p].e.v = cachePc[q].e.v
                                => p = q
    /\ \A k, l \in Keys : /\ elements[k] # NoElement /\ elements[l] # NoElement
                          /\ elements[k].v = elements[l].v
                          => k = l
    /\ \A p, q \in CacheProcs : /\ cachePc[p].at = "finalize" /\ cachePc[q].at = "finalize"
                                /\ cachePc[p].v = cachePc[q].v
                                => p = q
    /\ \A v \in 1 .. MaxSets : finalized[v] <= 1

\* ... or in two places, and every value that was made is in one.
OnePlace ==
    /\ Entering \cup Held \cup Finalizing \cup Cleaning \cup replaced \cup Done = 1 .. sets
    /\ Entering \cap (Held \cup Finalizing \cup Cleaning \cup replaced \cup Done) = {}
    /\ Held \cap (Finalizing \cup Cleaning \cup replaced \cup Done) = {}
    /\ Finalizing \cap (Cleaning \cup replaced \cup Done) = {}
    /\ Cleaning \cap (replaced \cup Done) = {}
    /\ replaced \cap Done = {}

CacheInv == CacheType /\ OnceEach /\ OnePlace

\* The goroutines that hold no value keep where the values are.
LEMMA CacheTimePasses ==
    ASSUME CacheInv, Tick \/ CacheClose \/ UNCHANGED cacheVars
    PROVE  CacheInv'
<1> USE CacheAssumption DEF CacheInv
<1>1. UNCHANGED <<elements, sets, replaced, finalized, cachePc, cleaner>>
  BY DEF Tick, CacheClose, cacheVars
<1>2. now' \in Nat /\ stop' \in BOOLEAN
  <2>1. now' = now \/ now' = now + 1
    BY DEF Tick, CacheClose, cacheVars
  <2>2. stop' = stop \/ stop' = TRUE
    BY DEF Tick, CacheClose, cacheVars
  <2>3. now' \in Nat
    BY <2>1 DEF CacheType
  <2>4. stop' \in BOOLEAN
    BY <2>2 DEF CacheType
  <2> QED
    BY <2>3, <2>4
<1>3. CacheType'
  BY <1>1, <1>2 DEF CacheType, Element
<1>4. UNCHANGED <<Entering, Held, Finalizing, Cleaning, Done>>
  BY <1>1 DEF Entering, Held, Finalizing, Cleaning, Done
<1>5. OnceEach' /\ OnePlace'
  BY <1>1, <1>4 DEF OnceEach, OnePlace
<1> QED
  BY <1>3, <1>5

\* Set makes a value that was nowhere.
LEMMA CacheSetBegin ==
    ASSUME CacheInv, NEW p \in CacheProcs, NEW k \in Keys, NEW d \in Lives, SetBegin(p, k, d)
    PROVE  CacheInv'
<1> USE CacheAssumption DEF CacheInv
<1>1. sets \in Nat /\ sets + 1 \in 1 .. MaxSets /\ sets' = sets + 1 /\ cachePc[p].at # "set"
  BY DEF SetBegin, CacheType, CacheIdle
<1> DEFINE new == [v |-> sets + 1, exp |-> IF d > 0 THEN now + d ELSE 0]
<1>2. PICK e \in [v : 1 .. sets + 1, exp : Nat] :
          e.v = sets + 1 /\ cachePc' = [cachePc EXCEPT ![p] = [at |-> "set", k |-> k, e |-> e]]
  <2>1. new \in [v : 1 .. sets + 1, exp : Nat] /\ new.v = sets + 1
    BY <1>1 DEF CacheType
  <2>2. cachePc' = [cachePc EXCEPT ![p] = [at |-> "set", k |-> k, e |-> new]]
    BY DEF SetBegin
  <2> QED
    BY <2>1, <2>2
<1>3. CacheType'
  BY <1>1, <1>2, SMTT(30) DEF SetBegin, CacheType, Element
<1>4. Entering' = Entering \cup {sets + 1} /\ Finalizing' = Finalizing
  BY <1>1, <1>2 DEF Entering, Finalizing, CacheType, SetBegin, CacheIdle
<1>5. UNCHANGED <<Held, Cleaning, replaced, Done>>
  BY DEF SetBegin, Held, Cleaning, Done
<1>6. OnePlace'
  BY <1>1, <1>4, <1>5 DEF OnePlace
<1>7. OnceEach'
  <2>1. \A q \in CacheProcs : cachePc[q].at = "set" => cachePc[q].e.v \in 1 .. sets
    BY SMTT(30) DEF CacheType, Element, CacheIdle
  <2> QED
    BY <1>1, <1>2, <2>1 DEF OnceEach, SetBegin, CacheType, CacheIdle
<1> QED
  BY <1>3, <1>6, <1>7

\* The value goes into the map, and what it replaces is forgotten.
LEMMA CacheSetStore ==
    ASSUME CacheInv, NEW p \in CacheProcs, SetStore(p)
    PROVE  CacheInv'
<1> USE CacheAssumption DEF CacheInv
<1>1. PICK k \in Keys, e \in Element : cachePc[p] = [at |-> "set", k |-> k, e |-> e]
  BY DEF SetStore, CacheType, CacheIdle
<1>2. /\ elements' = [elements EXCEPT ![k] = e]
      /\ cachePc' = [cachePc EXCEPT ![p] = CacheIdle]
      /\ UNCHANGED <<now, sets, finalized, cleaner, stop>>
      /\ replaced' = IF elements[k] = NoElement THEN replaced ELSE replaced \cup {elements[k].v}
      /\ e # NoElement
  BY <1>1 DEF SetStore, Element, CacheType
<1>3. CacheType'
  BY <1>1, <1>2 DEF CacheType, Element
<1>4. Entering' = Entering \ {e.v} /\ e.v \in Entering /\ Finalizing' = Finalizing
  <2>1. /\ cachePc[p].at = "set" /\ cachePc[p].e.v = e.v
        /\ \A q \in CacheProcs : /\ cachePc'[q].at = "set" <=> cachePc[q].at = "set" /\ q # p
                                 /\ q # p => cachePc'[q] = cachePc[q]
                                 /\ cachePc'[q].at = "finalize" <=> cachePc[q].at = "finalize"
    BY <1>1, <1>2 DEF CacheType, CacheIdle
  <2>2. Finalizing' = Finalizing
    BY <2>1 DEF Finalizing
  <2> QED
    BY <2>1, <2>2 DEF Entering, OnceEach
<1>5. Held' = (Held \ (replaced' \ replaced)) \cup {e.v}
  BY <1>1, <1>2 DEF Held, CacheType, OnceEach, OnePlace
<1>6. replaced' \ replaced \subseteq Held /\ replaced \subseteq replaced'
  BY <1>1, <1>2 DEF Held, CacheType
<1>7. UNCHANGED <<Cleaning, Done>>
  BY <1>2 DEF Cleaning, Done
<1>8. OnePlace'
  BY <1>2, <1>4, <1>5, <1>6, <1>7 DEF OnePlace
<1>9. OnceEach'
  <2>1. \A l \in Keys : elements[l] # NoElement => elements[l].v # e.v
    BY <1>4 DEF OnePlace, Held
  <2> QED
    BY <1>1, <1>2, <2>1 DEF OnceEach, CacheType, CacheIdle
<1> QED
  BY <1>3, <1>8, <1>9

\* Del takes the value out of the map.
LEMMA CacheDel ==
    ASSUME CacheInv, NEW p \in CacheProcs, NEW k \in Keys, Del(p, k)
    PROVE  CacheInv'
<1> USE CacheAssumption DEF CacheInv
<1>1. PICK e \in Element : elements[k] = e /\ e # NoElement
  BY DEF Del, CacheType
<1>2. /\ elements' = [elements EXCEPT ![k] = NoElement]
      /\ cachePc' = [cachePc EXCEPT ![p] = [at |-> "finalize", v |-> e.v]]
      /\ UNCHANGED <<now, sets, replaced, finalized, cleaner, stop>>
      /\ cachePc[p] = [at |-> "idle"]
  BY <1>1 DEF Del, CacheIdle
<1>3. CacheType'
  BY <1>1, <1>2 DEF CacheType, Element
<1>4. Entering' = Entering /\ Finalizing' = Finalizing \cup {e.v}
  BY <1>1, <1>2 DEF Entering, Finalizing, CacheType
<1>5. Held' = Held \ {e.v} /\ e.v \in Held
  BY <1>1, <1>2 DEF Held, CacheType, OnceEach
<1>6. UNCHANGED <<Cleaning, Done>>
  BY <1>2 DEF Cleaning, Done
<1>7. OnePlace'
  BY <1>2, <1>4, <1>5, <1>6 DEF OnePlace
<1>8. OnceEach'
  <2>1. \A q \in CacheProcs : cachePc[q].at = "finalize" => cachePc[q].v # e.v
    BY <1>5 DEF OnePlace, Finalizing
  <2> QED
    BY <1>1, <1>2, <2>1 DEF OnceEach, CacheType
<1> QED
  BY <1>3, <1>7, <1>8

\* Del finalizes the value, which has not been finalized.
LEMMA CacheFinalize ==
    ASSUME CacheInv, NEW p \in CacheProcs, Finalize(p)
    PROVE  CacheInv'
<1> USE CacheAssumption DEF CacheInv
<1>1. PICK v \in 1 .. sets : cachePc[p] = [at |-> "finalize", v |-> v]
  BY DEF Finalize, CacheType, CacheIdle
<1>2. /\ finalized' = [finalized EXCEPT ![v] = @ + 1]
      /\ cachePc' = [cachePc EXCEPT ![p] = CacheIdle]
      /\ UNCHANGED <<now, elements, sets, replaced, cleaner, stop>>
      /\ v \in 1 .. MaxSets
  BY <1>1 DEF Finalize, CacheType
<1>3. CacheType'
  BY <1>1, <1>2, SMTT(30) DEF CacheType, Element
<1>4. Entering' = Entering /\ Finalizing' = Finalizing \ {v} /\ v \in Finalizing
  BY <1>1, <1>2 DEF Entering, Finalizing, CacheType, CacheIdle, OnceEach
<1>5. finalized[v] = 0
  BY <1>2, <1>4 DEF OnePlace, Done
<1>6. UNCHANGED <<Held, Cleaning>> /\ Done' = Done \cup {v}
  BY <1>2, <1>5 DEF Held, Cleaning, Done, CacheType
<1>7. OnePlace'
  BY <1>2, <1>4, <1>6 DEF OnePlace
<1>8. OnceEach'
  BY <1>1, <1>2, <1>5 DEF OnceEach, CacheType, CacheIdle
<1> QED
  BY <1>3, <1>7, <1>8

\* The cleaner takes what is due out of one bucket at once ...
LEMMA CacheCleanLocked == ASSUME CacheInv, CleanLocked PROVE CacheInv'
<1> USE CacheAssumption DEF CacheInv
<1>1. PICK b \in 1 .. Buckets, t \in Nat : cleaner = [at |-> "lock", b |-> b, now |-> t]
  BY DEF CleanLocked, CacheType, Wait
<1> DEFINE due == {elements[k].v : k \in Due}
<1>2. /\ elements' = [k \in Keys |-> IF k \in Due THEN NoElement ELSE elements[k]]
      /\ cleaner' = [at |-> "pairs", b |-> b, pairs |-> due]
      /\ UNCHANGED <<now, sets, replaced, finalized, cachePc, stop>>
      /\ Due \subseteq Keys /\ \A k \in Due : elements[k] \in Element /\ elements[k] # NoElement
  BY <1>1 DEF CleanLocked, CacheType, Due
<1>3. CacheType'
  <2>1. due \subseteq 1 .. sets
    BY <1>2 DEF Element
  <2> QED
    BY <1>1, <1>2, <2>1 DEF CacheType, Element
<1>4. Held' = Held \ due /\ due \subseteq Held
  <2>1. \A k \in Keys : elements'[k] # NoElement <=> elements[k] # NoElement /\ k \notin Due
    BY <1>2
  <2>2. \A k \in Keys : k \notin Due => elements'[k] = elements[k]
    BY <1>2
  <2> QED
    BY <1>2, <2>1, <2>2 DEF Held, OnceEach
<1>5. Cleaning = {} /\ Cleaning' = due
  BY <1>1, <1>2 DEF Cleaning
<1>6. UNCHANGED <<Entering, Finalizing, Done, replaced>>
  BY <1>2 DEF Entering, Finalizing, Done
<1>7. OnePlace'
  BY <1>2, <1>4, <1>5, <1>6 DEF OnePlace
<1>8. OnceEach'
  BY <1>2 DEF OnceEach, CacheType
<1> QED
  BY <1>3, <1>7, <1>8

\* ... and finalizes it without the lock, one value after the other.
LEMMA CacheCleanFinalize ==
    ASSUME CacheInv, NEW v \in 1 .. MaxSets, CleanFinalize(v)
    PROVE  CacheInv'
<1> USE CacheAssumption DEF CacheInv
<1>1. PICK b \in 1 .. Buckets, vs \in SUBSET (1 .. sets) :
          cleaner = [at |-> "pairs", b |-> b, pairs |-> vs] /\ v \in vs
  BY DEF CleanFinalize, CacheType, Wait
<1>2. /\ finalized' = [finalized EXCEPT ![v] = @ + 1]
      /\ cleaner' = [at |-> "pairs", b |-> b, pairs |-> vs \ {v}]
      /\ UNCHANGED <<now, elements, sets, replaced, cachePc, stop>>
  BY <1>1 DEF CleanFinalize
<1>3. CacheType'
  BY <1>1, <1>2 DEF CacheType, Element
<1>4. Cleaning = vs /\ Cleaning' = vs \ {v}
  BY <1>1, <1>2 DEF Cleaning
<1>5. finalized[v] = 0
  BY <1>1, <1>4 DEF OnePlace, Done
<1>6. UNCHANGED <<Entering, Held, Finalizing>> /\ Done' = Done \cup {v}
  BY <1>2, <1>5 DEF Entering, Held, Finalizing, Done, CacheType
<1>7. OnePlace'
  BY <1>1, <1>2, <1>4, <1>6 DEF OnePlace
<1>8. OnceEach'
  BY <1>2, <1>5 DEF OnceEach, CacheType
<1> QED
  BY <1>3, <1>7, <1>8

\* Its other steps move no value.
LEMMA CacheCleanMoves ==
    ASSUME CacheInv, CleanTick \/ CleanNow \/ CleanNext \/ CleanExit
    PROVE  CacheInv'
<1> USE CacheAssumption DEF CacheInv
<1>1. UNCHANGED <<now, elements, sets, replaced, finalized, cachePc, stop>>
  BY DEF CleanTick, CleanNow, CleanNext, CleanExit
<1>2. CacheType'
  BY <1>1 DEF CacheType, Element, CleanTick, CleanNow, CleanNext, CleanExit, Wait
<1>3. Cleaning = {} /\ Cleaning' = {}
  BY DEF Cleaning, CleanTick, CleanNow, CleanNext, CleanExit, Wait
<1>4. UNCHANGED <<Entering, Held, Finalizing, Done>>
  BY <1>1 DEF Entering, Held, Finalizing, Done
<1>5. OnceEach' /\ OnePlace'
  BY <1>1, <1>3, <1>4 DEF OnceEach, OnePlace
<1> QED
  BY <1>2, <1>5

\* Every value of the cache is in one place.
THEOREM CacheInvariant == CacheSpec => []CacheInv
<1>1. CacheInit => CacheInv
  <2> SUFFICES ASSUME CacheInit PROVE CacheInv
    OBVIOUS
  <2>1. CacheType
    <3>1. now \in Nat /\ sets \in 0 .. MaxSets /\ finalized \in [1 .. MaxSets -> Nat]
      BY CacheAssumption DEF CacheInit
    <3>2. stop \in BOOLEAN /\ elements \in [Keys -> Element \cup {NoElement}]
      BY DEF CacheInit
    <3> QED
      BY <3>1, <3>2 DEF CacheType, CacheInit
  <2>2. OnceEach
    BY CacheAssumption DEF CacheInit, OnceEach, CacheIdle
  <2>3. /\ Entering = {} /\ Held = {} /\ Finalizing = {} /\ Cleaning = {} /\ Done = {}
        /\ replaced = {} /\ 1 .. sets = {}
    BY DEF CacheInit, Entering, Held, Finalizing, Cleaning, Done, CacheIdle, Wait
  <2> QED
    BY <2>1, <2>2, <2>3 DEF CacheInv, OnePlace
<1>2. CacheInv /\ [CacheNext]_cacheVars => CacheInv'
  BY CacheTimePasses, CacheSetBegin, CacheSetStore, CacheDel, CacheFinalize,
     CacheCleanLocked, CacheCleanFinalize, CacheCleanMoves
     DEF CacheNext, CacheCall, Clean
<1> QED
  BY <1>1, <1>2, PTL DEF CacheSpec

\* Del, the cleaner and Set, racing on one key, hand each value to one of
\* them: none is finalized twice, or while it is in the cache, and none is
\* forgotten but those that a Set replaces.
THEOREM CacheFinalizesOnce == CacheSpec => []FinalizedOnce
<1>1. CacheInv => FinalizedOnce
  <2> SUFFICES ASSUME CacheInv, NEW v \in 1 .. sets
               PROVE  LET places == <<Entering, Held, Leaving, replaced>>
                      IN Cardinality({i \in 1 .. 4 : v \in places[i]}) + finalized[v] = 1
    BY DEF FinalizedOnce
  <2> DEFINE places == <<Entering, Held, Leaving, replaced>>
             at == {i \in 1 .. 4 : v \in places[i]}
  <2>1. Leaving = Finalizing \cup Cleaning
    BY DEF Leaving, Finalizing, Cleaning
  <2>2. v \in 1 .. MaxSets /\ finalized[v] \in {0, 1} /\ (v \in Done <=> finalized[v] = 1)
    BY CacheAssumption, SMTT(30) DEF CacheInv, CacheType, OnceEach, Done
  <2>3. CASE v \in Done
    <3>1. at = {}
      BY <2>1, <2>3 DEF CacheInv, OnePlace
    <3>2. Cardinality(at) = 0
      BY <3>1, FS_EmptySet
    <3> QED
      BY <2>2, <2>3, <3>2
  <2>4. CASE v \notin Done
    <3>1. PICK i \in 1 .. 4 : at = {i}
      <4>1. CASE v \in Entering
        <5>1. at = {1}
          BY <2>1, <4>1 DEF CacheInv, OnePlace
        <5> QED
          BY <5>1
      <4>2. CASE v \in Held
        <5>1. at = {2}
          BY <2>1, <4>2 DEF CacheInv, OnePlace
        <5> QED
          BY <5>1
      <4>3. CASE v \in Leaving
        <5>1. at = {3}
          BY <2>1, <4>3 DEF CacheInv, OnePlace
        <5> QED
          BY <5>1
      <4>4. CASE v \in replaced
        <5>1. at = {4}
          BY <2>1, <4>4 DEF CacheInv, OnePlace
        <5> QED
          BY <5>1
      <4> QED
        BY <2>1, <2>4, <4>1, <4>2, <4>3, <4>4 DEF CacheInv, OnePlace
    <3>2. Cardinality(at) = 1
      BY <3>1, FS_Singleton
    <3> QED
      BY <2>2, <2>4, <3>2
  <2> QED
    BY <2>3, <2>4
<1> QED
  BY <1>1, CacheInvariant, PTL


-----------------------------------------------------------------------------
(* The buffer pool.                                                         *)

BufferType ==
    /\ buffers \in Seq(Bufs) /\ Len(buffers) <= BufCap
    /\ bufClosed \in BOOLEAN
    /\ xb \in [Users -> Bufs \cup {NoBuffer}]
    /\ dirty \subseteq Bufs
    /\ bufPc \in [Users -> {"idle", "send", "nil", "drain"}]

\* Between put and xb.Buffer = nil an XBuffer names a buffer that is no
\* longer its own; at every other place the buffer is its own.
Has(p, b) == xb[p] = b /\ bufPc[p] # "nil"

BufferLabels ==
    \A p \in Users : bufPc[p] = "send" => xb[p] # NoBuffer /\ xb[p] \notin dirty

\* Each buffer in the channel is clean and nobody has it, and no two
\* goroutines have one buffer.
BufferApart ==
    /\ IsInjective(buffers)
    /\ ToSet(buffers) \cap dirty = {}
    /\ \A b \in ToSet(buffers), p \in Users : ~Has(p, b)
    /\ \A b \in Bufs, p, q \in Users : Has(p, b) /\ Has(q, b) => p = q

BufferInv == BufferType /\ BufferLabels /\ BufferApart

\* What a receive leaves in the channel.
LEMMA Received ==
    ASSUME NEW S, NEW s \in Seq(S), s # <<>>, IsInjective(s)
    PROVE  /\ Head(s) \in ToSet(s) /\ ToSet(s) \subseteq S
           /\ Tail(s) \in Seq(S) /\ Len(Tail(s)) = Len(s) - 1
           /\ ToSet(Tail(s)) = ToSet(s) \ {Head(s)} /\ IsInjective(Tail(s))
<1>1. Tail(s) \in Seq(S) /\ Len(Tail(s)) = Len(s) - 1 /\ Len(s) \in Nat /\ Len(s) > 0
  OBVIOUS
<1>2. \A i \in 1 .. Len(s) - 1 : Tail(s)[i] = s[i + 1]
  OBVIOUS
<1>3. Head(s) = s[1] /\ DOMAIN s = 1 .. Len(s) /\ DOMAIN Tail(s) = 1 .. Len(s) - 1
  OBVIOUS
<1>4. Head(s) \in ToSet(s) /\ ToSet(s) \subseteq S
  BY <1>1, <1>3 DEF ToSet
<1>5. \A i \in 2 .. Len(s) : i - 1 \in 1 .. Len(s) - 1 /\ s[i] = Tail(s)[i - 1]
  BY <1>1, <1>2
<1>6. \A i \in 2 .. Len(s) : s[i] # s[1]
  BY <1>1, <1>3 DEF IsInjective
<1>7. ToSet(Tail(s)) \subseteq ToSet(s) \ {Head(s)}
  BY <1>1, <1>2, <1>3, <1>6 DEF ToSet
<1>8. ToSet(s) \ {Head(s)} \subseteq ToSet(Tail(s))
  <2> SUFFICES ASSUME NEW i \in 1 .. Len(s), s[i] # s[1]
               PROVE  s[i] \in ToSet(Tail(s))
    BY <1>3 DEF ToSet
  <2>1. i \in 2 .. Len(s)
    BY <1>1
  <2> QED
    BY <1>3, <1>5, <2>1 DEF ToSet
<1>9. IsInjective(Tail(s))
  BY <1>1, <1>2, <1>3 DEF IsInjective
<1> QED
  BY <1>1, <1>4, <1>7, <1>8, <1>9

\* What a send adds to it.
LEMMA Sent ==
    ASSUME NEW S, NEW s \in Seq(S), NEW e \in S, e \notin ToSet(s), IsInjective(s)
    PROVE  /\ Append(s, e) \in Seq(S) /\ Len(Append(s, e)) = Len(s) + 1
           /\ ToSet(Append(s, e)) = ToSet(s) \cup {e} /\ IsInjective(Append(s, e))
<1>1. Append(s, e) \in Seq(S) /\ Len(Append(s, e)) = Len(s) + 1 /\ Len(s) \in Nat
  OBVIOUS
<1>2. DOMAIN s = 1 .. Len(s) /\ DOMAIN Append(s, e) = 1 .. Len(s) + 1
  OBVIOUS
<1>3. /\ \A i \in 1 .. Len(s) : Append(s, e)[i] = s[i]
      /\ Append(s, e)[Len(s) + 1] = e
  OBVIOUS
<1>4. 1 .. Len(s) + 1 = 1 .. Len(s) \cup {Len(s) + 1}
  BY <1>1
<1>5. ToSet(Append(s, e)) = ToSet(s) \cup {e}
  BY <1>2, <1>3, <1>4 DEF ToSet
<1>6. IsInjective(Append(s, e))
  <2>1. \A i \in 1 .. Len(s) : s[i] # e
    BY <1>2 DEF ToSet
  <2> QED
    BY <1>2, <1>3, <1>4, <2>1 DEF IsInjective
<1> QED
  BY <1>1, <1>5, <1>6

\* Get always finds garbage to make a new buffer of.
LEMMA GarbageLeft == ASSUME BufferType, buffers = <<>> PROVE Garbage # {}
<1> SUFFICES ASSUME Garbage = {} PROVE FALSE
  OBVIOUS
<1> DEFINE named == {xb[p] : p \in Users}
<1>1. ToSet(buffers) = {}
  BY DEF ToSet
<1>2. Bufs \subseteq named
  BY <1>1 DEF Garbage
<1>3. IsFiniteSet(named) /\ Cardinality(named) <= Cardinality(Users)
  <2>1. [p \in Users |-> xb[p]] \in Surjection(Users, named)
    BY DEF Surjection
  <2> QED
    BY <2>1, FS_Surjection, BufferAssumption
<1>4. Cardinality(Bufs) <= Cardinality(named)
  BY <1>2, <1>3, FS_Subset
<1>5. Cardinality(Bufs) \in Nat /\ Cardinality(Users) \in Nat /\ Cardinality(named) \in Nat
  BY <1>3, FS_CardinalityType, BufferAssumption
<1> QED
  BY <1>3, <1>4, <1>5, BufferAssumption

\* A buffer that Get returns is no longer in the channel.
LEMMA BufferGet ==
    ASSUME BufferInv, NEW p \in Users, GetPooled(p) \/ GetNew(p)
    PROVE  BufferInv'
<1> USE BufferAssumption DEF BufferInv
<1>1. CASE GetPooled(p)
  <2>1. PICK b \in Bufs : b = Head(buffers)
    BY <1>1 DEF GetPooled, BufferType
  <2>2. /\ b \in ToSet(buffers) /\ buffers' \in Seq(Bufs) /\ Len(buffers') = Len(buffers) - 1
        /\ ToSet(buffers') = ToSet(buffers) \ {b} /\ IsInjective(buffers')
    BY <1>1, <2>1, Received DEF GetPooled, BufferType, BufferApart
  <2>3. /\ bufPc[p] = "idle" /\ xb[p] = NoBuffer /\ xb' = [xb EXCEPT ![p] = b]
        /\ UNCHANGED <<bufClosed, dirty, bufPc>>
    BY <1>1, <2>1 DEF GetPooled
  <2>4. BufferType'
    BY <2>2, <2>3 DEF BufferType
  <2>5. BufferLabels' /\ BufferApart'
    BY <2>2, <2>3 DEF BufferType, BufferLabels, BufferApart, Has
  <2> QED
    BY <2>4, <2>5
<1>2. CASE GetNew(p)
  <2>1. PICK b \in Garbage : xb' = [xb EXCEPT ![p] = b] /\ dirty' = dirty \ {b}
    BY <1>2, GarbageLeft DEF GetNew
  <2>2. /\ bufPc[p] = "idle" /\ xb[p] = NoBuffer /\ UNCHANGED <<buffers, bufClosed, bufPc>>
        /\ b \in Bufs /\ b \notin ToSet(buffers) /\ \A q \in Users : xb[q] # b
    BY <1>2 DEF GetNew, Garbage
  <2>3. BufferType'
    BY <2>1, <2>2 DEF BufferType
  <2>4. BufferLabels' /\ BufferApart'
    BY <2>1, <2>2 DEF BufferType, BufferLabels, BufferApart, Has
  <2> QED
    BY <2>3, <2>4
<1> QED
  BY <1>1, <1>2

\* Its user writes to it and, before it is sent, empties it.
LEMMA BufferUse ==
    ASSUME BufferInv, NEW p \in Users, Write(p) \/ Reset(p)
    PROVE  BufferInv'
<1> USE BufferAssumption DEF BufferInv
<1>1. PICK b \in Bufs : xb[p] = b /\ bufPc[p] = "idle"
  BY DEF Write, Reset, BufferType
<1>2. b \notin ToSet(buffers) /\ \A q \in Users : Has(q, b) => q = p
  BY <1>1 DEF BufferApart, Has
<1>3. CASE Write(p)
  <2>1. dirty' = dirty \cup {b} /\ UNCHANGED <<buffers, bufClosed, xb, bufPc>>
    BY <1>1, <1>3 DEF Write
  <2> QED
    BY <1>1, <1>2, <2>1 DEF BufferType, BufferLabels, BufferApart, Has
<1>4. CASE Reset(p)
  <2>1. /\ dirty' = dirty \ {b} /\ bufPc' = [bufPc EXCEPT ![p] = "send"]
        /\ UNCHANGED <<buffers, bufClosed, xb>>
    BY <1>1, <1>4 DEF Reset, BufferGoto
  <2> QED
    BY <1>1, <2>1 DEF BufferType, BufferLabels, BufferApart, Has
<1> QED
  BY <1>3, <1>4

\* It is sent empty, and whether or not there is room for it, it is no
\* longer its user's.
LEMMA BufferPut ==
    ASSUME BufferInv, NEW p \in Users, Send(p) \/ Ignore(p) \/ Forget(p)
    PROVE  BufferInv'
<1> USE BufferAssumption DEF BufferInv
<1>1. CASE Send(p)
  <2>1. PICK b \in Bufs : xb[p] = b /\ b \notin dirty
    BY <1>1 DEF Send, BufferType, BufferLabels
  <2>2. /\ bufPc[p] = "send" /\ bufPc' = [bufPc EXCEPT ![p] = "nil"]
        /\ Len(buffers) < BufCap /\ buffers' = Append(buffers, b)
        /\ UNCHANGED <<bufClosed, xb, dirty>>
    BY <1>1, <2>1 DEF Send, BufferGoto
  <2>3. b \notin ToSet(buffers) /\ \A q \in Users : Has(q, b) => q = p
    BY <2>1, <2>2 DEF BufferApart, Has
  <2>4. /\ buffers' \in Seq(Bufs) /\ Len(buffers') = Len(buffers) + 1
        /\ ToSet(buffers') = ToSet(buffers) \cup {b} /\ IsInjective(buffers')
    BY <2>2, <2>3, Sent DEF BufferType, BufferApart
  <2>5. BufferType'
    BY <2>2, <2>4 DEF BufferType
  <2>6. BufferLabels' /\ BufferApart'
    BY <2>1, <2>2, <2>3, <2>4 DEF BufferType, BufferLabels, BufferApart, Has
  <2> QED
    BY <2>5, <2>6
<1>2. CASE Ignore(p)
  <2>1. bufPc' = [bufPc EXCEPT ![p] = "nil"] /\ UNCHANGED <<buffers, bufClosed, xb, dirty>>
    BY <1>2 DEF Ignore, BufferGoto
  <2> QED
    BY <2>1 DEF BufferType, BufferLabels, BufferApart, Has
<1>3. CASE Forget(p)
  <2>1. /\ bufPc' = [bufPc EXCEPT ![p] = "idle"] /\ xb' = [xb EXCEPT ![p] = NoBuffer]
        /\ UNCHANGED <<buffers, bufClosed, dirty>>
    BY <1>3 DEF Forget, BufferGoto
  <2>2. NoBuffer \notin ToSet(buffers)
    BY DEF BufferType, ToSet
  <2> QED
    BY <2>1, <2>2 DEF BufferType, BufferLabels, BufferApart, Has
<1> QED
  BY <1>1, <1>2, <1>3

\* Close of the pool takes buffers out of the channel and gives them to nobody.
LEMMA BufferDrain ==
    ASSUME BufferInv, NEW p \in Users, ClosePool(p) \/ Drain(p)
    PROVE  BufferInv'
<1> USE BufferAssumption DEF BufferInv
<1>1. CASE ClosePool(p)
  <2>1. /\ bufPc[p] = "idle" /\ bufPc' = [bufPc EXCEPT ![p] = "drain"] /\ bufClosed' = TRUE
        /\ UNCHANGED <<buffers, xb, dirty>>
    BY <1>1 DEF ClosePool, BufferGoto
  <2>2. bufClosed' \in BOOLEAN
    BY <2>1
  <2>3. BufferType'
    BY <2>1, <2>2 DEF BufferType
  <2>4. BufferLabels' /\ BufferApart'
    BY <2>1 DEF BufferType, BufferLabels, BufferApart, Has
  <2> QED
    BY <2>3, <2>4
<1>2. CASE Drain(p)
  <2>1. /\ buffers' \in Seq(Bufs) /\ Len(buffers') = Len(buffers) - 1
        /\ ToSet(buffers') \subseteq ToSet(buffers) /\ IsInjective(buffers')
    BY <1>2, Received DEF Drain, BufferType, BufferApart
  <2>2. UNCHANGED <<bufClosed, xb, dirty, bufPc>>
    BY <1>2 DEF Drain
  <2>3. BufferType'
    BY <2>1, <2>2 DEF BufferType
  <2>4. BufferLabels' /\ BufferApart'
    BY <2>1, <2>2 DEF BufferLabels, BufferApart, Has
  <2> QED
    BY <2>3, <2>4
<1> QED
  BY <1>1, <1>2

\* Pooled buffers are clean and in nobody's hands.
THEOREM BufferInvariant == BufferSpec => []BufferInv
<1>1. BufferInit => BufferInv
  <2> SUFFICES ASSUME BufferInit PROVE BufferInv
    OBVIOUS
  <2>1. BufferType
    <3>1. buffers \in Seq(Bufs) /\ Len(buffers) <= BufCap
      BY BufferAssumption DEF BufferInit
    <3>2. bufClosed \in BOOLEAN
      BY DEF BufferInit
    <3> QED
      BY <3>1, <3>2 DEF BufferInit, BufferType
  <2>2. ToSet(buffers) = {} /\ IsInjective(buffers)
    BY DEF BufferInit, ToSet, IsInjective
  <2>3. BufferLabels /\ BufferApart
    BY <2>2, BufferAssumption DEF BufferInit, BufferLabels, BufferApart, Has
  <2> QED
    BY <2>1, <2>3 DEF BufferInv
<1>2. BufferInv /\ [BufferNext]_bufferVars => BufferInv'
  <2>1. BufferInv /\ UNCHANGED bufferVars => BufferInv'
    BY DEF BufferInv, BufferType, BufferLabels, BufferApart, Has, bufferVars
  <2> QED
    BY <2>1, BufferGet, BufferUse, BufferPut, BufferDrain DEF BufferNext, BufferStep
<1> QED
  BY <1>1, <1>2, PTL DEF BufferSpec

\* A buffer in the channel is there once, is empty, and is in nobody's use;
\* two goroutines never have the same buffer.
THEOREM BuffersApart == BufferSpec => []PooledUnused
<1>1. BufferInv => PooledUnused
  <2> SUFFICES ASSUME BufferInv PROVE PooledUnused
    OBVIOUS
  <2>1. ToSet(buffers) \cap InUse = {}
    BY DEF BufferInv, BufferApart, Has, InUse
  <2>2. ASSUME NEW p \in Users, NEW q \in Users, xb[p] # NoBuffer, xb[p] = xb[q],
               bufPc[p] # "nil", bufPc[q] # "nil"
        PROVE  p = q
    BY <2>2 DEF BufferInv, BufferApart, BufferType, Has
  <2> QED
    BY <2>1, <2>2 DEF BufferInv, BufferApart, PooledUnused
<1> QED
  BY <1>1, BufferInvariant, PTL

=============================================================================
