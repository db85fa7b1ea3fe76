------------------------------- MODULE XCache -------------------------------
(***************************************************************************)
(* go-xcache: a map cut into buckets with a lock each, elements that may    *)
(* expire, and a goroutine that cleans one bucket after the other.  A       *)
(* section under a bucket's lock is one step; the clock is read before it   *)
(* and finalizers run after it.  Get changes nothing and is no action.    *)
(***************************************************************************)
EXTENDS Naturals, FiniteSets

CONSTANTS CacheProcs,  \* goroutines that use the cache
          Keys,
          Buckets,  \* number of buckets
          Home,     \* fnv32a(k) % n: the bucket of a key
          Lives,    \* durations given to ESet; 0 never expires
          MaxSets,  \* bound on the elements ever set
          MaxNow,   \* bound on the clock
          NoElement

ASSUME CacheAssumption == /\ Buckets \in Nat \ {0} /\ Home \in [Keys -> 1 .. Buckets]
                          /\ Lives \subseteq Nat /\ MaxSets \in Nat /\ MaxNow \in Nat
                          /\ NoElement \notin [v : Nat, exp : Nat]

VARIABLES now,        \* time.Now().UnixNano()
          elements,   \* key -> [v, exp], or NoElement; every Set stores a value of its own
          sets,       \* values made so far are 1 .. sets
          replaced,   \* history: values that a later Set replaced
          finalized,  \* history: value -> calls of Finalize on it
          cachePc,    \* what each goroutine is doing
          cleaner,    \* the goroutine of clean
          stop        \* the channel stop is closed

cacheVars == <<now, elements, sets, replaced, finalized, cachePc, cleaner, stop>>

CacheIdle == [at |-> "idle"]
Wait == [at |-> "select"]

expired(e, t) == e.exp # 0 /\ t > e.exp

CacheInit == /\ now = 1
             /\ elements = [k \in Keys |-> NoElement]
             /\ sets = 0
             /\ replaced = {}
             /\ finalized = [v \in 1 .. MaxSets |-> 0]
             /\ cachePc = [p \in CacheProcs |-> CacheIdle]
             /\ cleaner = Wait
             /\ stop = FALSE

Tick == /\ now < MaxNow
        /\ now' = now + 1
        /\ UNCHANGED <<elements, sets, replaced, finalized, cachePc, cleaner, stop>>

\* Set and ESet work out the expiration before they take the lock.
SetBegin(p, k, d) ==
    /\ cachePc[p] = CacheIdle
    /\ sets < MaxSets
    /\ sets' = sets + 1
    /\ cachePc' = [cachePc EXCEPT ![p] = [at |-> "set", k |-> k,
                                          e |-> [v |-> sets + 1, exp |-> IF d > 0 THEN now + d ELSE 0]]]
    /\ UNCHANGED <<now, elements, replaced, finalized, cleaner, stop>>

SetStore(p) ==
    /\ cachePc[p].at = "set"
    /\ LET k == cachePc[p].k
       IN /\ elements' = [elements EXCEPT ![k] = cachePc[p].e]
          /\ replaced' = IF elements[k] = NoElement THEN replaced ELSE replaced \cup {elements[k].v}
    /\ cachePc' = [cachePc EXCEPT ![p] = CacheIdle]
    /\ UNCHANGED <<now, sets, finalized, cleaner, stop>>

\* Mutant of Del: the element stays in the map.
DelKept(p, k) ==
    /\ cachePc[p] = CacheIdle
    /\ elements[k] # NoElement
    /\ cachePc' = [cachePc EXCEPT ![p] = [at |-> "finalize", v |-> elements[k].v]]
    /\ UNCHANGED <<now, elements, sets, replaced, finalized, cleaner, stop>>

Del(p, k) ==
    /\ cachePc[p] = CacheIdle
    /\ elements[k] # NoElement
    /\ elements' = [elements EXCEPT ![k] = NoElement]
    /\ cachePc' = [cachePc EXCEPT ![p] = [at |-> "finalize", v |-> elements[k].v]]
    /\ UNCHANGED <<now, sets, replaced, finalized, cleaner, stop>>

Finalize(p) ==
    /\ cachePc[p].at = "finalize"
    /\ finalized' = [finalized EXCEPT ![cachePc[p].v] = @ + 1]
    /\ cachePc' = [cachePc EXCEPT ![p] = CacheIdle]
    /\ UNCHANGED <<now, elements, sets, replaced, cleaner, stop>>

CacheClose == /\ ~stop
              /\ stop' = TRUE
              /\ UNCHANGED <<now, elements, sets, replaced, finalized, cachePc, cleaner>>

-----------------------------------------------------------------------------
(* The goroutine of clean.                                                  *)

\* The ticker fires: the first bucket is next.
CleanTick == /\ cleaner.at = "select"
             /\ cleaner' = [at |-> "now", b |-> 1]
             /\ UNCHANGED <<now, elements, sets, replaced, finalized, cachePc, stop>>

\* bucket.clean reads the clock before it locks.
CleanNow == /\ cleaner.at = "now"
            /\ cleaner' = [at |-> "lock", b |-> cleaner.b, now |-> now]
            /\ UNCHANGED <<now, elements, sets, replaced, finalized, cachePc, stop>>

\* Keys of the bucket whose element has expired when the clock was read.
Due == {k \in Keys : Home[k] = cleaner.b /\ elements[k] # NoElement /\ expired(elements[k], cleaner.now)}

CleanLocked ==
    /\ cleaner.at = "lock"
    /\ elements' = [k \in Keys |-> IF k \in Due THEN NoElement ELSE elements[k]]
    /\ cleaner' = [at |-> "pairs", b |-> cleaner.b, pairs |-> {elements[k].v : k \in Due}]
    /\ UNCHANGED <<now, sets, replaced, finalized, cachePc, stop>>

CleanFinalize(v) ==
    /\ cleaner.at = "pairs" /\ v \in cleaner.pairs
    /\ finalized' = [finalized EXCEPT ![v] = @ + 1]
    /\ cleaner' = [cleaner EXCEPT !.pairs = @ \ {v}]
    /\ UNCHANGED <<now, elements, sets, replaced, cachePc, stop>>

\* Mutant of CleanNext: the last bucket is left out.
CleanNextShort ==
    /\ cleaner.at = "pairs" /\ cleaner.pairs = {}
    /\ cleaner' = IF cleaner.b + 1 < Buckets THEN [at |-> "now", b |-> cleaner.b + 1] ELSE Wait
    /\ UNCHANGED <<now, elements, sets, replaced, finalized, cachePc, stop>>

CleanNext ==
    /\ cleaner.at = "pairs" /\ cleaner.pairs = {}
    /\ cleaner' = IF cleaner.b < Buckets THEN [at |-> "now", b |-> cleaner.b + 1] ELSE Wait
    /\ UNCHANGED <<now, elements, sets, replaced, finalized, cachePc, stop>>

CleanExit == /\ cleaner.at = "select" /\ stop
             /\ cleaner' = [at |-> "exit"]
             /\ UNCHANGED <<now, elements, sets, replaced, finalized, cachePc, stop>>

Clean == \/ CleanTick \/ CleanNow \/ CleanLocked \/ CleanNext \/ CleanExit
         \/ \E v \in 1 .. MaxSets : CleanFinalize(v)

CacheCall(p) == \/ \E k \in Keys, d \in Lives : SetBegin(p, k, d)
                \/ \E k \in Keys : Del(p, k)
                \/ SetStore(p) \/ Finalize(p)

CacheNext == Tick \/ CacheClose \/ Clean \/ \E p \in CacheProcs : CacheCall(p)

\* The runtime runs the cleaner, and select picks a ready case at random: the
\* one that stops it is not passed over for ever.
CacheFairness == WF_cacheVars(Clean) /\ SF_cacheVars(CleanExit)

CacheSpec == CacheInit /\ [][CacheNext]_cacheVars /\ CacheFairness

-----------------------------------------------------------------------------
(* Properties.                                                              *)

\* Values on their way into the cache, in it, or taken out to be finalized.
Entering == {cachePc[p].e.v : p \in {q \in CacheProcs : cachePc[q].at = "set"}}
Held == {elements[k].v : k \in {l \in Keys : elements[l] # NoElement}}
Leaving == {cachePc[p].v : p \in {q \in CacheProcs : cachePc[q].at = "finalize"}}
               \cup (IF cleaner.at = "pairs" THEN cleaner.pairs ELSE {})

\* No value is finalized twice, or while it is still in the cache, and none
\* that was deleted or has expired is forgotten: Del, the cleaner and Set,
\* racing on one key, hand each value to one of them.  Only a value that Set
\* replaces is never finalized.
FinalizedOnce ==
    \A v \in 1 .. sets :
        LET places == <<Entering, Held, Leaving, replaced>>
        IN Cardinality({i \in 1 .. 4 : v \in places[i]}) + finalized[v] = 1

\* Every element that has expired leaves the cache in the end, whatever its
\* bucket, unless the cache is closed; and Close ends the cleaner.
CleanerWorks ==
    /\ \A k \in Keys : []<>(stop \/ elements[k] = NoElement \/ ~expired(elements[k], now))
    /\ stop ~> cleaner.at = "exit"

=============================================================================
