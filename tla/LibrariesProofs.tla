--------------------------- MODULE LibrariesProofs ---------------------------
(***************************************************************************)
(* Theorems about the map of connection pools (XConnPools), the limiter     *)
(* (XLimit), the process id file (XPid) and the logger's configuration      *)
(* (XLogConfig), for any number of goroutines, addresses, pools and         *)
(* processes, any limit, period and clock, and any size and age.            *)
(***************************************************************************)
EXTENDS XConnPools, XLimit, XPid, XLogConfig, FiniteSetTheorems, TLAPS

-----------------------------------------------------------------------------
(* The map of connection pools, with any number of callers.                 *)

Made == {q \in Pools : state[q] # "new"}
Missing == {p \in Procs : pc[p] = "lookup"}

\* Every lookup that may still create a pool has one left to create.
PoolsLeft == IsFiniteSet(Missing) /\ Cardinality(Made) + Cardinality(Missing) <= gets

MapType ==
    /\ pools \in [Addrs -> Pools \cup {None}]
    /\ state \in [Pools -> {"new", "open", "closed"}]
    /\ addr \in [Pools -> Addrs \cup {None}]
    /\ count \in [Pools -> Nat]
    /\ pc \in [Procs -> {"idle", "lookup", "set", "count", "use"}]
    /\ want \in [Procs -> Addrs \cup {None}]
    /\ pool \in [Procs -> Pools \cup {None}]
    /\ gets \in 0 .. MaxGets
    /\ clean \in [step : {"select", "each", "store", "close", "delete", "exited"},
                  visit : SUBSET Addrs, at : Pools \cup {None}, delete : SUBSET Addrs]
    /\ close \in {"no", "signalled", "each", "done"}
    /\ todo \subseteq Addrs
    /\ \A p \in Procs : /\ pc[p] # "idle" => want[p] \in Addrs
                        /\ pc[p] \in {"set", "count", "use"} => pool[p] \in Made
                        /\ pc[p] = "set" => addr[pool[p]] = want[p]

\* A mapped pool was created for its address.
MapMade == \A a \in Mapped : pools[a] \in Made /\ addr[pools[a]] = a

\* The map stands still while it is visited.
Visits ==
    /\ clean.step \in {"each", "store", "close"} => "clean" \in readers /\ clean.visit \subseteq Mapped
    /\ clean.step \in {"store", "close"} => clean.at \in Made
    /\ close = "each" => /\ "close" \in readers /\ todo \subseteq Mapped
                         /\ \A a \in Mapped \ todo : state[pools[a]] = "closed"

MapInv == MapType /\ PoolsLeft /\ MapMade /\ Visits /\ CloseReachesAll

\* A lookup that finds no pool finds one to create.
LEMMA FreshLeft ==
    ASSUME MapType, PoolsLeft, NEW p \in Procs, pc[p] = "lookup"
    PROVE  Fresh \in Pools /\ state[Fresh] = "new"
<1> SUFFICES \E q \in Pools : state[q] = "new"
  BY DEF Fresh
<1> SUFFICES ASSUME Made = Pools PROVE FALSE
  BY DEF Made
<1>1. Cardinality(Missing) \in Nat /\ Cardinality(Missing) # 0
  BY FS_EmptySet, FS_CardinalityType DEF Missing, PoolsLeft
<1>2. Cardinality(Pools) \in Nat
  BY FS_CardinalityType, PoolsAssumption
<1> QED
  BY <1>1, <1>2, PoolsAssumption DEF PoolsLeft, MapType

\* The number of pools that may still be created.
LEMMA LeftAfter ==
    ASSUME MapType, PoolsLeft, NEW p \in Procs
    PROVE  /\ pc[p] = "lookup" => /\ IsFiniteSet(Missing \ {p})
                                  /\ Cardinality(Missing \ {p}) = Cardinality(Missing) - 1
           /\ pc[p] # "lookup" => /\ IsFiniteSet(Missing \cup {p})
                                  /\ Cardinality(Missing \cup {p}) = Cardinality(Missing) + 1
           /\ \A q \in Pools : state[q] = "new" => Cardinality(Made \cup {q}) = Cardinality(Made) + 1
           /\ Cardinality(Missing) \in Nat /\ Cardinality(Made) \in Nat
<1>1. IsFiniteSet(Made)
  BY FS_Subset, PoolsAssumption DEF Made
<1>2. IsFiniteSet(Missing)
  BY DEF PoolsLeft
<1>3. pc[p] = "lookup" => p \in Missing
  BY DEF Missing
<1>4. pc[p] # "lookup" => p \notin Missing
  BY DEF Missing
<1>5. \A q \in Pools : state[q] = "new" => q \notin Made
  BY DEF Made
<1> QED
  BY <1>1, <1>2, <1>3, <1>4, <1>5, FS_CardinalityType, FS_AddElement, FS_RemoveElement

\* selectPool, up to the pool that it creates.
LEMMA MapCallBegins ==
    ASSUME MapInv, NEW p \in Procs,
           (\E a \in Addrs : Schedule(p, a)) \/ ScheduleErr(p)
    PROVE  MapInv'
<1> USE PoolsAssumption DEF MapInv
<1>1. CASE ScheduleErr(p)
  <2>1. UNCHANGED <<pools, state, addr, count, readers, pc, want, pool, clean, close, todo, late>>
    BY <1>1 DEF ScheduleErr
  <2>2. gets < MaxGets /\ gets' = gets + 1
    BY <1>1 DEF ScheduleErr
  <2>3. UNCHANGED <<Made, Missing, Mapped>>
    BY <2>1 DEF Made, Missing, Mapped
  <2>4. Cardinality(Made) \in Nat /\ Cardinality(Missing) \in Nat
    BY LeftAfter
  <2>5. PoolsLeft'
    BY <2>2, <2>3, <2>4 DEF PoolsLeft, MapType
  <2> QED
    BY <2>1, <2>2, <2>3, <2>5 DEF MapType, MapMade, Visits, CloseReachesAll
<1>2. ASSUME NEW a \in Addrs, Schedule(p, a) PROVE MapInv'
  <2>1. /\ UNCHANGED <<pools, state, addr, count, readers, pool, clean, close, todo, late>>
        /\ gets < MaxGets /\ gets' = gets + 1 /\ pc[p] = "idle"
        /\ want' = [want EXCEPT ![p] = a] /\ pc' = [pc EXCEPT ![p] = "lookup"]
    BY <1>2 DEF Schedule
  <2>2. UNCHANGED <<Made, Mapped>> /\ Missing' = Missing \cup {p}
    BY <2>1 DEF Made, Missing, Mapped, MapType
  <2>3. PoolsLeft'
    <3>1. /\ IsFiniteSet(Missing') /\ Cardinality(Missing') = Cardinality(Missing) + 1
          /\ Cardinality(Made) \in Nat /\ Cardinality(Missing) \in Nat
      BY <2>1, <2>2, LeftAfter
    <3>2. gets \in Nat
      BY DEF MapType
    <3> QED
      BY <2>1, <2>2, <3>1, <3>2 DEF PoolsLeft
  <2>4. MapType'
    BY <2>1, <2>2 DEF MapType
  <2> QED
    BY <2>1, <2>2, <2>3, <2>4 DEF MapMade, Visits, CloseReachesAll
<1> QED
  BY <1>1, <1>2

\* Get finds a pool for the address or makes a new one.
LEMMA MapLookup ==
    ASSUME MapInv, NEW p \in Procs, Lookup(p)
    PROVE  MapInv'
<1> USE PoolsAssumption DEF MapInv
<1>1. /\ pc[p] = "lookup" /\ want[p] \in Addrs
      /\ UNCHANGED <<pools, count, readers, want, gets, clean, close, todo, late>>
  BY DEF Lookup, MapType
<1>2. Mapped' = Mapped
  BY <1>1 DEF Mapped
<1>3. CASE pools[want[p]] # None
  <2>1. PICK q \in Made : /\ pool' = [pool EXCEPT ![p] = q] /\ pc' = [pc EXCEPT ![p] = "count"]
                          /\ UNCHANGED <<state, addr>>
    BY <1>1, <1>3 DEF Lookup, MapMade, Mapped
  <2>2. Made' = Made /\ Missing' = Missing \ {p}
    BY <1>1, <2>1 DEF Made, Missing, MapType
  <2>3. PoolsLeft'
    <3>1. /\ IsFiniteSet(Missing') /\ Cardinality(Missing') = Cardinality(Missing) - 1
          /\ Cardinality(Made) \in Nat /\ Cardinality(Missing) \in Nat
      BY <1>1, <2>2, LeftAfter
    <3>2. gets \in Nat
      BY DEF MapType
    <3> QED
      BY <1>1, <2>2, <3>1, <3>2 DEF PoolsLeft
  <2>4. MapType'
    BY <1>1, <2>1, <2>2 DEF MapType, Made
  <2> QED
    BY <1>1, <1>2, <2>1, <2>2, <2>3, <2>4 DEF MapMade, Visits, CloseReachesAll
<1>4. CASE pools[want[p]] = None
  <2>1. PICK q \in Pools : q = Fresh /\ state[q] = "new"
    BY <1>1, FreshLeft
  <2>2. /\ state' = [state EXCEPT ![q] = "open"] /\ addr' = [addr EXCEPT ![q] = want[p]]
        /\ pool' = [pool EXCEPT ![p] = q] /\ pc' = [pc EXCEPT ![p] = "set"]
    BY <1>4, <2>1 DEF Lookup, NewPool
  <2>3. Made' = Made \cup {q} /\ q \notin Made /\ Missing' = Missing \ {p}
    BY <1>1, <2>1, <2>2 DEF Made, Missing, MapType
  <2>4. PoolsLeft'
    <3>1. /\ IsFiniteSet(Missing') /\ Cardinality(Missing') = Cardinality(Missing) - 1
          /\ Cardinality(Made') = Cardinality(Made) + 1
          /\ Cardinality(Made) \in Nat /\ Cardinality(Missing) \in Nat
      BY <1>1, <2>1, <2>3, LeftAfter
    <3>2. gets \in Nat
      BY DEF MapType
    <3> QED
      BY <1>1, <3>1, <3>2 DEF PoolsLeft
  <2>5. MapType'
    BY <1>1, <2>1, <2>2, <2>3 DEF MapType
  <2>6. \A a \in Mapped : pools[a] # q
    BY <2>3 DEF MapMade
  <2> QED
    BY <1>1, <1>2, <2>2, <2>3, <2>4, <2>5, <2>6 DEF MapMade, Visits, CloseReachesAll, MapType, Made
<1> QED
  BY <1>3, <1>4

\* The rest of selectPool.  Set waits until nobody visits the map.
LEMMA MapSet ==
    ASSUME MapInv, NEW p \in Procs, Set(p)
    PROVE  MapInv'
<1> USE PoolsAssumption DEF MapInv
<1>1. PICK q \in Made, a \in Addrs : q = pool[p] /\ a = want[p] /\ addr[q] = a
  BY DEF Set, MapType
<1>2. /\ readers = {} /\ pools' = [pools EXCEPT ![a] = q] /\ pc' = [pc EXCEPT ![p] = "count"]
      /\ late' = IF close = "done" THEN late \cup {q} ELSE late
      /\ UNCHANGED <<state, addr, count, readers, want, pool, gets, clean, close, todo>>
  BY <1>1 DEF Set, NoReaders
<1>3. q \in Pools /\ q # None
  BY <1>1 DEF Made
<1>4. Made' = Made /\ Mapped' = Mapped \cup {a} /\ Missing' = Missing
  BY <1>2, <1>3 DEF Made, Mapped, Missing, MapType, Set
<1>5. pools'[a] = q /\ \A b \in Mapped \ {a} : pools'[b] = pools[b]
  BY <1>2 DEF Mapped, MapType
<1>6. MapType'
  <2>1. pools' \in [Addrs -> Pools \cup {None}]
    BY <1>2, <1>3 DEF MapType
  <2>2. pc' \in [Procs -> {"idle", "lookup", "set", "count", "use"}]
    BY <1>2 DEF MapType
  <2>3. \A r \in Procs : /\ pc'[r] # "idle" => pc[r] # "idle"
                         /\ pc'[r] \in {"set", "count", "use"} => pc[r] \in {"set", "count", "use"}
                         /\ pc'[r] = "set" => pc[r] = "set"
    BY <1>2 DEF MapType, Set
  <2> QED
    BY <1>2, <1>4, <2>1, <2>2, <2>3 DEF MapType
<1>7. PoolsLeft' /\ MapMade'
  BY <1>1, <1>2, <1>4, <1>5 DEF PoolsLeft, MapMade
<1>8. Visits' /\ CloseReachesAll'
  BY <1>2, <1>4, <1>5 DEF Visits, CloseReachesAll
<1> QED
  BY <1>6, <1>7, <1>8

\* Get counts its use of the pool, and uses it.
LEMMA MapCounted ==
    ASSUME MapInv, NEW p \in Procs, Count(p) \/ Use(p)
    PROVE  MapInv'
<1> USE PoolsAssumption DEF MapInv
<1>1. /\ UNCHANGED <<pools, state, addr, readers, want, gets, clean, close, todo, late>>
      /\ pc[p] \in {"count", "use"}
  BY DEF Count, Use
<1>2. UNCHANGED <<Made, Mapped, Missing>>
  BY <1>1 DEF Count, Use, Made, Mapped, Missing, MapType
<1>3. count' \in [Pools -> Nat]
  BY DEF Count, Use, MapType, Made
<1>4. MapType'
  BY <1>1, <1>2, <1>3 DEF Count, Use, MapType
<1> QED
  BY <1>1, <1>2, <1>4 DEF PoolsLeft, MapMade, Visits, CloseReachesAll

\* Whoever closes a pool that was made, whether the cleaner or Close.
LEMMA MadeStays ==
    ASSUME MapType, NEW q \in Made, ClosePool(q)
    PROVE  /\ state' \in [Pools -> {"new", "open", "closed"}] /\ Made' = Made
           /\ state'[q] = "closed" /\ \A r \in Pools \ {q} : state'[r] = state[r]
  BY DEF MapType, Made, ClosePool

\* The cleaner looks at one pool: it stays, or is closed and deleted.
LEMMA MapCleanStep ==
    ASSUME MapInv, Tick \/ CleanStep \/ CleanExit
    PROVE  MapInv'
<1> USE PoolsAssumption DEF MapInv
<1>0. UNCHANGED <<addr, getters, close, todo, late>>
  BY DEF Tick, CleanStep, CleanExit, Load, Delete, Store, CleanClose, EachDone, DeleteDone
<1> Missing' = Missing
  BY <1>0 DEF Missing, getters
<1> DEFINE type == [step : {"select", "each", "store", "close", "delete", "exited"},
                    visit : SUBSET Addrs, at : Pools \cup {None}, delete : SUBSET Addrs]
<1>1. CASE Tick \/ EachDone \/ DeleteDone \/ CleanExit
  <2>1. UNCHANGED <<pools, state, count, Made, Mapped>>
    BY <1>1 DEF Tick, EachDone, DeleteDone, CleanExit, Made, Mapped
  <2>2. clean' \in type
    <3>1. Tick => clean' \in type
      <4>1. Mapped \in SUBSET Addrs /\ {} \in SUBSET Addrs
        BY DEF Mapped
      <4> QED
        BY <4>1 DEF Tick, MapType
    <3>2. EachDone \/ DeleteDone \/ CleanExit => clean' \in type
      BY DEF EachDone, DeleteDone, CleanExit, MapType
    <3> QED
      BY <1>1, <3>1, <3>2
  <2>3. MapType'
    BY <1>0, <2>1, <2>2 DEF MapType, getters
  <2>4. Visits'
    <3>1. CASE Tick
      <4>1. clean'.step = "each" /\ clean'.visit = Mapped /\ readers' = readers \cup {"clean"}
        BY <3>1 DEF Tick, MapType
      <4> QED
        BY <1>0, <2>1, <4>1 DEF Visits
    <3>2. CASE EachDone \/ DeleteDone \/ CleanExit
      <4>1. clean'.step \in {"delete", "select", "exited"} /\ readers \ {"clean"} \subseteq readers'
        BY <3>2 DEF EachDone, DeleteDone, CleanExit, MapType
      <4> QED
        BY <1>0, <2>1, <4>1 DEF Visits
    <3> QED
      BY <1>1, <3>1, <3>2
  <2> QED
    BY <1>0, <2>1, <2>3, <2>4 DEF PoolsLeft, MapMade, CloseReachesAll, getters
<1>2. ASSUME NEW a \in Addrs, Load(a) PROVE MapInv'
  <2>1. UNCHANGED <<pools, state, count, readers, Made, Mapped>> /\ a \in Mapped /\ clean.step = "each"
    BY <1>2 DEF Load, Made, Mapped, Visits, CleanAt
  <2>2. pools[a] \in Made /\ pools[a] \in Pools
    BY <2>1 DEF MapMade, Made
  <2>3. /\ clean' \in type /\ clean'.step \in {"store", "close"} /\ clean'.at = pools[a]
        /\ clean'.visit = clean.visit \ {a}
    BY <1>2, <2>2 DEF Load, MapType
  <2>4. MapType'
    BY <1>0, <2>1, <2>3 DEF MapType, getters
  <2>5. Visits'
    BY <1>0, <2>1, <2>2, <2>3 DEF Visits
  <2> QED
    BY <1>0, <2>1, <2>4, <2>5 DEF PoolsLeft, MapMade, CloseReachesAll, getters
<1>3. CASE Store
  <2>1. UNCHANGED <<pools, state, readers, Made, Mapped>> /\ clean.step = "store"
    BY <1>3 DEF Store, Made, Mapped, CleanAt
  <2>2. count' \in [Pools -> Nat]
    BY <1>3 DEF Store, MapType
  <2>3. clean' \in type /\ clean'.step = "each" /\ clean'.visit = clean.visit
    BY <1>3 DEF Store, MapType
  <2>4. MapType'
    BY <1>0, <2>1, <2>2, <2>3 DEF MapType, getters
  <2>5. Visits'
    BY <1>0, <2>1, <2>3 DEF Visits
  <2> QED
    BY <1>0, <2>1, <2>4, <2>5 DEF PoolsLeft, MapMade, CloseReachesAll, getters
<1>4. CASE CleanClose
  <2>1. PICK q \in Made : q = clean.at
    BY <1>4 DEF CleanClose, Visits, CleanAt
  <2>2. UNCHANGED <<pools, count, readers, Mapped>> /\ clean.step = "close" /\ ClosePool(q)
    BY <1>4, <2>1 DEF CleanClose, Mapped, CleanAt
  <2>3. /\ state' \in [Pools -> {"new", "open", "closed"}] /\ Made' = Made
        /\ state'[q] = "closed" /\ \A r \in Pools \ {q} : state'[r] = state[r]
    BY <2>2, MadeStays
  <2>4. clean' \in type /\ clean'.step = "each" /\ clean'.visit = clean.visit
    BY <1>4 DEF CleanClose, MapType
  <2>5. MapType'
    BY <1>0, <2>2, <2>3, <2>4 DEF MapType, getters
  <2>6. \A a \in Mapped : pools[a] \in Pools
    BY DEF MapMade, Made
  <2>7. Visits' /\ CloseReachesAll'
    BY <1>0, <2>2, <2>3, <2>4, <2>6 DEF Visits, CloseReachesAll
  <2> QED
    BY <1>0, <2>2, <2>3, <2>5, <2>7 DEF PoolsLeft, MapMade, getters
<1>5. ASSUME NEW a \in Addrs, Delete(a) PROVE MapInv'
  <2>1. /\ UNCHANGED <<state, count, readers, Made>> /\ clean.step = "delete" /\ readers = {}
        /\ pools' = [pools EXCEPT ![a] = None]
    BY <1>5 DEF Delete, Made, CleanAt, NoReaders
  <2>2. Mapped' = Mapped \ {a} /\ \A b \in Mapped' : pools'[b] = pools[b]
    BY <2>1 DEF Mapped, MapType
  <2>3. clean' \in type /\ clean'.step = "delete"
    BY <1>5, <2>1 DEF Delete, MapType
  <2>4. MapType'
    BY <1>0, <2>1, <2>3 DEF MapType, getters
  <2>5. Visits'
    BY <1>0, <2>1, <2>3 DEF Visits
  <2> QED
    BY <1>0, <2>1, <2>2, <2>4, <2>5 DEF PoolsLeft, MapMade, CloseReachesAll, getters
<1> QED
  BY <1>1, <1>2, <1>3, <1>4, <1>5 DEF CleanStep

\* Close and the pools that ForEach has not reached.
LEMMA MapCloseStep ==
    ASSUME MapInv, CloseSignal \/ CloseStep
    PROVE  MapInv'
<1> USE PoolsAssumption DEF MapInv
<1>0. UNCHANGED <<pools, addr, count, getters, clean, late, Mapped, Missing>>
  BY DEF CloseSignal, CloseStep, CloseLock, CloseEach, CloseReturn, Mapped, Missing, getters
<1>1. CASE CloseSignal \/ CloseLock \/ CloseReturn
  <2>1. UNCHANGED <<state, Made>>
    BY <1>1 DEF CloseSignal, CloseLock, CloseReturn, Made
  <2>2. close' \in {"no", "signalled", "each", "done"} /\ todo' \subseteq Addrs
    BY <1>1 DEF CloseSignal, CloseLock, CloseReturn, MapType, Mapped
  <2>3. MapType'
    BY <1>0, <2>1, <2>2 DEF MapType, getters
  <2>4. Visits' /\ CloseReachesAll'
    BY <1>0, <1>1, <2>1 DEF CloseSignal, CloseLock, CloseReturn, Visits, CloseReachesAll
  <2> QED
    BY <1>0, <2>1, <2>3, <2>4 DEF PoolsLeft, MapMade, getters
<1>2. ASSUME NEW a \in Addrs, CloseEach(a) PROVE MapInv'
  <2>1. PICK q \in Made : q = pools[a] /\ a \in Mapped
    BY <1>2 DEF CloseEach, Visits, MapMade
  <2>2. close = "each" /\ UNCHANGED <<close, readers>> /\ todo' = todo \ {a} /\ ClosePool(q)
    BY <1>2, <2>1 DEF CloseEach
  <2>3. /\ state' \in [Pools -> {"new", "open", "closed"}] /\ Made' = Made
        /\ state'[q] = "closed" /\ \A r \in Pools \ {q} : state'[r] = state[r]
    BY <2>2, MadeStays
  <2>4. MapType'
    BY <1>0, <2>2, <2>3 DEF MapType, getters
  <2>5. \A b \in Mapped : pools[b] \in Pools
    BY DEF MapMade, Made
  <2>6. Visits' /\ CloseReachesAll'
    BY <1>0, <2>1, <2>2, <2>3, <2>5 DEF Visits, CloseReachesAll
  <2> QED
    BY <1>0, <2>3, <2>4, <2>6 DEF PoolsLeft, MapMade, getters
<1> QED
  BY <1>1, <1>2 DEF CloseStep

\* What callers do to the map and what ForEach relies on.
THEOREM MapInvariant == Spec => []MapInv
<1>1. Init => MapInv
  <2> SUFFICES ASSUME Init PROVE MapInv
    OBVIOUS
  <2>1. Made = {} /\ Missing = {} /\ Mapped = {}
    BY DEF Init, Made, Missing, Mapped
  <2>2. PoolsLeft
    BY <2>1, FS_EmptySet DEF Init, PoolsLeft
  <2>3. MapType
    BY PoolsAssumption DEF Init, MapType
  <2> QED
    BY <2>1, <2>2, <2>3 DEF Init, MapInv, MapMade, Visits, CloseReachesAll
<1>2. MapInv /\ [Next]_vars => MapInv'
  <2>1. MapInv /\ UNCHANGED vars => MapInv'
    BY DEF MapInv, MapType, PoolsLeft, MapMade, Visits, CloseReachesAll, Made, Missing, Mapped, vars, getters
  <2> QED
    BY <2>1, MapCallBegins, MapLookup, MapSet, MapCounted, MapCleanStep, MapCloseStep
       DEF Next, GetStep
<1> QED
  BY <1>1, <1>2, PTL DEF Spec

\* When Close has returned, the map holds no open pool but those that calls
\* of Get put there afterwards, however many callers there are.
THEOREM ClosesAll == Spec => []CloseReachesAll
<1>1. MapInv => CloseReachesAll
  BY DEF MapInv
<1> QED
  BY <1>1, MapInvariant, PTL

-----------------------------------------------------------------------------
(* Which open pools nobody has to close, with any number of callers.        *)

\* Callers that are about to set a pool for one address have raced, and so has
\* a caller about to set a pool where one is mapped; what the cleaner is about
\* to delete is closed, or was set by one that raced.
RaceInv ==
    /\ \A p, r \in Procs : pc[p] = "set" /\ pc[r] = "set" /\ p # r /\ want[p] = want[r] => pool[p] \in raced
    /\ \A p \in Procs : pc[p] = "set" /\ want[p] \in Mapped => pool[p] \in raced /\ pools[want[p]] \in raced
    /\ \A a \in clean.delete :
           /\ a \in Mapped
           /\ \/ state[pools[a]] = "closed" \/ pools[a] \in raced
              \/ clean.step = "close" /\ clean.at = pools[a]
    /\ clean.step = "close" => \E a \in clean.delete : clean.at = pools[a]
    /\ NoOrphan

\* A step that changes neither the map nor the pools, nor what is about to be set.
LEMMA RaceStays ==
    ASSUME RaceInv, UNCHANGED <<pools, state, addr, want, raced, clean>>,
           \A r \in Procs : pc'[r] = "set" => pc[r] = "set" /\ pool'[r] = pool[r],
           \A r \in Procs : pc[r] = "set" => pc'[r] = "set" /\ pool'[r] = pool[r]
    PROVE  RaceInv'
<1>1. Mapped' = Mapped
  BY DEF Mapped
<1>2. NoOrphan'
  BY DEF RaceInv, NoOrphan
<1> QED
  BY <1>1, <1>2 DEF RaceInv

\* A new pool races with those that are on their way to its address.
LEMMA RaceNew ==
    ASSUME MapInv, RaceInv, NEW p \in Procs, Lookup(p), pools[want[p]] = None
    PROVE  RaceInv'
<1> USE PoolsAssumption DEF MapInv
<1>1. PICK q \in Pools : q = Fresh /\ state[q] = "new"
  BY FreshLeft DEF Lookup
<1>2. /\ state' = [state EXCEPT ![q] = "open"] /\ addr' = [addr EXCEPT ![q] = want[p]]
      /\ pool' = [pool EXCEPT ![p] = q] /\ pc' = [pc EXCEPT ![p] = "set"]
      /\ raced' = IF Rivals(p) = {} THEN raced ELSE raced \cup {q} \cup {pool[r] : r \in Rivals(p)}
      /\ UNCHANGED <<pools, want, clean, Mapped>> /\ pc[p] = "lookup"
  BY <1>1 DEF Lookup, NewPool, Mapped
<1>3. \A a \in Mapped : pools[a] # q
  BY <1>1 DEF MapMade, Made
<1>4. /\ pc'[p] = "set" /\ pool'[p] = q /\ state'[q] = "open"
      /\ \A r \in Procs \ {p} : pc'[r] = pc[r] /\ pool'[r] = pool[r]
      /\ \A r \in Pools \ {q} : state'[r] = state[r] /\ addr'[r] = addr[r]
  BY <1>2 DEF MapType
<1>5. raced \subseteq raced'
  BY <1>2
<1>6. ASSUME NEW r \in Procs, r # p, pc[r] = "set", want[r] = want[p] PROVE q \in raced' /\ pool[r] \in raced'
  <2>1. r \in Rivals(p)
    BY <1>6 DEF Rivals
  <2> QED
    BY <2>1, <1>2
<1>7. NoOrphan'
  BY <1>2, <1>4, <1>5 DEF RaceInv, NoOrphan
<1>8. \A a \in Mapped : state'[pools[a]] = state[pools[a]]
  BY <1>3, <1>4 DEF MapMade, Made
<1>9. \A r, t \in Procs : pc'[r] = "set" /\ pc'[t] = "set" /\ r # t /\ want[r] = want[t] => pool'[r] \in raced'
  <2> SUFFICES ASSUME NEW r \in Procs, NEW t \in Procs,
                      pc'[r] = "set", pc'[t] = "set", r # t, want[r] = want[t]
               PROVE  pool'[r] \in raced'
    OBVIOUS
  <2>1. CASE r = p
    BY <2>1, <1>4, <1>6
  <2>2. CASE t = p
    BY <2>2, <1>4, <1>6
  <2>3. CASE r # p /\ t # p
    BY <2>3, <1>4, <1>5 DEF RaceInv
  <2> QED
    BY <2>1, <2>2, <2>3
<1>10. want[p] \notin Mapped
  BY DEF Mapped
<1>11. \A r \in Procs : pc'[r] = "set" /\ want[r] \in Mapped => pool'[r] \in raced' /\ pools[want[r]] \in raced'
  BY <1>4, <1>5, <1>10 DEF RaceInv
<1>12. /\ \A a \in clean.delete :
              /\ a \in Mapped
              /\ \/ state'[pools[a]] = "closed" \/ pools[a] \in raced'
                 \/ clean.step = "close" /\ clean.at = pools[a]
       /\ clean.step = "close" => \E a \in clean.delete : clean.at = pools[a]
  BY <1>5, <1>8 DEF RaceInv
<1> QED
  BY <1>2, <1>7, <1>9, <1>11, <1>12 DEF RaceInv

\* Where a pool is set, no other open one was mapped, or both had raced.
LEMMA RaceSet ==
    ASSUME MapInv, RaceInv, NEW p \in Procs, Set(p)
    PROVE  RaceInv'
<1> USE PoolsAssumption DEF MapInv
<1>1. PICK q \in Pools, a \in Addrs : q = pool[p] /\ a = want[p] /\ addr[q] = a
  BY DEF Set, MapType, Made
<1>2. /\ readers = {} /\ pools' = [pools EXCEPT ![a] = q] /\ pc' = [pc EXCEPT ![p] = "count"]
      /\ UNCHANGED <<state, addr, clean, want, pool, raced>> /\ pc[p] = "set"
  BY <1>1 DEF Set, NoReaders
<1>3. pools'[a] = q /\ \A b \in Addrs \ {a} : pools'[b] = pools[b]
  BY <1>2 DEF MapType
<1>4. Mapped' = Mapped \cup {a} /\ a \in Addrs
  BY <1>1, <1>2, <1>3 DEF Mapped
<1>5. pc'[p] # "set" /\ \A r \in Procs \ {p} : pc'[r] = pc[r]
  BY <1>2 DEF MapType
<1>6. a \in Mapped => q \in raced /\ pools[a] \in raced
  BY <1>1, <1>2 DEF RaceInv
<1>7. NoOrphan'
  <2> SUFFICES ASSUME NEW r \in Pools, state[r] = "open"
               PROVE  pools'[addr[r]] = r \/ (\E t \in Procs : pc'[t] = "set" /\ pool[t] = r) \/ r \in raced
    BY <1>2 DEF NoOrphan
  <2>1. CASE r = q
    BY <2>1, <1>1, <1>3
  <2>2. CASE r # q /\ pools[addr[r]] = r
    <3>1. addr[r] \in Addrs \cup {None}
      BY DEF MapType
    <3>2. CASE addr[r] = a
      BY <2>2, <3>2, <1>1, <1>6 DEF Mapped
    <3>3. CASE addr[r] # a
      BY <2>2, <3>3, <1>2
    <3> QED
      BY <3>2, <3>3
  <2>3. CASE r # q /\ \E t \in Procs : pc[t] = "set" /\ pool[t] = r
    BY <2>3, <1>1, <1>5
  <2> QED
    BY <2>1, <2>2, <2>3 DEF RaceInv, NoOrphan
<1>8. clean.step # "close"
  BY <1>2 DEF Visits
<1>9. \A r \in Procs : pc'[r] = "set" /\ want[r] \in Mapped' => pool[r] \in raced /\ pools'[want[r]] \in raced
  <2> SUFFICES ASSUME NEW r \in Procs, pc'[r] = "set", want[r] \in Mapped'
               PROVE  pool[r] \in raced /\ pools'[want[r]] \in raced
    OBVIOUS
  <2>1. r # p /\ pc[r] = "set"
    BY <1>5
  <2>2. CASE want[r] = a
    BY <2>1, <2>2, <1>1, <1>2, <1>3 DEF RaceInv
  <2>3. CASE want[r] # a
    <3>1. want[r] \in Mapped /\ want[r] \in Addrs \ {a}
      BY <2>3, <1>4 DEF Mapped
    <3> QED
      BY <2>1, <3>1, <1>3 DEF RaceInv
  <2> QED
    BY <2>2, <2>3
<1>10. \A b \in clean.delete : b \in Mapped' /\ (state[pools'[b]] = "closed" \/ pools'[b] \in raced)
  <2> SUFFICES ASSUME NEW b \in clean.delete
               PROVE  b \in Mapped' /\ (state[pools'[b]] = "closed" \/ pools'[b] \in raced)
    OBVIOUS
  <2>1. b \in Mapped /\ (state[pools[b]] = "closed" \/ pools[b] \in raced)
    BY <1>8 DEF RaceInv
  <2>2. CASE b = a
    BY <2>1, <2>2, <1>3, <1>4, <1>6
  <2>3. CASE b # a
    BY <2>1, <2>3, <1>3, <1>4 DEF Mapped
  <2> QED
    BY <2>2, <2>3
<1>11. \A r, t \in Procs : pc'[r] = "set" /\ pc'[t] = "set" /\ r # t /\ want[r] = want[t] => pool[r] \in raced
  BY <1>5 DEF RaceInv
<1> QED
  BY <1>2, <1>7, <1>8, <1>9, <1>10, <1>11 DEF RaceInv

\* The steps of callers.
LEMMA RaceGet ==
    ASSUME MapInv, RaceInv, NEW p \in Procs,
           (\E a \in Addrs : Schedule(p, a)) \/ ScheduleErr(p) \/ GetStep(p)
    PROVE  RaceInv'
<1> USE PoolsAssumption DEF MapInv
<1>1. ASSUME NEW a \in Addrs, Schedule(p, a) PROVE RaceInv'
  <2>1. /\ UNCHANGED <<pools, state, addr, clean, raced, pool>>
        /\ pc[p] = "idle" /\ pc' = [pc EXCEPT ![p] = "lookup"] /\ want' = [want EXCEPT ![p] = a]
    BY <1>1 DEF Schedule
  <2>2. /\ pc'[p] # "set" /\ Mapped' = Mapped
        /\ \A r \in Procs \ {p} : pc'[r] = pc[r] /\ want'[r] = want[r]
    BY <2>1 DEF MapType, Mapped
  <2>3. NoOrphan'
    BY <2>1, <2>2 DEF RaceInv, NoOrphan
  <2> QED
    BY <2>1, <2>2, <2>3 DEF RaceInv
<1>2. CASE ScheduleErr(p)
  BY <1>2, RaceStays DEF ScheduleErr
<1>3. CASE (Lookup(p) /\ pools[want[p]] # None) \/ Count(p) \/ Use(p)
  <2>1. UNCHANGED <<pools, state, addr, want, raced, clean>>
    BY <1>3 DEF Lookup, Count, Use
  <2>2. /\ pc[p] # "set" /\ pc'[p] # "set"
        /\ \A r \in Procs \ {p} : pc'[r] = pc[r] /\ pool'[r] = pool[r]
    BY <1>3 DEF Lookup, Count, Use, MapType
  <2> QED
    BY <2>1, <2>2, RaceStays
<1>4. CASE Lookup(p) /\ pools[want[p]] = None
  BY <1>4, RaceNew
<1>5. CASE Set(p)
  BY <1>5, RaceSet
<1> QED
  BY <1>1, <1>2, <1>3, <1>4, <1>5 DEF GetStep

\* A pool is closed: by the cleaner, which deletes it next, or by Close.
LEMMA RaceClose ==
    ASSUME MapInv, RaceInv, NEW a \in Mapped, ClosePool(pools[a]),
           UNCHANGED <<pools, addr, getters, raced>>,
           clean'.delete = clean.delete,
           clean'.step # "close" \/ UNCHANGED clean,
           clean.step = "close" => UNCHANGED clean \/ clean.at = pools[a]
    PROVE  RaceInv'
<1> USE PoolsAssumption DEF MapInv
<1>1. PICK q \in Made : q = pools[a]
  BY DEF MapMade
<1>2. state'[q] = "closed" /\ \A r \in Pools \ {q} : state'[r] = state[r]
  BY <1>1, MadeStays
<1>3. Mapped' = Mapped /\ \A b \in Mapped : pools[b] \in Pools
  BY DEF Mapped, MapMade, Made
<1>4. NoOrphan'
  BY <1>1, <1>2 DEF RaceInv, NoOrphan, getters, Made
<1>5. \A b \in clean.delete :
          /\ b \in Mapped
          /\ \/ state'[pools[b]] = "closed" \/ pools[b] \in raced
             \/ clean'.step = "close" /\ clean'.at = pools[b]
  BY <1>1, <1>2, <1>3 DEF RaceInv
<1>6. clean'.step = "close" => \E b \in clean.delete : clean'.at = pools[b]
  BY DEF RaceInv
<1> QED
  BY <1>3, <1>4, <1>5, <1>6 DEF RaceInv, getters

\* The cleaner closes what it deletes, unless a race puts another pool there.
LEMMA RaceClean ==
    ASSUME MapInv, RaceInv, Tick \/ CleanStep \/ CleanExit
    PROVE  RaceInv'
<1> USE PoolsAssumption DEF MapInv
<1>0. UNCHANGED <<addr, getters, raced>>
  BY DEF Tick, CleanStep, CleanExit, Load, Delete, Store, CleanClose, EachDone, DeleteDone
<1>1. CASE Tick \/ EachDone \/ DeleteDone \/ CleanExit \/ Store
  <2>1. UNCHANGED <<pools, state, Mapped>> /\ clean.step # "close"
    BY <1>1 DEF Tick, EachDone, DeleteDone, CleanExit, Store, Mapped, CleanAt
  <2>2. clean'.step # "close" /\ clean'.delete \subseteq clean.delete
    BY <1>1, ZenonT(30) DEF Tick, EachDone, DeleteDone, CleanExit, Store, MapType
  <2> QED
    BY <1>0, <2>1, <2>2 DEF RaceInv, NoOrphan, getters
<1>2. ASSUME NEW a \in Addrs, Load(a) PROVE RaceInv'
  <2>1. UNCHANGED <<pools, state, Mapped>> /\ clean.step = "each" /\ a \in Mapped
    BY <1>2 DEF Load, Mapped, CleanAt, Visits
  <2>2. \/ clean'.step = "store" /\ clean'.delete = clean.delete
        \/ /\ clean'.step = "close" /\ clean'.delete = clean.delete \cup {a}
           /\ clean'.at = pools[a]
    BY <1>2 DEF Load, MapType
  <2> QED
    BY <1>0, <2>1, <2>2 DEF RaceInv, NoOrphan, getters
<1>3. CASE CleanClose
  <2>1. PICK a \in Mapped : clean.at = pools[a]
    BY <1>3 DEF CleanClose, RaceInv, CleanAt
  <2>2. UNCHANGED pools /\ ClosePool(pools[a])
    BY <1>3, <2>1 DEF CleanClose
  <2>3. clean'.step = "each" /\ clean'.delete = clean.delete
    BY <1>3 DEF CleanClose, MapType
  <2> QED
    BY <1>0, <2>1, <2>2, <2>3, RaceClose
<1>4. ASSUME NEW a \in Addrs, Delete(a) PROVE RaceInv'
  <2>1. /\ UNCHANGED state /\ clean.step = "delete" /\ a \in clean.delete
        /\ pools' = [pools EXCEPT ![a] = None]
    BY <1>4 DEF Delete, CleanAt
  <2>2. Mapped' = Mapped \ {a} /\ pools'[a] = None /\ \A b \in Addrs \ {a} : pools'[b] = pools[b]
    BY <2>1 DEF Mapped, MapType
  <2>3. clean'.step = "delete" /\ clean'.delete = clean.delete \ {a}
    BY <1>4, <2>1 DEF Delete, MapType
  <2>4. a \in Mapped /\ (state[pools[a]] = "closed" \/ pools[a] \in raced)
    BY <2>1 DEF RaceInv
  <2>5. NoOrphan'
    <3> SUFFICES ASSUME NEW q \in Pools, state[q] = "open", q \notin raced
                 PROVE  pools'[addr[q]] = q \/ \E p \in Procs : pc[p] = "set" /\ pool[p] = q
      BY <1>0, <2>1 DEF NoOrphan, getters
    <3>1. pools[addr[q]] = q \/ \E p \in Procs : pc[p] = "set" /\ pool[p] = q
      BY DEF RaceInv, NoOrphan
    <3>2. pools[addr[q]] = q => addr[q] # a
      BY <2>4
    <3> QED
      BY <2>1, <3>1, <3>2 DEF MapType
  <2>6. clean'.delete \subseteq Addrs /\ Mapped \subseteq Addrs
    BY <2>3 DEF MapType, Mapped
  <2>7. \A b \in Mapped' : b \in Mapped /\ pools'[b] = pools[b]
    BY <2>2, <2>6
  <2>8. \A b \in clean'.delete : b \in Mapped' /\ (state[pools'[b]] = "closed" \/ pools'[b] \in raced)
    BY <2>1, <2>2, <2>3, <2>7 DEF RaceInv
  <2>9. \A p \in Procs : pc[p] = "set" /\ want[p] \in Mapped' => pool[p] \in raced /\ pools'[want[p]] \in raced
    BY <2>7 DEF RaceInv
  <2>10. \A p, r \in Procs : pc[p] = "set" /\ pc[r] = "set" /\ p # r /\ want[p] = want[r] => pool[p] \in raced
    BY DEF RaceInv
  <2> QED
    BY <1>0, <2>1, <2>3, <2>5, <2>8, <2>9, <2>10 DEF RaceInv, getters
<1> QED
  BY <1>1, <1>2, <1>3, <1>4 DEF CleanStep

\* Only pools of callers that raced for an address are lost.
THEOREM RaceInvariant == Spec => []RaceInv
<1>1. Init => RaceInv
  BY DEF Init, RaceInv, NoOrphan
<1>2. MapInv /\ RaceInv /\ [Next]_vars => RaceInv'
  <2> SUFFICES ASSUME MapInv, RaceInv, [Next]_vars PROVE RaceInv'
    OBVIOUS
  <2>1. CASE UNCHANGED vars
    BY <2>1, RaceStays DEF vars, getters
  <2>2. CASE CloseSignal \/ CloseStep
    <3>1. CASE CloseSignal \/ CloseLock \/ CloseReturn
      BY <3>1, RaceStays DEF CloseSignal, CloseLock, CloseReturn, getters
    <3>2. ASSUME NEW a \in Addrs, CloseEach(a) PROVE RaceInv'
      <4>1. a \in Mapped /\ ClosePool(pools[a]) /\ UNCHANGED <<pools, addr, getters, clean, raced>>
        BY <3>2 DEF CloseEach, MapInv, Visits
      <4> QED
        BY <4>1, RaceClose
    <3> QED
      BY <2>2, <3>1, <3>2 DEF CloseStep
  <2>3. CASE Tick \/ CleanStep \/ CleanExit
    BY <2>3, RaceClean
  <2>4. ASSUME NEW p \in Procs, (\E a \in Addrs : Schedule(p, a)) \/ ScheduleErr(p) \/ GetStep(p)
        PROVE  RaceInv'
    BY <2>4, RaceGet
  <2> QED
    BY <2>1, <2>2, <2>3, <2>4 DEF Next
<1> QED
  BY <1>1, <1>2, MapInvariant, PTL DEF Spec

\* An open pool is in the map under its address, or on its way there, unless
\* two callers that missed one address raced to set it: neither the cleaner,
\* which deletes addresses when it has left ForEach, nor Close loses another.
THEOREM NoneOrphaned == Spec => []NoOrphan
<1>1. RaceInv => NoOrphan
  BY DEF RaceInv
<1> QED
  BY <1>1, RaceInvariant, PTL

-----------------------------------------------------------------------------
(* The limiter.                                                             *)

LimitType ==
    /\ time \in Nat /\ start \in Nat /\ limit \in Nat /\ period \in Nat
    /\ used \in Nat /\ last \in Nat /\ allowed \in Nat
    /\ seen \in [Callers -> SUBSET Nat]

\* n whole periods have passed since the limiter was made and before the one
\* that runs began, and each let no more than limit operations through.
Passed(n) == start + n * period <= last /\ allowed <= limit * n + used

LimitInv ==
    /\ LimitType
    /\ used <= limit /\ last <= time
    /\ \A p \in Callers : \A now \in seen[p] : now <= time
    /\ period = 0 => used = 0 /\ allowed = 0 /\ \A p \in Callers : seen[p] = {}
    /\ period # 0 => \E n \in Nat : Passed(n)

\* A quotient is the number of times that the divisor fits.
LEMMA DivFits ==
    ASSUME NEW a \in Nat, NEW b \in Nat \ {0}
    PROVE  a \div b \in Nat /\ \A n \in Nat : n * b <= a => n <= a \div b
<1> DEFINE q == a \div b
<1>1. q \in Int /\ q * b <= a /\ a < (q + 1) * b
  OBVIOUS
<1>2. q \in Nat
  BY <1>1
<1>3. ASSUME NEW n \in Nat, n * b <= a, q + 1 <= n PROVE FALSE
  <2>1. (q + 1) * b <= n * b
    BY <1>2, <1>3
  <2> QED
    BY <1>1, <1>2, <1>3, <2>1
<1> QED
  BY <1>2, <1>3

\* New makes a limiter: no period has passed and nothing was let through.
LEMMA LimitNew ==
    ASSUME LimitInv, NEW l \in Limits, NEW d \in Durations, New(l, d)
    PROVE  LimitInv'
<1> USE LimitAssumption DEF LimitInv, LimitType
<1>1. l \in Nat /\ d \in Nat \ {0} /\ Second * l \in Nat
  OBVIOUS
<1>2. (Second * l) \div d \in Nat
  BY <1>1, DivFits
<1>3. limit' \in Nat /\ period' \in Nat \ {0}
  BY <1>1, <1>2 DEF New
<1>4. /\ last' = time /\ start' = time /\ used = 0 /\ allowed = 0
      /\ UNCHANGED <<time, used, seen, allowed>>
  BY DEF New
<1>5. PICK l1 \in Nat, d1 \in Nat \ {0} : l1 = limit' /\ d1 = period'
  BY <1>3
<1>6. Passed(0)'
  <2>1. 0 * d1 = 0 /\ l1 * 0 = 0
    OBVIOUS
  <2>2. time + 0 * d1 <= time /\ 0 <= l1 * 0 + 0
    BY <2>1
  <2>3. start' + 0 * period' <= last' /\ allowed' <= limit' * 0 + used'
    BY <1>4, <1>5, <2>2
  <2> QED
    BY <2>3 DEF Passed
<1> QED
  BY <1>3, <1>4, <1>6

\* Time passes, or a goroutine reads the clock.
LEMMA LimitClock ==
    ASSUME LimitInv, LimitTick \/ \E p \in Callers : ReadNow(p)
    PROVE  LimitInv'
<1> USE DEF LimitInv, LimitType
<1>1. period # 0 /\ UNCHANGED <<start, limit, period, used, last, allowed>>
  BY DEF LimitTick, ReadNow
<1>2. \A n \in Nat : Passed(n)' <=> Passed(n)
  BY <1>1 DEF Passed
<1>3. CASE LimitTick
  BY <1>1, <1>2, <1>3 DEF LimitTick
<1>4. CASE \E p \in Callers : ReadNow(p)
  BY <1>1, <1>2, <1>4 DEF ReadNow
<1> QED
  BY <1>3, <1>4

\* An operation within the period counts in it; one after it begins the next.
LEMMA LimitAllow ==
    ASSUME LimitInv, NEW p \in Callers, Allow(p)
    PROVE  LimitInv'
<1> USE DEF LimitInv, LimitType
<1>1. PICK now \in seen[p] :
          /\ last' = IF over(now) THEN now ELSE last
          /\ used' = IF (IF over(now) THEN 0 ELSE used) < limit
                     THEN (IF over(now) THEN 0 ELSE used) + 1 ELSE (IF over(now) THEN 0 ELSE used)
          /\ allowed' = IF (IF over(now) THEN 0 ELSE used) < limit THEN allowed + 1 ELSE allowed
          /\ seen' = [seen EXCEPT ![p] = {}]
          /\ UNCHANGED <<time, start, limit, period>>
  BY DEF Allow
<1>2. now \in Nat /\ now <= time /\ period # 0
  OBVIOUS
<1>3. PICK n \in Nat : Passed(n)
  BY <1>2
<1>4. limit * n \in Nat /\ n * period \in Nat
  OBVIOUS
<1>5. CASE over(now)
  <2>1. last' = now /\ now >= last + period
    BY <1>1, <1>5 DEF over
  <2>2. \/ limit # 0 /\ used' = 1 /\ allowed' = allowed + 1
        \/ limit = 0 /\ used' = 0 /\ allowed' = allowed
    BY <1>1, <1>5
  <2>3. (n + 1) * period = n * period + period /\ limit * (n + 1) = limit * n + limit
    OBVIOUS
  <2>4. Passed(n + 1)'
    BY <1>1, <1>2, <1>3, <1>4, <2>1, <2>2, <2>3 DEF Passed
  <2>5. used' \in Nat /\ used' <= limit /\ allowed' \in Nat
    BY <2>2
  <2> QED
    BY <1>1, <1>2, <2>1, <2>4, <2>5
<1>6. CASE ~over(now)
  <2>1. last' = last /\ used' \in Nat /\ used' <= limit /\ allowed' \in Nat
    BY <1>1, <1>6
  <2>2. allowed' - used' = allowed - used
    BY <1>1, <1>6
  <2>3. Passed(n)'
    BY <1>1, <1>3, <1>4, <2>1, <2>2 DEF Passed
  <2> QED
    BY <1>1, <1>2, <2>1, <2>3
<1> QED
  BY <1>5, <1>6

\* No period lets through more than the limit.
THEOREM LimitInvariant == LimitSpec => []LimitInv
<1>1. LimitInit => LimitInv
  BY DEF LimitInit, LimitInv, LimitType
<1>2. LimitInv /\ [LimitNext]_limitVars => LimitInv'
  <2>1. LimitInv /\ UNCHANGED limitVars => LimitInv'
    BY DEF LimitInv, LimitType, Passed, limitVars
  <2> QED
    BY <2>1, LimitNew, LimitClock, LimitAllow DEF LimitNext
<1> QED
  BY <1>1, <1>2, PTL DEF LimitSpec

\* However late goroutines come to the lock with the time that they read,
\* each period since the limiter was made lets limit operations through and
\* no more.
THEOREM LimitPerPeriod == LimitSpec => []AllowedPerPeriod
<1>1. LimitInv => AllowedPerPeriod
  <2> SUFFICES ASSUME LimitInv, period # 0
               PROVE  allowed <= limit * ((time - start) \div period + 1)
    BY DEF AllowedPerPeriod
  <2> USE DEF LimitInv, LimitType
  <2>1. PICK n \in Nat : Passed(n)
    OBVIOUS
  <2>2. limit * n \in Nat /\ n * period \in Nat /\ time - start \in Nat /\ n * period <= time - start
    BY <2>1 DEF Passed
  <2>3. PICK m \in Nat : m = (time - start) \div period /\ n <= m
    BY <2>2, DivFits
  <2>4. limit * (n + 1) <= limit * (m + 1) /\ limit * (n + 1) = limit * n + limit
    BY <2>3
  <2>5. allowed <= limit * (n + 1)
    BY <2>1, <2>2, <2>4 DEF Passed
  <2> QED
    BY <2>3, <2>4, <2>5
<1> QED
  BY <1>1, LimitInvariant, PTL

-----------------------------------------------------------------------------
(* The process id file.                                                     *)

MadeFiles == {Empty} \cup {Content(p, w) : p \in Pids, w \in BOOLEAN}
StuckFiles == {Stuck(x) : x \in MadeFiles}

\* The id is whole before the temporary file takes the place of the real one,
\* and a process that is done, or has not begun, has no temporary file but
\* one that it could not remove.
PidInv ==
    /\ pidfile = Nothing \/ \E p \in Pids : pidfile = Content(p, TRUE)
    /\ temp \in [Pids -> {Nothing} \cup MadeFiles \cup StuckFiles]
    /\ pidPc \in [Pids -> {"idle", "chmod", "print", "close", "rename", "remove",
                           "ok", "failed", "dead"}]
    /\ \A p \in Pids : /\ pidPc[p] \in {"close", "rename"} => temp[p] = Content(p, TRUE)
                       /\ pidPc[p] \in {"chmod", "print", "remove"} => temp[p] \in MadeFiles
                       /\ pidPc[p] \in {"idle", "ok", "failed"} => temp[p] \in {Nothing} \cup StuckFiles

\* The id file is whole whoever dies while writing it.
THEOREM PidInvariant == PidSpec => []PidInv
<1> /\ Empty \in MadeFiles /\ \A p \in Pids, w \in BOOLEAN : Content(p, w) \in MadeFiles
    /\ \A x \in MadeFiles : Stuck(x) \in StuckFiles
  BY DEF MadeFiles, StuckFiles
<1>1. PidInit => PidInv
  BY DEF PidInit, PidInv
<1>2. PidInv /\ [PidNext]_pidVars => PidInv'
  <2> SUFFICES ASSUME PidInv, [PidNext]_pidVars PROVE PidInv'
    OBVIOUS
  <2> USE DEF PidInv, Goto
  <2>1. CASE UNCHANGED pidVars
    BY <2>1 DEF pidVars
  <2>2. ASSUME NEW p \in Pids, TempFile(p) PROVE PidInv'
    BY <2>2, ZenonT(30) DEF TempFile
  <2>5. ASSUME NEW p \in Pids, Chmod(p) \/ CloseTemp(p) \/ Fail(p) \/ Crash(p) \/ Again(p)
        PROVE  PidInv'
    BY <2>5 DEF Chmod, CloseTemp, Fail, Crash, Again
  <2>6. ASSUME NEW p \in Pids, Remove_(p) PROVE PidInv'
    <3>1. PICK left \in {Nothing} \cup StuckFiles : temp' = [temp EXCEPT ![p] = left]
      <4>1. Stuck(temp[p]) \in StuckFiles
        BY <2>6 DEF Remove_
      <4> QED
        BY <2>6, <4>1, Zenon DEF Remove_
    <3> QED
      BY <2>6, <3>1 DEF Remove_
  <2>3. ASSUME NEW p \in Pids, Fprintf(p) \/ FprintfShort(p) PROVE PidInv'
    BY <2>3, ZenonT(30) DEF Fprintf, FprintfShort
  <2>4. ASSUME NEW p \in Pids, Rename(p) PROVE PidInv'
    BY <2>4 DEF Rename
  <2> QED
    BY <2>1, <2>2, <2>3, <2>4, <2>5, <2>6 DEF PidNext, Step
<1> QED
  BY <1>1, <1>2, PTL DEF PidSpec

\* Whoever fails or dies on the way, the file holds a whole id once one has
\* been written, and a temporary file outlives only a process that died, or
\* one that could not remove it.
THEOREM PidFileWhole == PidSpec => []PidWhole
<1>1. \A x \in StuckFiles : x.stuck = TRUE
  BY DEF StuckFiles, MadeFiles, Stuck, Empty, Content
<1>2. \A p \in Pids : Content(p, TRUE).whole = TRUE
  BY DEF Content
<1>3. PidInv => PidWhole
  BY <1>1, <1>2, Zenon DEF PidInv, PidWhole
<1> QED
  BY <1>3, PidInvariant, PTL

-----------------------------------------------------------------------------
(* The logger's configuration.                                              *)

Multiple(u, v) == \E q \in Nat : v = u * q

\* The first of up to six places.
LEMMA FirstOfSix ==
    ASSUME NEW T, T \subseteq 1 .. 6, T # {}
    PROVE  Min(T) \in T /\ \A k \in T : Min(T) <= k
<1>1. \E x \in T : \A k \in T : x <= k
  <2>1. CASE 1 \in T
    BY <2>1
  <2>2. CASE 1 \notin T /\ 2 \in T
    BY <2>2
  <2>3. CASE 1 \notin T /\ 2 \notin T /\ 3 \in T
    BY <2>3
  <2>4. CASE 1 \notin T /\ 2 \notin T /\ 3 \notin T /\ 4 \in T
    BY <2>4
  <2>5. CASE 1 \notin T /\ 2 \notin T /\ 3 \notin T /\ 4 \notin T /\ 5 \in T
    BY <2>5
  <2>6. CASE 1 \notin T /\ 2 \notin T /\ 3 \notin T /\ 4 \notin T /\ 5 \notin T
    <3>1. PICK x : x \in T
      OBVIOUS
    <3>2. \A k \in T : k = 6
      BY <2>6
    <3> QED
      BY <3>1, <3>2
  <2> QED
    BY <2>1, <2>2, <2>3, <2>4, <2>5, <2>6
<1> QED
  BY <1>1 DEF Min

\* What a value loses in units of u is less than one of them, and leaves at
\* least one if it is rough.
LEMMA Loses ==
    ASSUME NEW v \in Nat \ {0}, NEW u \in Nat \ {0}
    PROVE  /\ v % u \in 0 .. u - 1
           /\ (v \div u) * u = v - (v % u)
           /\ \E q \in Int : v = u * q + (v % u)
           /\ Multiple(u, v) => v % u = 0
<1>1. PICK q \in Int, r \in 0 .. u - 1 : q = v \div u /\ r = v % u /\ v = u * q + r
  OBVIOUS
<1>2. (v \div u) * u = v - (v % u)
  <2>1. q * u = u * q
    OBVIOUS
  <2>2. q * u = v - r
    BY <1>1, <2>1
  <2> QED
    BY <1>1, <2>2
<1>3. ASSUME NEW z \in Nat, v = u * z PROVE r = 0
  <2>1. u * (z - q) = r
    BY <1>1, <1>3
  <2>2. z - q >= 1 => u * (z - q) >= u
    BY <1>1
  <2>3. z - q <= 0 => u * (z - q) <= 0
    BY <1>1
  <2> QED
    BY <1>1, <2>1, <2>2, <2>3
<1> QED
  BY <1>1, <1>2, <1>3 DEF Multiple

\* A rough value is positive, a multiple of its unit, and has lost less than
\* a hundredth.
LEMMA RoughIs ==
    ASSUME NEW v \in Nat \ {0}, NEW u \in Nat \ {0}, rough(v % u, v)
    PROVE  /\ v % u \in Nat /\ 100 * (v % u) <= v - 1
           /\ v - (v % u) \in Nat \ {0} /\ Multiple(u, v - (v % u)) /\ v - (v % u) >= u
<1>1. PICK r \in 0 .. u - 1, q \in Int : r = v % u /\ v = u * q + r
  <2>1. v % u \in 0 .. u - 1 /\ \E q \in Int : v = u * q + (v % u)
    BY Loses
  <2> QED
    BY <2>1
<1>2. r <= (v - 1) \div 100
  BY <1>1 DEF rough
<1>3. 100 * r <= v - 1
  <2>1. 100 * ((v - 1) \div 100) <= v - 1 /\ (v - 1) \div 100 \in Int
    OBVIOUS
  <2> QED
    BY <1>1, <1>2, <2>1
<1>4. v - r > 0 /\ v - r = u * q
  BY <1>1, <1>3
<1>5. q >= 1
  <2>1. q <= 0 => u * q <= 0
    BY <1>1
  <2> QED
    BY <1>1, <1>4, <2>1
<1>6. u * q >= u
  BY <1>1, <1>5
<1>7. v - r \in Nat \ {0} /\ v - r >= u /\ r \in Nat
  BY <1>1, <1>4, <1>6
<1>8. Multiple(u, v - r)
  BY <1>4, <1>5 DEF Multiple
<1> QED
  BY <1>1, <1>3, <1>7, <1>8

\* A readable value is in the first unit in which it is rough.
LEMMA Readable ==
    ASSUME NEW m \in 1 .. 6, NEW units \in [1 .. m -> Nat \ {0}], units[m] = 1, NEW v \in Nat \ {0}
    PROVE  \E k \in 1 .. m : /\ rough(v % units[k], v)
                             /\ \A j \in 1 .. m : Multiple(units[j], v) => k <= j
                             /\ parse(units, readable(units, v)) = v - (v % units[k])
<1> DEFINE T == {k \in DOMAIN units : rough(v % units[k], v)}
           i == Min(T)
<1>1. DOMAIN units = 1 .. m /\ T \subseteq 1 .. 6
  <2>1. DOMAIN units = 1 .. m
    OBVIOUS
  <2>2. T \subseteq 1 .. m
    BY <2>1
  <2>3. 1 .. m \subseteq 1 .. 6
    OBVIOUS
  <2> QED
    BY <2>1, <2>2, <2>3
<1>2. ASSUME NEW j \in 1 .. m, Multiple(units[j], v) PROVE j \in T
  <2>1. v % units[j] = 0
    BY <1>2, Loses
  <2>2. 0 <= (v - 1) \div 100
    OBVIOUS
  <2> QED
    BY <1>1, <2>1, <2>2 DEF rough
<1>3. m \in T
  <2>1. Multiple(units[m], v)
    <3>1. v = 1 * v
      OBVIOUS
    <3> QED
      BY <3>1 DEF Multiple
  <2> QED
    BY <1>2, <2>1
<1>4. i \in T /\ \A k \in T : i <= k
  <2> HIDE DEF T
  <2> QED
    BY <1>1, <1>3, FirstOfSix
<1>5. i \in 1 .. m /\ rough(v % units[i], v)
  BY <1>1, <1>4
<1>6. readable(units, v) = [number |-> v \div units[i], unit |-> i]
  BY DEF readable
<1> HIDE DEF i
<1>7. parse(units, readable(units, v)) = (v \div units[i]) * units[i]
  BY <1>6 DEF parse
<1>8. parse(units, readable(units, v)) = v - (v % units[i])
  BY <1>5, <1>7, Loses
<1> QED
  BY <1>2, <1>4, <1>5, <1>8

\* What is left of a value, and what the units it came to have lost of it: a
\* multiple of the last unit, less the remainders in each.
Sized(s, z) ==
    /\ s \in Nat \ {0} /\ z \in Nat \ {0} /\ s <= z
    /\ \/ s = z
       \/ Multiple(1024, s) /\ z - s <= 1023 /\ 100 * (z - s) <= z
       \/ Multiple(1048576, s) /\ z - s <= 1049598 /\ 50 * (z - s) <= z
       \/ Multiple(1073741824, s) /\ 50 * (z - s) <= z

Aged(v, z) ==
    /\ v \in Nat \ {0} /\ z \in Nat \ {0} /\ v <= z
    /\ \/ v = z
       \/ Multiple(60, v) /\ z - v <= 59 /\ 100 * (z - v) <= z
       \/ Multiple(1440, v) /\ z - v <= 1499 /\ 50 * (z - v) <= z
       \/ Multiple(10080, v) /\ z - v <= 10139 /\ 100 * (z - v) <= z + 149900 /\ 100 * (z - v) <= 3 * z
       \/ Multiple(44640, v) /\ 100 * (z - v) <= z + 1013900 /\ 100 * (z - v) <= 3 * z
       \/ Multiple(527040, v) /\ 100 * (z - v) <= 3 * z

\* The age is the one set, or one imported in minutes.
AgeKept == \/ age = age0
           \/ \E v \in Nat \ {0}, z \in Nat \ {0} : age = 60 * v /\ z = age0 \div 60 /\ Aged(v, z)

ConfigInv ==
    \/ size = 0 /\ age = 0 /\ size0 = 0 /\ age0 = 0
    \/ /\ Sized(size, size0)
       /\ age \in Nat \ {0} /\ age0 \in Nat \ {0} /\ AgeKept

LEMMA Units ==
    /\ sizes \in [1 .. 4 -> Nat \ {0}]
    /\ sizes[1] = 1073741824 /\ sizes[2] = 1048576 /\ sizes[3] = 1024 /\ sizes[4] = 1
    /\ ages \in [1 .. 6 -> Nat \ {0}]
    /\ ages[1] = 527040 /\ ages[2] = 44640 /\ ages[3] = 10080
    /\ ages[4] = 1440 /\ ages[5] = 60 /\ ages[6] = 1
<1>1. sizes = <<1073741824, 1048576, 1024, 1>>
  BY DEF sizes
<1>2. ages = <<527040, 44640, 10080, 1440, 60, 1>>
  BY DEF ages, day2min, hour2min
<1>3. sizes \in [1 .. 4 -> Nat \ {0}]
  BY <1>1
<1>4. ages \in [1 .. 6 -> Nat \ {0}]
  BY <1>2
<1> QED
  BY <1>1, <1>2, <1>3, <1>4

\* A value in one more unit: none smaller than the one it is in, nothing
\* lost in that one, and in a larger one less than a hundredth.
LEMMA NextUnit ==
    ASSUME NEW m \in 1 .. 6, NEW units \in [1 .. m -> Nat \ {0}], units[m] = 1, NEW s \in Nat \ {0}
    PROVE  \E k \in 1 .. m, r \in Nat :
               /\ \A j \in 1 .. m : Multiple(units[j], s) => k <= j
               /\ parse(units, readable(units, s)) = s - r
               /\ 100 * r <= s - 1 /\ r <= units[k] - 1
               /\ s - r \in Nat \ {0} /\ Multiple(units[k], s - r) /\ s - r >= units[k]
               /\ Multiple(units[k], s) => r = 0
<1>1. PICK k \in 1 .. m : /\ rough(s % units[k], s)
                          /\ \A j \in 1 .. m : Multiple(units[j], s) => k <= j
                          /\ parse(units, readable(units, s)) = s - (s % units[k])
  BY Readable
<1>2. units[k] \in Nat \ {0}
  OBVIOUS
<1>3. s % units[k] \in 0 .. units[k] - 1 /\ (Multiple(units[k], s) => s % units[k] = 0)
  BY <1>2, Loses
<1>4. /\ s % units[k] \in Nat /\ 100 * (s % units[k]) <= s - 1
      /\ s - (s % units[k]) \in Nat \ {0} /\ Multiple(units[k], s - (s % units[k])) /\ s - (s % units[k]) >= units[k]
  BY <1>1, <1>2, RoughIs
<1>5. PICK r \in Nat : r = s % units[k]
  BY <1>4
<1>6. r <= units[k] - 1
  <2>1. r \in 0 .. units[k] - 1
    BY <1>3, <1>5
  <2> QED
    BY <1>2, <2>1
<1> QED
  BY <1>1, <1>3, <1>4, <1>5, <1>6

LEMMA SizeStep ==
    ASSUME NEW s, NEW z, Sized(s, z)
    PROVE  Sized(parse(sizes, readable(sizes, s)), z)
<1>1. s \in Nat \ {0} /\ z \in Nat \ {0} /\ s <= z
  BY DEF Sized
<1>2. PICK k \in 1 .. 4, r \in Nat :
          /\ \A j \in 1 .. 4 : Multiple(sizes[j], s) => k <= j
          /\ parse(sizes, readable(sizes, s)) = s - r
          /\ 100 * r <= s - 1 /\ r <= sizes[k] - 1
          /\ s - r \in Nat \ {0} /\ Multiple(sizes[k], s - r) /\ s - r >= sizes[k]
          /\ Multiple(sizes[k], s) => r = 0
  BY <1>1, Units, NextUnit
<1> DEFINE w == s - r
<1>3. parse(sizes, readable(sizes, s)) = w
  BY <1>2
<1>4. sizes[k] \in Nat \ {0}
  BY Units
<1>5. /\ 100 * r <= s - 1 /\ r <= sizes[k] - 1
      /\ w \in Nat \ {0} /\ Multiple(sizes[k], w) /\ w >= sizes[k]
      /\ Multiple(sizes[k], s) => r = 0
  BY <1>2
<1>6. s \in Nat \ {0} /\ z \in Nat \ {0} /\ s <= z /\ z - w = (z - s) + r
  BY <1>1
<1>7. w <= z
  BY <1>5, <1>6
<1>8. CASE r = 0
  <2>1. w = s
    BY <1>6, <1>8
  <2> QED
    BY <1>3, <2>1
<1>9. CASE r # 0
  <2>1. ~ Multiple(sizes[k], s)
    BY <1>5, <1>9
  <2>2. CASE k = 4
    BY <1>5, <1>9, <2>2, Units
  <2>3. CASE k = 3
    <3>1. s = z
      <4>1. ~ Multiple(1024, s)
        BY <2>1, <2>3, Units
      <4>2. ~ Multiple(1048576, s)
        BY <1>2, <2>3, Units
      <4>3. ~ Multiple(1073741824, s)
        BY <1>2, <2>3, Units
      <4> QED
        BY <4>1, <4>2, <4>3 DEF Sized
    <3>2. Multiple(1024, w) /\ r <= 1023
      BY <1>5, <2>3, Units
    <3>3. z - w <= 1023 /\ 100 * (z - w) <= z
      BY <1>5, <1>6, <3>1, <3>2
    <3> QED
      BY <1>3, <1>5, <1>6, <1>7, <3>2, <3>3 DEF Sized
  <2>4. CASE k = 2
    <3>1. s = z \/ (z - s <= 1023 /\ 100 * (z - s) <= z)
      <4>1. ~ Multiple(1048576, s)
        BY <2>1, <2>4, Units
      <4>2. ~ Multiple(1073741824, s)
        BY <1>2, <2>4, Units
      <4> QED
        BY <4>1, <4>2 DEF Sized
    <3>2. Multiple(1048576, w) /\ r <= 1048575
      BY <1>5, <2>4, Units
    <3>3. z - w <= 1049598 /\ 50 * (z - w) <= z
      BY <1>5, <1>6, <3>1, <3>2
    <3> QED
      BY <1>3, <1>5, <1>6, <1>7, <3>2, <3>3 DEF Sized
  <2>5. CASE k = 1
    <3>1. s = z \/ z - s <= 1049598
      <4>1. ~ Multiple(1073741824, s)
        BY <2>1, <2>5, Units
      <4>2. z - s <= 1023 => z - s <= 1049598
        BY <1>6
      <4> QED
        BY <4>1, <4>2 DEF Sized
    <3>2. Multiple(1073741824, w) /\ w >= 1073741824
      BY <1>5, <2>5, Units
    <3>3. 50 * (z - w) <= z
      BY <1>5, <1>6, <3>1, <3>2
    <3> QED
      BY <1>3, <1>5, <1>6, <1>7, <3>2, <3>3 DEF Sized
  <2> QED
    BY <2>2, <2>3, <2>4, <2>5
<1> QED
  BY <1>8, <1>9

\* The same for an age in minutes.  A month or a year comes from a smaller
\* unit at a value that is large enough for what the smaller ones lost.
LEMMA AgeStep ==
    ASSUME NEW s, NEW z, Aged(s, z)
    PROVE  Aged(parse(ages, readable(ages, s)), z)
<1>1. s \in Nat \ {0} /\ z \in Nat \ {0} /\ s <= z
  BY DEF Aged
<1>2. PICK k \in 1 .. 6, r \in Nat :
          /\ \A j \in 1 .. 6 : Multiple(ages[j], s) => k <= j
          /\ parse(ages, readable(ages, s)) = s - r
          /\ 100 * r <= s - 1 /\ r <= ages[k] - 1
          /\ s - r \in Nat \ {0} /\ Multiple(ages[k], s - r) /\ s - r >= ages[k]
          /\ Multiple(ages[k], s) => r = 0
  BY <1>1, Units, NextUnit
<1> DEFINE w == s - r
<1>3. parse(ages, readable(ages, s)) = w
  BY <1>2
<1>4. /\ 100 * r <= s - 1 /\ r <= ages[k] - 1
      /\ w \in Nat \ {0} /\ Multiple(ages[k], w) /\ w >= ages[k]
      /\ Multiple(ages[k], s) => r = 0
  BY <1>2
<1>5. s \in Nat \ {0} /\ z \in Nat \ {0} /\ s <= z /\ z - w = (z - s) + r
  BY <1>1
<1>6. w <= z
  BY <1>4, <1>5
<1>7. CASE r = 0
  <2>1. w = s
    BY <1>5, <1>7
  <2> QED
    BY <1>3, <2>1
<1>8. CASE r # 0
  <2>1. ~ Multiple(ages[k], s)
    BY <1>4, <1>8
  <2>2. /\ Multiple(60, s) => k < 5
        /\ Multiple(1440, s) => k < 4
        /\ Multiple(10080, s) => k < 3
        /\ Multiple(44640, s) => k < 2
        /\ ~ Multiple(527040, s)
    <3>1. \A j \in 1 .. 6 : Multiple(ages[j], s) => k < j
      <4>1. ASSUME NEW j \in 1 .. 6, Multiple(ages[j], s) PROVE k < j
        <5>1. k <= j
          BY <1>2, <4>1
        <5>2. k # j
          BY <2>1, <4>1
        <5> QED
          BY <5>1, <5>2
      <4> QED
        BY <4>1
    <3>2. Multiple(60, s) => k < 5
      BY <3>1, Units
    <3>3. Multiple(1440, s) => k < 4
      BY <3>1, Units
    <3>4. Multiple(10080, s) => k < 3
      BY <3>1, Units
    <3>5. Multiple(44640, s) => k < 2
      BY <3>1, Units
    <3>6. Multiple(527040, s) => k < 1
      BY <3>1, Units
    <3> QED
      BY <3>2, <3>3, <3>4, <3>5, <3>6
  <2>3. k # 6
    BY <1>4, <1>8, Units
  <2>4. CASE k = 5
    <3>1. s = z
      BY <2>2, <2>4 DEF Aged
    <3>2. Multiple(60, w) /\ r <= 59
      BY <1>4, <2>4, Units
    <3>3. z - w <= 59 /\ 100 * (z - w) <= z
      BY <1>4, <1>5, <3>1, <3>2
    <3> QED
      BY <1>3, <1>4, <1>5, <1>6, <3>2, <3>3 DEF Aged
  <2>5. CASE k = 4
    <3>1. s = z \/ (z - s <= 59 /\ 100 * (z - s) <= z)
      BY <2>2, <2>5 DEF Aged
    <3>2. Multiple(1440, w) /\ r <= 1439
      BY <1>4, <2>5, Units
    <3>3. z - w <= 1499 /\ 50 * (z - w) <= z
      BY <1>4, <1>5, <3>1, <3>2
    <3> QED
      BY <1>3, <1>4, <1>5, <1>6, <3>2, <3>3 DEF Aged
  <2>6. CASE k = 3
    <3>1. \/ s = z
          \/ z - s <= 59 /\ 100 * (z - s) <= z
          \/ Multiple(1440, s) /\ z - s <= 1499 /\ 50 * (z - s) <= z
      BY <2>2, <2>6 DEF Aged
    <3>2. Multiple(10080, w) /\ r <= 10079
      BY <1>4, <2>6, Units
    <3>3. Multiple(1440, s) => r <= 8640
      <4>1. ASSUME NEW a \in Nat, s = 1440 * a PROVE r <= 8640
        <5>1. PICK b \in Nat : w = 10080 * b
          BY <3>2 DEF Multiple
        <5>2. r = 1440 * a - 10080 * b
          BY <1>5, <4>1, <5>1
        <5> QED
          BY <3>2, <5>2
      <4> QED
        BY <4>1 DEF Multiple
    <3>4. z - s <= 1499
      BY <1>5, <3>1
    <3>5. z - w <= 10139
      BY <1>5, <3>1, <3>2, <3>3
    <3>6. 100 * (z - w) <= z + 149900 /\ 100 * (z - w) <= 3 * z
      BY <1>4, <1>5, <3>1, <3>4
    <3> QED
      BY <1>3, <1>4, <1>5, <1>6, <3>2, <3>5, <3>6 DEF Aged
  <2>7. CASE k = 2
    <3>1. \/ z - s <= 1499 /\ 50 * (z - s) <= z
          \/ /\ Multiple(10080, s) /\ z - s <= 10139
             /\ 100 * (z - s) <= z + 149900 /\ 100 * (z - s) <= 3 * z
      BY <1>5, <2>2, <2>7 DEF Aged
    <3>2. Multiple(44640, w) /\ w >= 44640
      BY <1>4, <2>7, Units
    <3>3. Multiple(10080, s) => s >= 151200
      <4>1. ASSUME NEW a \in Nat, s = 10080 * a PROVE s >= 151200
        <5>1. PICK b \in Nat : w = 44640 * b
          BY <3>2 DEF Multiple
        <5>2. r = 10080 * a - 44640 * b
          BY <1>5, <4>1, <5>1
        <5>3. r >= 1440
          BY <1>8, <5>2
        <5> QED
          BY <1>4, <4>1, <5>3
      <4> QED
        BY <4>1 DEF Multiple
    <3>4. 100 * (z - w) <= z + 1013900 /\ 100 * (z - w) <= 3 * z
      BY <1>4, <1>5, <3>1, <3>3
    <3> QED
      BY <1>3, <1>4, <1>5, <1>6, <3>2, <3>4 DEF Aged
  <2>8. CASE k = 1
    <3>1. \/ 50 * (z - s) <= z
          \/ 100 * (z - s) <= z + 149900
          \/ Multiple(44640, s) /\ 100 * (z - s) <= z + 1013900
      BY <1>5, <2>2, <2>8 DEF Aged
    <3>2. Multiple(527040, w) /\ w >= 527040
      BY <1>4, <2>8, Units
    <3>3. Multiple(44640, s) => s >= 1054080
      <4>1. ASSUME NEW a \in Nat, s = 44640 * a PROVE s >= 1054080
        <5>1. PICK b \in Nat : w = 527040 * b
          BY <3>2 DEF Multiple
        <5>2. r = 44640 * a - 527040 * b /\ s = 527040 * b + r /\ b >= 1
          BY <1>5, <3>2, <4>1, <5>1
        <5>3. b # 1
          <6>1. SUFFICES ASSUME b = 1 PROVE FALSE
            OBVIOUS
          <6>2. 99 * r <= 527039 /\ 44640 * a = 527040 + r
            BY <1>4, <5>2, <6>1
          <6>3. a <= 11 \/ a >= 12
            OBVIOUS
          <6> QED
            BY <1>8, <6>2, <6>3
        <5> QED
          BY <5>2, <5>3
      <4> QED
        BY <4>1 DEF Multiple
    <3>4. s >= 527040
      BY <1>5, <3>2
    <3>5. 100 * (z - w) <= 3 * z
      BY <1>4, <1>5, <3>1, <3>3, <3>4
    <3> QED
      BY <1>3, <1>4, <1>5, <1>6, <3>2, <3>5 DEF Aged
  <2> QED
    BY <2>3, <2>4, <2>5, <2>6, <2>7, <2>8
<1> QED
  BY <1>7, <1>8

\* A field set is the one set; an export and import of it keeps what it has
\* lost within bounds.
LEMMA AgeCycle ==
    ASSUME age \in Nat \ {0}, age0 \in Nat \ {0}, AgeKept, Cycle
    PROVE  age' \in Nat \ {0} /\ age0' \in Nat \ {0} /\ AgeKept'
<1>1. age' = (IF exportAge(age) = {} THEN age ELSE 60 * parse(ages, CHOOSE t \in exportAge(age) : TRUE)) /\ age0' = age0
  BY DEF Cycle
<1>2. CASE age \div 60 = 0
  <2>1. exportAge(age) = {}
    BY <1>2 DEF exportAge
  <2>2. age' = age
    BY <1>1, <2>1
  <2>3. AgeKept'
    BY <1>1, <2>2 DEF AgeKept
  <2> QED
    BY <1>1, <2>2, <2>3
<1>3. CASE age \div 60 # 0
  <2> DEFINE s == age \div 60
  <2>1. s \in Nat \ {0}
    BY <1>3
  <2>2. exportAge(age) = {readable(ages, s)}
    BY <1>3 DEF exportAge
  <2>3. (CHOOSE t \in exportAge(age) : TRUE) = readable(ages, s)
    BY <2>2
  <2>4. age' = 60 * parse(ages, readable(ages, s))
    BY <1>1, <2>2, <2>3
  <2>5. \E z \in Nat \ {0} : z = age0 \div 60 /\ Aged(s, z)
    <3>1. CASE age = age0
      BY <2>1, <3>1 DEF Aged
    <3>2. CASE age # age0
      <4>1. PICK v \in Nat \ {0}, z \in Nat \ {0} : age = 60 * v /\ z = age0 \div 60 /\ Aged(v, z)
        BY <3>2 DEF AgeKept
      <4>2. s = v
        BY <4>1
      <4> QED
        BY <4>1, <4>2
    <3> QED
      BY <3>1, <3>2
  <2>6. PICK z \in Nat \ {0} : z = age0 \div 60 /\ Aged(s, z)
    BY <2>5
  <2>7. PICK w : w = parse(ages, readable(ages, s))
    OBVIOUS
  <2>8. Aged(w, z)
    BY <2>6, <2>7, AgeStep
  <2>9. w \in Nat \ {0} /\ age' = 60 * w /\ z = age0' \div 60
    BY <1>1, <2>4, <2>6, <2>7, <2>8 DEF Aged
  <2>10. AgeKept'
    BY <2>8, <2>9 DEF AgeKept
  <2> QED
    BY <1>1, <2>9, <2>10
<1> QED
  BY <1>2, <1>3

\* A size is kept within two percent, and an age in minutes within three:
\* sixty times what it lost is a multiple of sixty, so that the seconds are
\* all that is lost beside it.
LEMMA InvKeeps == ConfigInv => ExportKeeps
<1> SUFFICES ASSUME ConfigInv PROVE ExportKeeps
  OBVIOUS
<1>1. CASE size = 0 /\ age = 0 /\ size0 = 0 /\ age0 = 0
  BY <1>1 DEF ExportKeeps
<1>2. CASE Sized(size, size0) /\ age \in Nat \ {0} /\ age0 \in Nat \ {0} /\ AgeKept
  <2>1. size <= size0 /\ 50 * (size0 - size) <= size0 /\ size \in Nat /\ size0 \in Nat
    BY <1>2 DEF Sized
  <2>2. size0 - size <= size0 \div 50
    BY <2>1
  <2>3. CASE age = age0
    <3>1. 0 <= age0 \div 100 /\ age0 \div 100 \in Int
      BY <1>2
    <3> QED
      BY <1>2, <2>1, <2>2, <2>3, <3>1 DEF ExportKeeps
  <2>4. CASE age # age0
    <3>1. PICK v \in Nat \ {0}, z \in Nat \ {0} : age = 60 * v /\ z = age0 \div 60 /\ Aged(v, z)
      BY <1>2, <2>4 DEF AgeKept
    <3>2. v <= z /\ 100 * (z - v) <= 3 * z
      BY <3>1 DEF Aged
    <3>3. 60 * z <= age0 /\ age0 <= 60 * z + 59
      BY <1>2, <3>1
    <3>4. 100 * (20 * (z - v)) <= age0
      <4>1. PICK d \in Nat : d = z - v
        BY <3>2
      <4>2. 2000 * d <= 60 * z
        BY <3>2, <4>1
      <4> QED
        BY <1>2, <3>3, <4>1, <4>2
    <3>5. 20 * (z - v) <= age0 \div 100
      BY <1>2, <3>4
    <3>6. age <= age0 /\ age0 - age <= 3 * (age0 \div 100) + 60
      <4>1. PICK h \in Int : h = age0 \div 100
        BY <1>2
      <4>2. 20 * (z - v) <= h
        BY <3>5, <4>1
      <4>3. age <= age0 /\ age0 - age <= 3 * h + 60
        BY <1>2, <3>1, <3>2, <3>3, <4>2
      <4> QED
        BY <4>1, <4>3
    <3> QED
      BY <2>1, <2>2, <3>6 DEF ExportKeeps
  <2> QED
    BY <2>3, <2>4
<1> QED
  BY <1>1, <1>2 DEF ConfigInv

\* However often a configuration is exported and imported, and whatever it
\* was set to, it keeps all but two percent of its size, and all but three
\* of its age and a minute (XConfig.Export and Import).
THEOREM ExportsKeep == ConfigSpec => []ExportKeeps
<1>1. ConfigInit => ConfigInv
  BY DEF ConfigInit, ConfigInv
<1>2. ConfigInv /\ [ConfigNext]_configVars => ConfigInv'
  <2> SUFFICES ASSUME ConfigInv, [ConfigNext]_configVars PROVE ConfigInv'
    OBVIOUS
  <2>1. CASE Configure
    <3>1. size' \in Nat \ {0} /\ size0' = size' /\ age' \in Nat \ {0} /\ age0' = age'
      BY <2>1, ConfigAssumption DEF Configure
    <3>2. Sized(size', size0')
      BY <3>1 DEF Sized
    <3>3. AgeKept'
      BY <3>1 DEF AgeKept
    <3> QED
      BY <3>1, <3>2, <3>3 DEF ConfigInv
  <2>2. CASE Cycle
    <3>1. Sized(size, size0) /\ age \in Nat \ {0} /\ age0 \in Nat \ {0} /\ AgeKept
      BY <2>2 DEF Cycle, ConfigInv
    <3>2. Sized(size', size0')
      BY <2>2, <3>1, SizeStep DEF Cycle
    <3>3. age' \in Nat \ {0} /\ age0' \in Nat \ {0} /\ AgeKept'
      BY <2>2, <3>1, AgeCycle
    <3> QED
      BY <3>2, <3>3 DEF ConfigInv
  <2>3. CASE UNCHANGED configVars
    BY <2>3 DEF ConfigInv, configVars, AgeKept
  <2> QED
    BY <2>1, <2>2, <2>3 DEF ConfigNext
<1> QED
  BY <1>1, <1>2, InvKeeps, PTL DEF ConfigSpec

=============================================================================
