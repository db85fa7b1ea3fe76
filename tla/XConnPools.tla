------------------------------ MODULE XConnPools ------------------------------
(***************************************************************************)
(* go-xconnpool/xconnpools.go: one XConnPool per backend address, created   *)
(* on first use, and a cleaner goroutine that closes the pools nobody used  *)
(* since the last tick.  The scheduler is external here (module XSched): it *)
(* returns any address or an error.  The pools themselves are those of      *)
(* module XConnPool, of which only "open" or "closed" matters here.         *)
(*                                                                          *)
(* The read-write mutex of poolsType protects single map operations in Get, *)
(* Set and Delete, which are therefore one step each; ForEach holds it for  *)
(* reading during a whole iteration, so it is the only holder the state     *)
(* records.                                                                 *)
(***************************************************************************)
EXTENDS Naturals, FiniteSets

CONSTANTS Procs,    \* goroutines that call Get and RawGet
          Addrs,    \* addresses the scheduler may return
          Pools,    \* pools that New may create
          MaxGets,  \* bound: calls of Get and RawGet
          None      \* no pool, no address

\* New never runs out of pools.
ASSUME PoolsAssumption == /\ MaxGets \in Nat /\ IsFiniteSet(Pools) /\ Cardinality(Pools) >= MaxGets
                          /\ None \notin Pools \cup Addrs

VARIABLES pools,     \* the map: Addrs -> pool or None
          state,     \* Pools -> "new", "open" or "closed"
          addr,      \* Pools -> address its factory dials
          count,     \* Pools -> uses since the cleaner reset it
          readers,   \* goroutines inside ForEach: "clean", "close"
          pc,        \* Procs -> step of selectPool
          want,      \* Procs -> address the scheduler returned
          pool,      \* Procs -> the pool variable of selectPool
          gets,      \* calls made
          clean,     \* the cleaner: step, addresses to visit, current
                     \* address, addresses to delete
          close,     \* Close: "no", "signalled", "each" or "done"
          todo,      \* addresses Close still has to visit
          late,      \* history: pools put in the map after Close returned
          raced      \* history: pools of callers that were on their way to
                     \* set a pool for one address at the same time

getters == <<pc, want, pool, gets>>
vars == <<pools, state, addr, count, readers, getters, clean, close, todo, late, raced>>

Mapped == {a \in Addrs : pools[a] # None}
NoReaders == readers = {}
CleanAt(step) == clean.step = step

Init == /\ pools = [a \in Addrs |-> None]
        /\ state = [q \in Pools |-> "new"]
        /\ addr = [q \in Pools |-> None]
        /\ count = [q \in Pools |-> 0]
        /\ readers = {}
        /\ pc = [p \in Procs |-> "idle"]
        /\ want = [p \in Procs |-> None]
        /\ pool = [p \in Procs |-> None]
        /\ gets = 0
        /\ clean = [step |-> "select", visit |-> {}, at |-> None, delete |-> {}]
        /\ close = "no"
        /\ todo = {}
        /\ late = {}
        /\ raced = {}

-----------------------------------------------------------------------------
(* Get and RawGet: selectPool, then the pool's own Get or RawGet.           *)

\* scheduler.Get returns an address.
Schedule(p, a) == /\ pc[p] = "idle"
                  /\ gets < MaxGets
                  /\ gets' = gets + 1
                  /\ want' = [want EXCEPT ![p] = a]
                  /\ pc' = [pc EXCEPT ![p] = "lookup"]
                  /\ UNCHANGED <<pools, state, addr, count, readers, pool, clean, close, todo, late, raced>>

\* scheduler.Get returns an error, which Get returns.
ScheduleErr(p) == /\ pc[p] = "idle"
                  /\ gets < MaxGets
                  /\ gets' = gets + 1
                  /\ UNCHANGED <<pools, state, addr, count, readers, pc, want, pool, clean, close, todo, late, raced>>

\* The pool that New creates next.
Fresh == CHOOSE q \in Pools : state[q] = "new"

\* The callers that have found no pool for the address either and not set
\* theirs yet.
Rivals(p) == {r \in Procs \ {p} : pc[r] = "set" /\ want[r] = want[p]}

\* New(capacity, factory), whose factory dials the address.
NewPool(p) == /\ state' = [state EXCEPT ![Fresh] = "open"]
              /\ addr' = [addr EXCEPT ![Fresh] = want[p]]
              /\ pool' = [pool EXCEPT ![p] = Fresh]
              /\ pc' = [pc EXCEPT ![p] = "set"]
              /\ raced' = IF Rivals(p) = {} THEN raced
                          ELSE raced \cup {Fresh} \cup {pool[r] : r \in Rivals(p)}

\* pools.Get(address); New when there is no pool for it.
Lookup(p) ==
    /\ pc[p] = "lookup"
    /\ \/ /\ pools[want[p]] # None
          /\ pool' = [pool EXCEPT ![p] = pools[want[p]]]
          /\ pc' = [pc EXCEPT ![p] = "count"]
          /\ UNCHANGED <<state, addr, raced>>
       \/ pools[want[p]] = None /\ NewPool(p)
    /\ UNCHANGED <<pools, count, readers, want, gets, clean, close, todo, late>>

\* pools.Set(address, pool), which waits for the readers to leave.
Set(p) == /\ pc[p] = "set"
          /\ NoReaders
          /\ pools' = [pools EXCEPT ![want[p]] = pool[p]]
          /\ late' = IF close = "done" THEN late \cup {pool[p]} ELSE late
          /\ pc' = [pc EXCEPT ![p] = "count"]
          /\ UNCHANGED <<state, addr, count, readers, want, pool, gets, clean, close, todo, raced>>

\* atomic.AddInt64(&pool.count, 1)
Count(p) == /\ pc[p] = "count"
            /\ count' = [count EXCEPT ![pool[p]] = @ + 1]
            /\ pc' = [pc EXCEPT ![p] = "use"]
            /\ UNCHANGED <<pools, state, addr, readers, want, pool, gets, clean, close, todo, late, raced>>

\* pool.Get or pool.RawGet: a connection or an error, the call returns.
Use(p) == /\ pc[p] = "use"
          /\ pool' = [pool EXCEPT ![p] = None]
          /\ pc' = [pc EXCEPT ![p] = "idle"]
          /\ UNCHANGED <<pools, state, addr, count, readers, want, gets, clean, close, todo, late, raced>>

-----------------------------------------------------------------------------
(* The clean goroutine.                                                     *)

ClosePool(q) == state' = [state EXCEPT ![q] = "closed"]

\* A tick: ForEach takes the read lock and visits the map's addresses.
Tick == /\ CleanAt("select")
        /\ readers' = readers \cup {"clean"}
        /\ clean' = [clean EXCEPT !.step = "each", !.visit = Mapped, !.delete = {}]
        /\ UNCHANGED <<pools, state, addr, count, getters, close, todo, late, raced>>

\* The callback loads the count of the next pool; the order is the map's.
Load(a) == /\ CleanAt("each")
           /\ a \in clean.visit
           /\ clean' = [clean EXCEPT !.visit = @ \ {a}, !.at = pools[a],
                           !.step = IF count[pools[a]] # 0 THEN "store" ELSE "close",
                           !.delete = IF count[pools[a]] # 0 THEN @ ELSE @ \cup {a}]
           /\ UNCHANGED <<pools, state, addr, count, readers, getters, close, todo, late, raced>>

\* atomic.StoreInt64(&pool.count, 0)
Store == /\ CleanAt("store")
         /\ count' = [count EXCEPT ![clean.at] = 0]
         /\ clean' = [clean EXCEPT !.step = "each", !.at = None]
         /\ UNCHANGED <<pools, state, addr, readers, getters, close, todo, late, raced>>

\* Mutant of CleanClose: the pool is forgotten without being closed.
CleanCloseForgotten == /\ CleanAt("close")
                       /\ clean' = [clean EXCEPT !.step = "each", !.at = None]
                       /\ UNCHANGED <<pools, state, addr, count, readers, getters, close, todo, late, raced>>

\* pool.Close(); the address was appended to the ones to delete.
CleanClose == /\ CleanAt("close")
              /\ ClosePool(clean.at)
              /\ clean' = [clean EXCEPT !.step = "each", !.at = None]
              /\ UNCHANGED <<pools, addr, count, readers, getters, close, todo, late, raced>>

\* Mutant of EachDone: the pools are deleted before ForEach has returned.
EachDoneLocked == /\ CleanAt("each")
                  /\ clean.visit = {}
                  /\ clean' = [clean EXCEPT !.step = "delete"]
                  /\ UNCHANGED <<pools, state, addr, count, readers, getters, close, todo, late, raced>>

\* ForEach returns and releases the read lock.
EachDone == /\ CleanAt("each")
            /\ clean.visit = {}
            /\ readers' = readers \ {"clean"}
            /\ clean' = [clean EXCEPT !.step = "delete"]
            /\ UNCHANGED <<pools, state, addr, count, getters, close, todo, late, raced>>

\* pools.Delete(address) for each pool closed by the callback.
Delete(a) == /\ CleanAt("delete")
             /\ a \in clean.delete
             /\ NoReaders
             /\ pools' = [pools EXCEPT ![a] = None]
             /\ clean' = [clean EXCEPT !.delete = @ \ {a}]
             /\ UNCHANGED <<state, addr, count, readers, getters, close, todo, late, raced>>

DeleteDone == /\ CleanAt("delete")
              /\ clean.delete = {}
              /\ clean' = [clean EXCEPT !.step = "select"]
              /\ UNCHANGED <<pools, state, addr, count, readers, getters, close, todo, late, raced>>

\* The exit channel is closed: stop the ticker and return.
CleanExit == /\ CleanAt("select")
             /\ close # "no"
             /\ clean' = [clean EXCEPT !.step = "exited"]
             /\ UNCHANGED <<pools, state, addr, count, readers, getters, close, todo, late, raced>>

-----------------------------------------------------------------------------
(* Close, which the owner calls once.                                       *)

\* close(xcps.exit)
CloseSignal == /\ close = "no"
               /\ close' = "signalled"
               /\ UNCHANGED <<pools, state, addr, count, readers, getters, clean, todo, late, raced>>

\* Mutant of CloseLock: ForEach does not take the lock.
CloseUnlocked == /\ close = "signalled"
                 /\ close' = "each"
                 /\ todo' = Mapped
                 /\ UNCHANGED <<pools, state, addr, count, readers, getters, clean, late, raced>>

\* ForEach takes the read lock.
CloseLock == /\ close = "signalled"
             /\ close' = "each"
             /\ readers' = readers \cup {"close"}
             /\ todo' = Mapped
             /\ UNCHANGED <<pools, state, addr, count, getters, clean, late, raced>>

CloseEach(a) == /\ close = "each"
                /\ a \in todo
                /\ todo' = todo \ {a}
                /\ ClosePool(pools[a])
                /\ UNCHANGED <<pools, addr, count, readers, getters, clean, close, late, raced>>

CloseReturn == /\ close = "each"
               /\ todo = {}
               /\ close' = "done"
               /\ readers' = readers \ {"close"}
               /\ UNCHANGED <<pools, state, addr, count, getters, clean, todo, late, raced>>

-----------------------------------------------------------------------------
GetStep(p) == Lookup(p) \/ Set(p) \/ Count(p) \/ Use(p)
CleanStep == \/ (\E a \in Addrs : Load(a) \/ Delete(a))
             \/ Store \/ CleanClose \/ EachDone \/ DeleteDone
CloseStep == CloseLock \/ (\E a \in Addrs : CloseEach(a)) \/ CloseReturn

Next == \/ \E p \in Procs : (\E a \in Addrs : Schedule(p, a)) \/ ScheduleErr(p) \/ GetStep(p)
        \/ Tick \/ CleanStep \/ CleanExit
        \/ CloseSignal \/ CloseStep

\* Goroutines inside a call keep running.  A writer that waits for the mutex
\* gets it: a blocked Lock keeps new readers out (strong fairness of the
\* steps with Set and Delete).  A select with two ready cases picks one at
\* random, so the exit case is not passed over for ever.
Fairness == /\ \A p \in Procs : SF_vars(GetStep(p))
            /\ SF_vars(CleanStep)
            /\ SF_vars(CleanExit)
            /\ WF_vars(CloseStep)

Spec == Init /\ [][Next]_vars /\ Fairness

-----------------------------------------------------------------------------
(* Properties.                                                              *)

\* Type invariant of the pools' state.
TypeOK == /\ pools \in [Addrs -> Pools \cup {None}]
          /\ state \in [Pools -> {"new", "open", "closed"}]
          /\ addr \in [Pools -> Addrs \cup {None}]
          /\ count \in [Pools -> 0 .. MaxGets]
          /\ readers \subseteq {"clean", "close"}
          /\ pc \in [Procs -> {"idle", "lookup", "set", "count", "use"}]
          /\ want \in [Procs -> Addrs \cup {None}]
          /\ pool \in [Procs -> Pools \cup {None}]
          /\ gets \in 0 .. MaxGets
          /\ clean.step \in {"select", "each", "store", "close", "delete", "exited"}
          /\ clean.visit \subseteq Addrs /\ clean.delete \subseteq Addrs
          /\ clean.at \in Pools \cup {None}
          /\ close \in {"no", "signalled", "each", "done"}
          /\ todo \subseteq Addrs
          /\ late \subseteq Pools /\ raced \subseteq Pools

\* xconnpools.go:32 "'XConnPools' will create a single connection pool for
\* each address returned by 'scheduler' parameter."
SinglePoolPerAddress ==
    \A q, r \in Pools : state[q] = "open" /\ state[r] = "open" /\ addr[q] = addr[r] => q = r

\* An open pool can be reached by those who have to close it: it is in the
\* map under its address, or on its way there in selectPool.  A pool that is
\* neither keeps its idle connections open for ever.  That happens to the pools
\* of callers that both missed the address (the run of SinglePoolPerAddress)
\* and to no others, however the callers, the cleaner that deletes addresses
\* after it has left ForEach, and Close follow one another.
NoOrphan ==
    \A q \in Pools : state[q] = "open" =>
        \/ pools[addr[q]] = q
        \/ \E p \in Procs : pc[p] = "set" /\ pool[p] = q
        \/ q \in raced

\* When Close has returned, the map holds no open pool but the ones that
\* calls of Get put there afterwards: no Set slips in between the visits.
CloseReachesAll ==
    close = "done" => \A a \in Mapped : state[pools[a]] = "open" => pools[a] \in late

\* Every call of Get or RawGet returns, and so does Close: neither the
\* callbacks of ForEach nor Set and Delete wait for one another in a circle.
\* The cleaner goroutine does not outlive Close, whatever it is doing.
CallsReturn == /\ \A p \in Procs : pc[p] # "idle" ~> pc[p] = "idle"
               /\ close # "no" ~> close = "done"
               /\ close # "no" ~> CleanAt("exited")

=============================================================================
