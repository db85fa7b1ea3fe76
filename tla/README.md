# Verification of xgo

TLA+ models of the Go packages of [X-Plan/xgo](..), checked with TLC, with
theorems proved by TLAPS. `src/` below is the repository.

## 1. The system

xgo is a collection of packages for back-end servers. Most of them keep state that
several goroutines share; these are modelled:

| part | code | state | operations | interacts with |
|---|---|---|---|---|
| connection pool | `go-xconnpool/xconnpool.go` | channel of idle connections, closed flag of each wrapper | Get, RawGet, Close; XConn.Close, Release, Unuse | the factory (net.Dial), the users |
| connection pools | `go-xconnpool/xconnpools.go` | map address → pool, use counts, exit channel | Get, RawGet, Close, the hourly cleaner | scheduler, connection pool |
| scheduler | `go-xsched/xsched.go` | address list, weights, cursor (i, cw), health of each address | New, Get, Update, Remove, Feedback | pools and RPC client call Get and Feedback |
| logger | `go-xlog/xlog.go` | record channel, error channel, dirMap, log files, current file | New, Write, Close, the flush goroutine | the disk |
| servers | `go-xtcpapi/server.go`, `go-xp/server.go`, `go-xtcpapi/tcp.go`, `go-xserver/xserver.go` | listener, acceptDone, exit, wait group; errs, done, signals; inherited listeners | Serve, Quit; Serve, notify; Listen, StartProcess | kernel sockets, signals, child process |
| RPC | `go-xp/router.go`, `go-xp/client.go` | per connection: queue, readDone, two goroutines; per client: the pools | Handle, read, write, handle; RoundTrip | pools, scheduler, servers |
| cache | `go-xcache/xcache.go` | buckets of elements that may expire, a lock each; the cleaner, stop | Set, ESet, Get, Del, Close | the caller's Finalizer |
| buffer pool | `go-xbufferpool/xbufferpool.go` | channel of buffers; the buffer of each XBuffer | Get, XBuffer.Close (put), Close | the garbage collector |
| limiter | `go-xlimit/limit.go` | count, start of the period | New, Allow | |
| HTTP router | `go-xrouter/*.go` | a radix tree and its lock per method | Handle, Remove, ServeHTTP, CleanPath | net/http |
| keyword filter | `go-xkwfilter/xkwfilter.go` | automaton; state and held bytes of one Filter | New, Filter | reader and writer |
| process id file | `go-xpid/pid.go` | the file and temporary files | Set, Get | the file system |
| logger configuration | `go-xlog/xconfig.go` | the fields of XConfig | Import, Export | logger |

These keep no state and are not modelled (section 7): `go-xpacket`, `go-xretry`,
`go-xvalid`, `go-xecb`, `go-xrandstring`, `go-xdebug`, `go-xassert`.

What is hard in this code, and what has to hold:

* Connection pool. `put` sends on a channel that `Close` closes (the panic is
  recovered); users may close, release and unuse one XConn from several
  goroutines; `net.Conn.Close` may fail. A connection must have one owner, none
  may be lost, and none that is closed may be handed out.
* Connection pools. Lookup and Set are two critical sections; the cleaner works
  while calls go on; callbacks run under the read lock. No pool may get out of reach of
  Close but those of callers that raced for one address, and nobody may wait for ever.
* Scheduler. Weights are kept divided by their gcd and multiplied back on
  update; the cursor is shared by callers, removal shifts it, and cw may be left from a
  larger maximum. Turns must be proportional, the way out after the last try must stay
  the exception it is meant to be, no outage may be invented, and an address must recover.
* Logger. Writers, flush and Close talk over three channels; the process may
  die and the disk fail at any call. Nothing accepted may be lost by Close,
  nobody may block for ever, the files keep their limits over restarts.
* Servers. Connections accepted while the listener is closed, handlers that
  never return, signals while a process starts or ends, and a parent and a child
  on one socket.
* RPC. A reader and a writer goroutine share a channel that the reader fills and
  the writer closes; client and server must agree when a connection is finished.
* Cache. The clock is read before the lock and finalizers run after it, so Set, Del
  and the cleaner race. Each value must be finalized once, and no bucket forgotten.
* Buffer pool. A buffer is given back before it is forgotten. It must be empty and
  out of use by then.
* HTTP router. Adding splits nodes and, when it fails below, must undo that; removing
  joins them again. The tree must be that of its routes, whatever calls made it, and
  serve exactly them (section 6 says what a path with an empty segment and a malformed
  route are to the code), also while routes change between the lookups of a request.
* Keyword filter. Failure links, held bytes and masks that several keywords share.
* Limiter, process id file, configuration. Late callers at a lock; a process that
  dies between two calls of the system, or cannot remove a file; precision that is lost
  again and again.

The full list of hazards, each at its line, is in `PROJECT.json`.

## 2. Modules

| module | models | built on |
|---|---|---|
| `ConnLedger` | abstract specification: what a pool promises of each connection | |
| `XConnPool` | the pool's channel, mutexes and wrappers, one action per such step | refines `ConnLedger` |
| `XConnPoolProofs` | theorems about `XConnPool` | |
| `XConnPools` | selectPool, the cleaner, Close, and the map's read-write lock | pools are open or closed only |
| `XCache` | Set, Del, Close and the cleaner, with each bucket's lock | |
| `XBufferPool` | the channel of buffers, the steps of an XBuffer's Close | |
| `PoolsProofs` | theorems about `XCache` and `XBufferPool` | |
| `MCPools` | instance of `XConnPool`, `XBufferPool` and `XCache` | one of them in each behaviour |
| `XSched` | the weighted round robin of New, Get, Update, Remove | addresses are available or not |
| `AddrUnit` | the health of one address: Feedback and IsAvailable | |
| `MCXSched` | instance of `XSched` and `AddrUnit` | one of them in each behaviour |
| `XSchedProofs` | theorems about `XSched` and `AddrUnit` | |
| `XLogPipe` | bc, errorChan, exitChan between Write, flush and Close | |
| `XLogFiles` | files of one directory: open, rotate, clean up, write | |
| `XLogger`, `MCXLogger` | a whole logger, with crashes and restarts | extends `XLogPipe` and `XLogFiles` |
| `XLoggerProofs` | theorems about `XLogger` | |
| `XLogDir`, `XLogDirProofs` | dirMap: which logger has which directory; theorems | |
| `TcpServer` | Serve, handlers and Quit of servers that share a socket | |
| `XServer` | the process manager: signals, restart, exit | extends `TcpServer` |
| `XServerProofs` | theorems about `TcpServer` and `XServer` | |
| `XpRouter` | Router.Handle: reader, writer and channel of each connection | |
| `Xp` | RoundTrip and other clients against the router | extends `XpRouter`, uses `ConnLedger` |
| `XpProofs` | theorems about `XpRouter` and `Xp` | |
| `RouteTree` | the radix tree: add, remove, get and their helpers, as operators | recursive |
| `CleanPath` | the canonical form of a path | recursive |
| `XRouter`, `MCXRouter` | Handle, Remove and the lookups of a request | extends both |
| `XKwFilter`, `MCXKwFilter` | New with its automaton, Filter turn by turn | recursive |
| `XLimit` | New and Allow | |
| `XPid` | Set in its system calls | |
| `XLogConfig` | sizes and ages through Export and Import | |
| `MCLibraries` | instance of `XRouter`, `CleanPath`, `XConnPools`, `XKwFilter`, `XLimit`, `XPid` and `XLogConfig` | one of them in each behaviour |
| `LibrariesProofs` | theorems about `XConnPools`, `XLimit`, `XPid` and `XLogConfig` | |

How a model follows the code: every variable is a field, a channel, a local that
outlives a step, or a program counter named for the step; every action is the
code between two points where another goroutine can be noticed (a channel or
mutex operation, a call of the system, an atomic counter). A `select` is one
action per case. A recovered panic is the action of its deferred function.
`PROJECT.json` maps every definition to its lines. Definitions that begin with
the comment "Mutant of" are bugs put in on purpose: each property is shown to
fail when the definition named there is replaced by its mutant.

Parts that do not interact share a run: a variable `part`, chosen at the start,
says which one moves. The others keep their initial states, so the numbers of
states add up and nothing is combined that the code does not combine. Each
property is that of its module, and fairness is assumed of the part that moves.
`MCPools` extends its three modules, `MCLibraries` extends `XConnPools`, `XLimit`, `XPid`
and `XLogConfig`, and `MCXSched` extends `XSched`, so TLC evaluates the assumptions of their
constants. Of the modules they instantiate besides (`XRouter`, `XKwFilter`; `AddrUnit`) the
last has an assumption; it is a definition (`PeriodsAssumption`) that `MCXSched` assumes.
Names that would clash between modules that are extended together have a prefix of their own
(`bufPc`, `cachePc`, `limitVars`) or say what they count (`used` is the field `count` of the limiter).

Loops that end in something simple to say are modelled by that. `New` of `XSched` gives
the addresses in the order in which the list names each for the last time (`ListedAt`), as
the code does by removing an address that comes again and appending it. Where the way
matters it is kept: `gcd` is Euclid's, and `MaxAll` and `GcdAll` fold over the weights, as
functions and folds of which proofs can speak.

A state that only tells the properties what happened is marked "history" where it
is declared: the registered `routes` and `call.kept` of `XRouter`, `finalized` and
`replaced` of `XCache`, `allowed` and `start` of `XLimit`, `size0` and `age0` of
`XLogConfig`; `up`, `alone`, `late` and `served` of `XSched`, which tell for each caller what
was available and met by nobody else since it began, and whether cw was above max then;
`raced` of `XConnPools`, the pools of callers that were on their way to set one for the same
address; `stuck` in the files of `XLogFiles` and `XPid`, which could not be removed when that was
last tried.

Composition: `Xp` does not repeat the pool but uses the ledger, which is sound
because the pool implements the ledger (property `ImplementsLedger` of the run
`Pools`, theorem `LedgerRefinement`). `XLogger` puts `XLogFiles` under `XLogPipe`: one write of flush is
one step of both. `XServer` runs one `TcpServer` in each process, on one socket.

## 3. Runs

`CHECK_DEADLOCK FALSE` appears only where a whole program may end or all calls
may be used up.

| run | what it shows | bounds |
|---|---|---|
| `Pools` | connections: one owner, no leak, pooled ones are open, the channel implements the ledger, a closed pool drains, calls return; buffers: a pooled one is empty and unused; cache: each value is finalized once, and every bucket is cleaned until Close | 2 goroutines, 2 connections, 3 wrappers, capacity 1, closes may fail; 3 goroutines, 5 buffers, capacity 2; 2 goroutines, 2 keys in 2 buckets, 2 values, clock to 3 |
| `XConnPools_race` | violated: with two callers, two pools for one address | 2 callers, 1 address |
| `XSched` | weights survive division and updates and stay normalised, turns are proportional, Get runs out of tries only with a stale cw or among callers that meet, no invented outage, removal keeps the cursor; back-off keeps its pace, only time wakes an address, a well host recovers | part "Weights": 1 caller, 3 addresses, weights 0 to 3 that sum to 6 at most; part "Callers": 2 callers, 2 addresses, weights 0, 1 and 4; part "AddrUnit": one address with the code's own periods, in units of two seconds |
| `XLogger` | Close loses nothing, no circular wait, numbers, sizes and ages of the files keep their limits, but for files that could not be removed | channels of 1, size 2, 2 backups, age 1; part "Pipe": 2 writers, 3 records, files can be removed; part "Files": 1 writer, 2 records, one removal fails in each clean-up |
| `XLogDir_two` | violated: a refused New frees the directory of another logger | 3 loggers, 1 directory |
| `XServer` | Quit waits for all accepted connections, nil means drained, SIGTERM ends the process | parent and child, 1 connection |
| `XServer_restart` | violated: a restart can leave nobody serving | the same |
| `Xp` | responses match, the pool holds served connections only, pipelined requests are answered in order and completely, RoundTrip returns | 2 callers on 1 pooled connection, another client with 2 requests, queue of 1 |
| `Xp_panic` | violated: the reader panics on the closed queue | the same |
| `Libraries` | router: a tree is that of its routes, serves exactly them, refuses exactly the conflicting and the malformed ones it does not overlook, redirects where a slash is missing or too much, and answers routed requests while routes change; CleanPath is canonical; connection pools: none orphaned but by callers that race for one address, Close reaches all, calls return, the cleaner exits; filter: nothing but keywords is masked, and every keyword unless it lies inside the beginning of another or behind two that part; limiter: never more than the limit per period; id file: never half an id; configuration: exporting loses little | 13 routes of GET (`RoutesBound`) and one of POST, 17 looked up paths, 4 of them with an empty segment, 3 requests; all paths of up to 7 characters; 2 callers with 2 calls on 1 address, or 1 caller with 2 calls on 2 addresses or 3 on one (`GetsBound`); 12 dictionaries and all texts of 5 letters; 2 callers, limits 1 and 2; 2 processes, removal may fail; 48 sizes and 37 ages, one of which loses three times |
| `XRouter_prefix` | violated: a parameter whose name begins like a registered one is accepted | 4 routes |
| `XKwFilter_link` | violated: a keyword is missed behind two that branch | 3 keywords, all texts of 4 letters before a foreign one |

The type invariant of the connection pool, on which its proofs rest, is a run's
invariant. `TypeOK` in the other modules says what their variables hold and is
no run's question.

Why these bounds are enough. Capacities are one so that every buffer is full,
empty and overfull within a few steps. Two goroutines suffice for the races
found here, which are between two steps of one actor and one of another; three
wrappers let one connection be reused and double-closed; two connections let
one be pooled while the other finds no room. Three addresses with weights up to
three contain all gcd and maximum cases that differ; two callers need weights further apart,
one and four, for a maximum that falls below cw by more than one round, and two addresses, so
that the tries of one caller may fall on one of them while the other caller takes the other. Two backups and files of
size two make the limit by number, by size and by age act separately and
together; one removal that fails at each clean-up lets the number of files grow beyond any
limit, up to the bound on records. Parent and child are all the processes that matter to each other: a
child never looks at its grandparent. The routes of `Libraries` contain every kind of node,
splits inside and before a wildcard, parameters with a slash, without one and with
children on both sides, a catch-all beside them and one behind them, malformed routes, one of
which runs on from one parameter into a second, and pairs that conflict; a route more changes
no case of `add`, `remove` or `get`. The two routes added last come with those below
the same parameter only, the others do not change what becomes of them (`RoutesBound`). The texts of
five letters let three letters of held bytes meet a failure link. Requests may
meet any number of changes of seven of the routes between their lookups. Three users of
two buffers make the pool empty, full and overfull.

What a bound hides: two connections that go through Quit at the same time, three callers in
`XConnPools` or two with two addresses (`NoOrphan` and `CloseReachesAll` are theorems for any number),
two callers of `XSched` with three addresses, two removals that fail in one clean-up or two
writers beside one that fails (the properties of `XSched` and the files are theorems, too), a
catch-all below a parameter together with static routes, and several servers in one process.

## 4. Fairness

Go runs every goroutine that can run: weak fairness of each goroutine's steps.
Strong fairness is used where the runtime queues: senders blocked on a channel
are served in turn (`WriteEnd` in `XLogPipe`), a blocked writer of a RWMutex keeps
new readers out (`XConnPools`), and a `select` chooses at random among ready cases
(`CleanExit` of `XConnPools` and of `XCache`). In `XCache` the ticker is one that ticks
again and again (`CleanTick`). No fairness is assumed of users, clients, failures, crashes,
signals and time, except that timers expire (`QuitTimeout`) and that feedback goes
on in `AddrUnit`. `Xp` assumes that handlers return; `XServer` does not.

## 5. Proofs

Each theorem holds for every value of the constants that meets the assumptions
named in the modules. The argument is the same everywhere: an inductive invariant,
one lemma for each action or group of actions that says what it leaves of the
invariant, and the property as a consequence. `PROJECT.json` lists the theorems.

**Connection pool** (`XConnPoolProofs`): any number of goroutines, connections and
wrappers, any capacity, closes that may fail or not. The run's four invariants
(`TypeCorrect`, `Ownership`, `Leakless`, `PooledOpen`) rest on `IInv`. They are not
inductive alone: that a connection has one owner needs that the steps of Close and
Release happen under the wrapper's mutex (`LockInv`), that each step leaves the wrapper
in the state its label says (`LabelInv`), that a wrapper or connection not yet used is
nowhere (`FreshInv`), and a form of ownership that counts the hand of the drain loop
(`OwnedInv`). `LedgerRefinement` maps every step to a step of `ConnLedger` or to a
stutter; it adds `EntryInv`, which says where a connection is for each entry of the
ledger. This is what lets `Xp` and its proofs use the ledger for the pool.

**Directories of loggers** (`XLogDirProofs`). `NoStale`: no binding is left
behind. `SoundUnlessRefused`: directories that no New was refused have one logger
each. With the run `XLogDir_two` this is complete: the deferred unbind of a
refused New is the only way to two loggers. The strengthening `Owned` speaks of
every logger whose New has begun, because a New that fails later owns the binding
until its deferred function has run.

**Cache and buffer pool** (`PoolsProofs`). `CacheFinalizesOnce`: a value set is
in exactly one place, on its way in, in the map, taken out by one Del or by the
cleaner, replaced, or finalized (`OnePlace`), and no place holds a value twice
(`OnceEach`). `BuffersApart`: a pooled buffer is clean and unused, because Close empties
it first (`BufferLabels`), and between `put` and the assignment of nil the XBuffer
names a buffer that is no longer its own (`Has`, `BufferApart`). Assumption on the model's bound: there are at least as
many buffers as goroutines and places, so that one can always be made.

**Connection pools, limiter, process id file** (`LibrariesProofs`). `ClosesAll`, for any
number of callers: the map stands still while Close goes through it (`Visits`), and
`PoolsLeft` shows that the bound on pools never stops a call. `NoneOrphaned`, for any number
of callers beside the cleaner and Close: the only pools that are lost are those of callers that
looked one address up while another was about to set a pool for it. Its invariant `RaceInv` says
what the cleaner deletes: the address of a pool that it has closed, or one under which a
racing caller has meanwhile set its pool. Together with the run `XConnPools_race`, which shows
the race, this is complete. `LimitPerPeriod`:
the invariant says that some number of whole periods has passed which together let
`limit` times as many operations through, besides those counted in the present one
(`Passed`); that a period is reached by division is a lemma (`DivFits`). `PidFileWhole`, for
processes that fail or die at any step, and may fail to remove their temporary file.

**Logger configuration** (`LibrariesProofs`). `ExportsKeep`, for any size and age and any
number of exports and imports. A value is written in the first unit in which it loses
less than a hundredth (`Readable`), so it never goes back to a smaller unit than the one it
came to, and loses nothing in that one again (`NextUnit`). The invariant says for each unit
what was lost on the way to it (`Sized`, `Aged`). A hundredth for each unit passed would be too
weak: there are three units above the byte and five above the minute, and two and three
hundredths are claimed. What a value lost in small units is also bounded by those units,
and is little against a value that has come to a large one: weeks that become months with a
loss are at least fifteen, and months that become years with a loss make at least two years.

**Logger** (`XLoggerProofs`), with crashes and restarts and any call of the disk
failing. `CloseFlushes`: what Write accepted is at any time what flush has handled,
the record in its hand and those in `bc`, in this order (`PipeInv`).
`FilesWithinLimits` and `RotationDeletesOld`: cleaning up tries to remove the oldest files up
to the first that has not expired, which are all that have because every step leaves the files
sorted by age (`Sorted` in `FilesInv`). Any of these removals may fail, unseen by the code; the
files that stay are the oldest, so they are first again at the next clean-up, and
every file beyond the limits is one of them (`CleanedUp`).
Assumption: there is a longest record.

**Servers** (`XServerProofs`), any number of processes and connections, signals at
any time, a user's to a process that is starting included. `NilIsDrained` has two parts.
A nil of Quit means that the accepted connections are handled: Quit gets past
`acceptDone` only when Serve has stopped (`StoppedFirst`), and only the connection in
Serve's hand has no handler yet (`OneInHand`). A nil of Serve is one of `done`,
closed after Quit, or one of `errs`, sent by a restart (`NilOnRestart`, `OneRestart`).
`TypesCorrect` counts the sends to `errs`, three at most (`Sends`): the code makes
room for three, so none waits, and the model can leave the capacity out.

**RPC** (`XpProofs`), any number of calls, connections and requests, packets,
dials and handlers that fail, a server that may exit. `ResponsesMatch`: a pooled
connection carries one request at most, the caller's own, wherever it is between
encoder and decoder (`Carries`). `IdleAreServed`: a router reads from a pooled connection,
or its last word, a server error, is still to be read (`Healthy`, `Failed`).
`PipelinesServed`: requests sent in a row keep their order in the packets sent, the
reader's hand, the channel, the writer's hand and the responses (`InOrder`).

**Scheduler** (`XSchedProofs`). `KeepsPace` and `WakesByTime`, for any limits of the
periods that doublings lead to, as the code's shifts do (`PeriodsAssumption`).
`WeightsStayFaithful`: the table is that of the configured weights, reduced (`Reduces`),
through any updates and removals. It rests on lemmas about the loops that compute the
greatest common divisor and the maximum of the weights: Euclid's algorithm ends in the
gcd, by well-founded induction on a set of counterexamples, and a fold over the
addresses gives the gcd and the maximum whatever order it takes. Its hypothesis is that a list given to New
repeats no address, since the weight of an overwritten duplicate stays in `max` and `delta`
(section 6). `CursorFollows`: Remove of another address leaves the cursor
where it is. `OutagesAreReal` and `LastResortIsRare`, for any number of callers that
share the cursor: 2n tries pass every position, also from a cursor beyond the end, and what the others
do to the cursor is only to come to the addresses that they try. So an address that the
caller has to itself (`alone`) is passed by its own tries, and one of the heaviest is returned
there, since cw never rises above max while a Get goes on (`Overlooked`). `Back` counts how many tries ago a position was
passed. Where the others may come to every address, what remains is `OutagesNeedOne`, that some
address was not available all the time the caller looked: a try that meets an available address
is remembered, so a caller that remembers none and saw all available has made no try yet
(`LooksInv`).

`TurnsAreProportional` holds for any number of callers, for lists that repeat addresses too,
after any updates and removals, and whatever cw was before. It counts turns (`TryHit`); what
Get returns after its last try (`GetEnd`) is no turn. A window of turns is between two points of the rounds,
each a value of `cw` and a cursor, which pass downwards through `cw` and upwards through the cursor.
How often an address was returned since the beginning of a round is a function of the point
(`Hits`): its weight less `cw`, one more when the cursor has passed it. The invariant (`TurnsInv`) says that `served`
is the difference of the two ends, plus a whole weight when the rounds began again in between;
it never goes beyond the first end a second time (`NoLater`). So `served` of every address is at
most its weight as long as the second end has not come back to the first, and when the sums are
equal each is equal (`SumsCompare`). That these sums over a set of addresses are what
the fold computes is shown without induction over data: there is no smallest set on which the
fold's recursion has no solution (`SumDefined`, `SumIterates`).

Only model-checked:

* Liveness, which needs fairness and ENABLED, out of the prover's reach: `CallsReturn` of
  the pool, the pools and the logger, `CleanerWorks`, `TermExits`, `RoundTripReturns`,
  `Recovers`.
* What recursive operators compute (`RouteTree`, `CleanPath`, `XKwFilter`), so `Canonical`,
  `ServesRoutes`, `RefusesConflicts`, `TrailingSlashFound`, `RoutedAnswered`,
  `CleanCanonical` and `EndedFilterMasks`.

## 6. Where the code differs from its documents

Shown by a run (`findings` in `PROJECT.json`):

1. `xconnpools.go:89`: two pools for one address; the overwritten one is never closed.
2. `xlog.go:85`: a refused New frees a directory in use.
3. `xserver.go:115`: the parent exits at once on a restart, the child's signal to
   it may fail, and then the child exits as well.
4. `router.go:127`: the reader sends on a closed channel and the process panics.
5. `tree.go:149`: with `/:a/` registered, `/:ab` is accepted instead of refused, and its
   handle is stored under `/:a`.
6. `xkwfilter.go:267`: the failure links of a state's second and later children may be too
   short, so a keyword that begins inside another one is missed.

Met while modelling, visible in the models, without a run of their own:

* `xconnpool.go:48`: after `put` found the pool closed, the XConn is not marked closed,
  so a later Close is not refused as line 22 says. `RawGet` of a closed pool
  dials (line 154, against line 19). A closed XConn can still be read and
  written through the embedded net.Conn (line 29).
* `xconnpools.go:118`: the cleaner may close a pool between its selection and its use.
  `xconnpools.go:132`: where two callers race for one address, the second Set may come between
  the cleaner's visit and its Delete, which then loses the open pool that was set last: a pool of
  the race is lost by Set or by Delete, and no other one is (`raced`, `NoOrphan`).
* `xsched.go:121`, `xsched.go:143`: when Update or Remove lowers the maximum, cw stays where
  it was, above every weight. Until it has come down, two at each call, every Get uses up its
  2n tries and returns the address it tried last, and since 2n tries leave the cursor where it was, that is
  the same address each time: after A:100 and B:99 have both been updated to 1, about 49 calls in
  a row return one of the two. The comment at line 141 names high concurrency as the reason for
  this way out. `Proportional` counts the turns (`TryHit`), on top of which these returns
  come; `LastResort` says that a caller past a heaviest address that is available and that it has to
  itself comes to its last try in this way only (`late`).
* `xsched.go:126`: with two callers, the 2n tries of one may all meet unavailable
  addresses while another is available, if the other caller comes to that (`alone`). `xsched.go:79`: the weight of an overwritten
  duplicate still counts in max. `xsched.go:322`: exactly ten percent of failures takes
  an address out (line 301 says greater).
* `xlog.go:182`: Write after Close may return an old error; a Write may return the error
  of an earlier record and drop its own. `xlog.go:265`: a failing disk does not close the
  logger (line 229). `xlog.go:282`: a new error is dropped if callers empty the channel
  meanwhile. `xlog.go:316`: a file passes MaxSize by less than one record.
  `xlog.go:326`: if cleanup fails after the full file was closed, every later record fails.
  `xlog.go:531`: that a file could not be removed is ignored, so there may be more than MaxBackups
  files, and files older than MaxAge, while the logger goes on without an error
  (`stuck` in `FilesBounded` and `RotationExpires`).
* `server.go:121`: Quit before Serve made its channels never returns.
  `server.go:125`: after a timeout the goroutine in wg.Wait is left behind.
* `xserver.go:69`: when Quit fails, Serve may still return nil, by the choice of select.
* `go-xp/server.go:89`: no recover, unlike its twin.
* `go-xp/client.go:44`: the first calls race to create the pools.
  `client.go:95`: Feedback names the remote ip:port, not the scheduler's address.
* `tree.go:447`: a redirection may be recommended to a path that is not found either:
  with `/a` and `/a/` registered, what follows decides (`TrailingSlashFound` states what
  does hold).
* `tree.go:397`: a segment of length zero is never a parameter's value, but what follows the
  parameter is still looked at. With `/a/:x` and `/a/:x/b` registered, `/a//b` is served by
  the second without a value for `x`; with `/a/:x/*y` alone `/a//` and what follows is served
  without `x`. Where `/a/:x/b` is registered and `/a/:x` is not, the slash is in the parameter's node
  and is passed over with it, so `/a//b` is not found. `Matches` says what is found,
  and `ServesRoutes` that nothing else is, and that on paths without an empty segment each wildcard has a value.
* `tree.go:283`: a second wildcard in a segment is refused where the node is made, and
  overlooked where `add` finds the first wildcard's node: with `/a/:x` registered, `/a/:x:y` is accepted
  as a parameter `y` below `x` (`tree.go:141`), or, where `/a/:x/b` is registered and `/a/:x` is
  not, its handle is stored at `/a/:x`; `tree_test.go` refuses such a path alone. `Overlooked` says
  exactly when. What the tree does after that is left open (`WellFormed`).
* `xrouter.go:265`: a catch-all `/files/*path` is said to match `/files/` and to bind values
  that begin with a slash; it does neither. `xrouter.go:324`: with the root registered, a
  path that is cleaned to the root is not redirected but answered with 405 or 404. The
  comment on RedirectFixedPath speaks of a lookup that ignores case; there is none.
* `xkwfilter.go:161`: bytes held back at the end of the stream are lost, a whole keyword
  included, of which no mask is written. `xkwfilter.go:132`: a keyword that lies inside the
  beginning of another, neither of them a prefix, is written unmasked when the other does not go on:
  with `abcd` and `bc`, the text `abce` and a foreign byte passes as it is (`Nested`).
  `xkwfilter.go:195`: New panics when a keyword is a
  prefix of an earlier one, or when there is no keyword (`Panics`).
* `xcache.go:156`: a value that Set replaces is never finalized (`replaced`). `xcache.go:170`: Get may
  return a value that another goroutine finalizes meanwhile. `xcache.go:117`: a second Close panics.
* `xbufferpool.go:164`: `break` ends the select and not the loop, so Close never returns.
* `limit.go:47`: periods are not sliding: two limits may be used in one stretch of time as
  long as a period, and more when callers are late at the lock. `limit.go:30`: a
  duration of zero divides by zero.
* `xconfig.go:121`: a number times its unit may overflow. `xconfig.go:224`: an age is cut to
  minutes; one conversion loses less than a percent, several lose more: 538 days less a minute
  become 537 days, then 76 weeks, then 17 months (`ExportKeeps` bounds what is lost in all).
* `pid.go:44`: when chmod or the write fails, the temporary file is removed but not closed;
  `pid.go:40`: that it could not be removed is ignored, and it stays (`stuck`).
* `xretry.go:46`: the last retry returns a FatalError as it is, where line 19 says the
  original error is returned.

## 7. Not modelled

* `go-xpacket`: a codec without state over a stream; `Xp` takes a packet as one message,
  and releases a connection on which one broke off.
* `go-xretry`: one loop of one goroutine.
* `go-xvalid`: checks of fields by reflection, one comparison per term, sequential and
  stateless; `go-xecb`: a loop over blocks; `go-xrandstring`, `go-xdebug`, `go-xassert`: helpers
  without state; `go-xp/xp.pb.go`: generated.
* Inside modelled parts: formatting and parsing of records, addresses and numbers; TLS;
  the contents of requests and responses; several servers in one process; the list of
  inherited listeners in `tcp.go`; Lookup and Bind of the RPC router, which are the choice
  of a code; CONNECT requests, of which nothing is redirected (`Lookup` has the condition,
  no run has such a request).

`PROJECT.json` gives the reason for each component.

## 8. Plan

Every safety property that a run checks is a theorem, but for those of the recursive
modules. What could follow:

1. `XRouter`, `XKwFilter` and `CleanPath` with recursive functions in place of recursive
   operators, so that a theorem can speak of their steps. What their algorithms compute for
   every input would still need induction over data.
2. Several servers in one process, and the matching of inherited listeners in `tcp.go`.
