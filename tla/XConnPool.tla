------------------------------ MODULE XConnPool ------------------------------
(***************************************************************************)
(* go-xconnpool/xconnpool.go: a connection pool built on a buffered channel *)
(* of connections.  Get receives an idle connection or dials a new one and  *)
(* wraps it in a fresh XConn; closing the XConn sends the connection back   *)
(* through put; closing the pool closes the channel and drains it.          *)
(* Goroutines interleave between any two channel operations, dials and      *)
(* closes of a network connection.  An XConn may be shared: any goroutine   *)
(* may call Close, Release or Unuse on any XConn, serialised by its mutex.  *)
(***************************************************************************)
EXTENDS Naturals, Sequences, FiniteSets

CONSTANTS Procs,         \* goroutines
          Conns,         \* connections the factory may create
          XConns,        \* wrappers that Get and RawGet may create
          Capacity,      \* capacity of the channel
          CloseMayFail,  \* may closing an open connection report an error?
          None           \* no connection, no wrapper, no goroutine

ASSUME CapacityAssumption == Capacity \in Nat
ASSUME FailAssumption == CloseMayFail \in BOOLEAN
ASSUME NoneAssumption == None \notin Procs \cup Conns \cup XConns

\* A wrapper is not one of the other entries of the ledger (ConnLedger).
ASSUME EntryAssumption == {"undialed", "idle", "released"} \cap XConns = {}

VARIABLES conns,      \* the buffered channel: idle connections, oldest first
          chanClosed, \* the channel has been closed
          net,        \* Conns -> "undialed", "open" or "closed"
          conn,       \* XConns -> wrapped connection (None: not created)
          unuse,      \* XConns -> the unuse flag
          closed,     \* XConns -> the closed flag
          mtx,        \* XConns -> goroutine holding the mutex
          pc,         \* Procs -> where the goroutine is in the pool's code
          cur,        \* Procs -> the XConn it operates on
          hand,       \* Procs -> connection received by the pool's drain loop
          failed      \* history: connections whose Close reported an error

wrappers == <<conn, unuse>>
vars == <<conns, chanClosed, net, wrappers, closed, mtx, pc, cur, hand, failed>>

\* Labels of the steps an XConn method takes with xc.mtx locked.
Locked == {"put", "discard", "recover", "release", "mark"}
Labels == Locked \cup {"idle", "dial", "drain", "drainClose"}

Idle(p) == pc[p] = "idle"
Goto(p, label) == pc' = [pc EXCEPT ![p] = label]

Init == /\ conns = <<>>
        /\ chanClosed = FALSE
        /\ net = [c \in Conns |-> "undialed"]
        /\ conn = [x \in XConns |-> None]
        /\ unuse = [x \in XConns |-> FALSE]
        /\ closed = [x \in XConns |-> FALSE]
        /\ mtx = [x \in XConns |-> None]
        /\ pc = [p \in Procs |-> "idle"]
        /\ cur = [p \in Procs |-> None]
        /\ hand = [p \in Procs |-> None]
        /\ failed = {}

-----------------------------------------------------------------------------
(* Get, RawGet and wrapConn.                                                *)

\* The next wrapper to be created: which name a new XConn gets says nothing.
NextXConn == CHOOSE x \in XConns : conn[x] = None

\* The next connection to be dialled, likewise.
NextConn == CHOOSE c \in Conns : net[c] = "undialed"

\* wrapConn: a new XConn around connection c.
wrapConn(x, c) == /\ conn[x] = None
                  /\ x = NextXConn
                  /\ conn' = [conn EXCEPT ![x] = c]
                  /\ UNCHANGED <<unuse, closed, mtx>>

\* The receive case of Get's select, which a closed channel still serves
\* while it holds connections.
GetIdle(p, x) == /\ Idle(p)
                 /\ conns # <<>>
                 /\ wrapConn(x, Head(conns))
                 /\ conns' = Tail(conns)
                 /\ UNCHANGED <<chanClosed, net, pc, cur, hand, failed>>

\* A receive from a closed, empty channel yields nil: Get returns ErrClosed.
GetClosed(p) == /\ Idle(p)
                /\ conns = <<>>
                /\ chanClosed
                /\ UNCHANGED vars

\* The default case of Get's select: an open channel with nothing to receive.
GetDefault(p) == /\ Idle(p)
                 /\ conns = <<>>
                 /\ ~chanClosed
                 /\ Goto(p, "dial")
                 /\ UNCHANGED <<conns, chanClosed, net, wrappers, closed, mtx, cur, hand, failed>>

\* RawGet looks at nothing before it dials.
RawGet(p) == /\ Idle(p)
             /\ Goto(p, "dial")
             /\ UNCHANGED <<conns, chanClosed, net, wrappers, closed, mtx, cur, hand, failed>>

\* The factory returns a new connection, which is wrapped.
DialOk(p, x, c) == /\ pc[p] = "dial"
                   /\ net[c] = "undialed" /\ c = NextConn
                   /\ net' = [net EXCEPT ![c] = "open"]
                   /\ wrapConn(x, c)
                   /\ Goto(p, "idle")
                   /\ UNCHANGED <<conns, chanClosed, cur, hand, failed>>

\* The factory returns an error, which the caller gets.
DialFail(p) == /\ pc[p] = "dial"
               /\ Goto(p, "idle")
               /\ UNCHANGED <<conns, chanClosed, net, wrappers, closed, mtx, cur, hand, failed>>

-----------------------------------------------------------------------------
(* net.Conn.Close.                                                          *)

\* Closing an open connection closes it and may still report an error;
\* closing a closed one reports an error.
CloseConn(c, ok) ==
    /\ \/ net[c] = "open" /\ ok
       \/ net[c] = "open" /\ CloseMayFail /\ ~ok
       \/ net[c] = "closed" /\ ~ok
    /\ net' = [net EXCEPT ![c] = "closed"]
    /\ failed' = IF ok THEN failed ELSE failed \cup {c}

-----------------------------------------------------------------------------
(* XConn.Close, XConn.Release, XConn.Unuse and XConnPool.put.               *)

\* Mutant of Enter: xc.closed is not checked.
EnterUnchecked(p, x, label) ==
    /\ Idle(p)
    /\ conn[x] # None
    /\ mtx[x] = None
    /\ mtx' = [mtx EXCEPT ![x] = p]
    /\ cur' = [cur EXCEPT ![p] = x]
    /\ Goto(p, label)
    /\ UNCHANGED <<conns, chanClosed, net, wrappers, closed, hand, failed>>

\* Lock xc.mtx with xc not closed, and go on to the given step.
Enter(p, x, label) == /\ Idle(p)
                      /\ conn[x] # None
                      /\ mtx[x] = None
                      /\ ~closed[x]
                      /\ mtx' = [mtx EXCEPT ![x] = p]
                      /\ cur' = [cur EXCEPT ![p] = x]
                      /\ Goto(p, label)
                      /\ UNCHANGED <<conns, chanClosed, net, wrappers, closed, hand, failed>>

\* Unlock and return.
Leave(p) == /\ mtx' = [mtx EXCEPT ![cur[p]] = None]
            /\ cur' = [cur EXCEPT ![p] = None]
            /\ Goto(p, "idle")

Close(p, x) == Enter(p, x, IF unuse[x] THEN "release" ELSE "put")

Release(p, x) == Enter(p, x, "release")

\* Close or Release of an XConn marked closed returns ErrXConnClosed.
Refused(p, x) == /\ Idle(p)
                 /\ mtx[x] = None
                 /\ closed[x]
                 /\ UNCHANGED vars

Unuse(p, x) == /\ Idle(p)
               /\ conn[x] # None
               /\ mtx[x] = None
               /\ unuse' = [unuse EXCEPT ![x] = TRUE]
               /\ UNCHANGED <<conns, chanClosed, net, conn, closed, mtx, pc, cur, hand, failed>>

\* Mutant of PutSend: one connection more than the buffer holds.
PutSendOverfull(p) == /\ pc[p] = "put"
                      /\ ~chanClosed
                      /\ Len(conns) <= Capacity
                      /\ conns' = Append(conns, conn[cur[p]])
                      /\ Goto(p, "mark")
                      /\ UNCHANGED <<chanClosed, net, wrappers, closed, mtx, cur, hand, failed>>

\* Mutant of PutSend: a closed pool still takes connections.
PutSendClosed(p) == /\ pc[p] = "put"
                    /\ Len(conns) < Capacity
                    /\ conns' = Append(conns, conn[cur[p]])
                    /\ Goto(p, "mark")
                    /\ UNCHANGED <<chanClosed, net, wrappers, closed, mtx, cur, hand, failed>>

\* put's send case: the channel is open and its buffer has room.
PutSend(p) == /\ pc[p] = "put"
              /\ ~chanClosed
              /\ Len(conns) < Capacity
              /\ conns' = Append(conns, conn[cur[p]])
              /\ Goto(p, "mark")
              /\ UNCHANGED <<chanClosed, net, wrappers, closed, mtx, cur, hand, failed>>

\* Mutant of PutFull: the connection a full pool does not take is not closed.
PutFullDropped(p) == /\ pc[p] = "put"
                     /\ ~chanClosed
                     /\ Len(conns) >= Capacity
                     /\ Goto(p, "mark")
                     /\ UNCHANGED <<conns, chanClosed, net, wrappers, closed, mtx, cur, hand, failed>>

\* put's default case: the buffer is full.
PutFull(p) == /\ pc[p] = "put"
              /\ ~chanClosed
              /\ Len(conns) >= Capacity
              /\ Goto(p, "discard")
              /\ UNCHANGED <<conns, chanClosed, net, wrappers, closed, mtx, cur, hand, failed>>

\* The send panics on a closed channel; put recovers.
PutClosed(p) == /\ pc[p] = "put"
                /\ chanClosed
                /\ Goto(p, "recover")
                /\ UNCHANGED <<conns, chanClosed, net, wrappers, closed, mtx, cur, hand, failed>>

\* put recovers: it closes the connection, ignores the outcome and returns
\* ErrClosed, so XConn.Close returns without setting xc.closed.
PutRecover(p) == /\ pc[p] = "recover"
                 /\ \E ok \in BOOLEAN : CloseConn(conn[cur[p]], ok)
                 /\ Leave(p)
                 /\ UNCHANGED <<conns, chanClosed, wrappers, closed, hand>>

\* The connection is closed for good, by put's default case or by Release.
ConnClosed(p) == /\ pc[p] \in {"discard", "release"}
                 /\ CloseConn(conn[cur[p]], TRUE)
                 /\ Goto(p, "mark")
                 /\ UNCHANGED <<conns, chanClosed, wrappers, closed, mtx, cur, hand>>

\* The same close reports an error: return it, xc.closed stays false.
ConnCloseErr(p) == /\ pc[p] \in {"discard", "release"}
                   /\ CloseConn(conn[cur[p]], FALSE)
                   /\ Leave(p)
                   /\ UNCHANGED <<conns, chanClosed, wrappers, closed, hand>>

\* Mutant of MarkClosed: xc.closed is not set.
MarkClosedForgotten(p) == /\ pc[p] = "mark"
                          /\ Leave(p)
                          /\ UNCHANGED <<conns, chanClosed, net, wrappers, closed, hand, failed>>

\* xc.closed = true, unlock, return nil.
MarkClosed(p) == /\ pc[p] = "mark"
                 /\ closed' = [closed EXCEPT ![cur[p]] = TRUE]
                 /\ Leave(p)
                 /\ UNCHANGED <<conns, chanClosed, net, wrappers, hand, failed>>

-----------------------------------------------------------------------------
(* XConnPool.Close.                                                         *)

\* Mutant of PoolClose: the channel is closed but not drained.
PoolCloseNoDrain(p) == /\ Idle(p)
                       /\ ~chanClosed
                       /\ chanClosed' = TRUE
                       /\ UNCHANGED <<conns, net, wrappers, closed, mtx, pc, cur, hand, failed>>

PoolClose(p) == /\ Idle(p)
                /\ ~chanClosed
                /\ chanClosed' = TRUE
                /\ Goto(p, "drain")
                /\ UNCHANGED <<conns, net, wrappers, closed, mtx, cur, hand, failed>>

\* Closing the closed channel panics: recovered, ErrClosed.
PoolCloseAgain(p) == /\ Idle(p)
                     /\ chanClosed
                     /\ UNCHANGED vars

\* for conn := range xcp.conns
DrainRecv(p) == /\ pc[p] = "drain"
                /\ conns # <<>>
                /\ hand' = [hand EXCEPT ![p] = Head(conns)]
                /\ conns' = Tail(conns)
                /\ Goto(p, "drainClose")
                /\ UNCHANGED <<chanClosed, net, wrappers, closed, mtx, cur, failed>>

\* conn.Close(), whatever it returns
DrainClose(p) == /\ pc[p] = "drainClose"
                 /\ \E ok \in BOOLEAN : CloseConn(hand[p], ok)
                 /\ hand' = [hand EXCEPT ![p] = None]
                 /\ Goto(p, "drain")
                 /\ UNCHANGED <<conns, chanClosed, wrappers, closed, mtx, cur>>

DrainEnd(p) == /\ pc[p] = "drain"
               /\ conns = <<>>
               /\ Goto(p, "idle")
               /\ UNCHANGED <<conns, chanClosed, net, wrappers, closed, mtx, cur, hand, failed>>

-----------------------------------------------------------------------------
\* A call of the pool's or an XConn's interface begins.
Call(p) == \/ GetClosed(p) \/ GetDefault(p) \/ RawGet(p)
           \/ PoolClose(p) \/ PoolCloseAgain(p)
           \/ \E x \in XConns : \/ GetIdle(p, x) \/ Close(p, x) \/ Release(p, x)
                                \/ Refused(p, x) \/ Unuse(p, x)

\* A call in progress takes its next step.
Step(p) == \/ DialFail(p)
           \/ \E x \in XConns, c \in Conns : DialOk(p, x, c)
           \/ PutSend(p) \/ PutFull(p) \/ PutClosed(p) \/ PutRecover(p)
           \/ ConnClosed(p) \/ ConnCloseErr(p) \/ MarkClosed(p)
           \/ DrainRecv(p) \/ DrainClose(p) \/ DrainEnd(p)

Next == \E p \in Procs : Call(p) \/ Step(p)

\* A goroutine inside a call keeps running: no step of the pool's code waits
\* for another goroutine, and the factory and net.Conn.Close return.
Fairness == \A p \in Procs : WF_vars(Step(p))

Spec == Init /\ [][Next]_vars /\ Fairness

-----------------------------------------------------------------------------
(* Properties.                                                              *)

\* Type invariant of the pool's state.
TypeOK == /\ conns \in Seq(Conns) /\ Len(conns) <= Capacity
          /\ chanClosed \in BOOLEAN
          /\ net \in [Conns -> {"undialed", "open", "closed"}]
          /\ conn \in [XConns -> Conns \cup {None}]
          /\ unuse \in [XConns -> BOOLEAN]
          /\ closed \in [XConns -> BOOLEAN]
          /\ mtx \in [XConns -> Procs \cup {None}]
          /\ pc \in [Procs -> Labels]
          /\ cur \in [Procs -> XConns \cup {None}]
          /\ hand \in [Procs -> Conns \cup {None}]
          /\ failed \in SUBSET Conns

\* The connections in the channel.
Pooled == {conns[i] : i \in 1 .. Len(conns)}

\* x still answers for its connection: it is not marked closed, and the
\* goroutine in its Close has not yet passed the connection on.
Owns(x) == /\ conn[x] # None
           /\ ~closed[x]
           /\ \A p \in Procs : ~(mtx[x] = p /\ pc[p] = "mark")

\* A connection is in at most one place: in the channel once, with one XConn,
\* or in the hand of the drain loop.  Two users of Get never share a
\* connection, however Close, Release, Get and the pool's Close interleave
\* and whichever closes fail.
ExclusiveOwnership ==
    /\ \A i, j \in 1 .. Len(conns) : conns[i] = conns[j] => i = j
    /\ \A x \in XConns : Owns(x) => conn[x] \notin Pooled
    /\ \A x, y \in XConns : Owns(x) /\ Owns(y) /\ conn[x] = conn[y] => x = y
    /\ \A p \in Procs : hand[p] # None =>
          /\ hand[p] \notin Pooled
          /\ \A x \in XConns : Owns(x) => conn[x] # hand[p]
          /\ \A q \in Procs : hand[q] = hand[p] => q = p

\* An open connection is never lost: it is in the channel, with an XConn that
\* still answers for it, or about to be closed by the drain loop.
NoLeak ==
    \A c \in Conns : net[c] = "open" =>
        \/ c \in Pooled
        \/ \E x \in XConns : Owns(x) /\ conn[x] = c
        \/ \E p \in Procs : hand[p] = c

\* The channel hands out only open connections, except one whose Close
\* reported an error and whose XConn was closed again by its user.
PooledConnsOpen == \A c \in Pooled : net[c] = "open" \/ c \in failed

\* Every call returns; and closing the pool empties it for good: put cannot
\* refill a closed channel, and the drain loop closes what it receives.
CallsReturn ==
    /\ \A p \in Procs : pc[p] # "idle" ~> pc[p] = "idle"
    /\ chanClosed ~> [](conns = <<>> /\ \A p \in Procs : hand[p] = None)

\* The entry of a connection in the ledger the pool implements.
Entry(c) == IF net[c] = "undialed" THEN "undialed"
            ELSE IF c \in Pooled \/ \E p \in Procs : hand[p] = c THEN "idle"
            ELSE IF \E x \in XConns : Owns(x) /\ conn[x] = c
                 THEN CHOOSE x \in XConns : Owns(x) /\ conn[x] = c
            ELSE "released"

Ledger == INSTANCE ConnLedger
            WITH Holders <- XConns,
                 entry <- [c \in Conns |-> Entry(c)],
                 open <- ~chanClosed,
                 served <- {x \in XConns : conn[x] # None}

\* The pool implements the ledger, whichever closes fail: put either gives a
\* connection back to an open pool with room or discards it, Get lends what
\* is idle to a new XConn, and only a closed pool drops what is idle.
ImplementsLedger == Ledger!LSpec

=============================================================================
