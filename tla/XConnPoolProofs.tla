--------------------------- MODULE XConnPoolProofs ---------------------------
(***************************************************************************)
(* Proofs about XConnPool, for every number of goroutines, connections and  *)
(* wrappers and every capacity, whichever closes fail.                      *)
(***************************************************************************)
EXTENDS XConnPool, FiniteSetTheorems, TLAPS

\* A goroutine inside an XConn method holds the mutex of that XConn, which
\* is not marked closed, and nobody else is inside; only a created XConn is
\* ever marked closed.
LockInv ==
    /\ \A p \in Procs : pc[p] \in Locked =>
          /\ cur[p] \in XConns
          /\ mtx[cur[p]] = p
          /\ conn[cur[p]] # None
          /\ ~closed[cur[p]]
    /\ \A x \in XConns : mtx[x] # None =>
          /\ pc[mtx[x]] \in Locked
          /\ cur[mtx[x]] = x
    /\ \A x \in XConns : closed[x] => conn[x] # None

\* Only the drain loop, between its receive and its close, has a connection
\* in hand; put recovers, and Close drains, only when the pool is closed.
LabelInv ==
    /\ \A p \in Procs : hand[p] # None <=> pc[p] = "drainClose"
    /\ \A p \in Procs : pc[p] \in {"recover", "drain", "drainClose"} => chanClosed

\* A connection that was not dialed is nowhere.
FreshInv ==
    \A c \in Conns : net[c] = "undialed" =>
        /\ c \notin Pooled
        /\ \A x \in XConns : conn[x] # c
        /\ \A p \in Procs : hand[p] # c

\* An XConn that answers for a closed connection got an error closing it, or
\* met a closed pool.
OwnedInv ==
    \A x \in XConns : Owns(x) =>
        net[conn[x]] = "open" \/ conn[x] \in failed \/ chanClosed

IInv == /\ TypeOK /\ LockInv /\ LabelInv /\ FreshInv /\ OwnedInv
        /\ ExclusiveOwnership /\ NoLeak /\ PooledConnsOpen

-----------------------------------------------------------------------------
(* Type correctness.                                                        *)

\* The initial state is well typed.
LEMMA TypeInit == Init => TypeOK
<1> SUFFICES ASSUME Init PROVE TypeOK
  OBVIOUS
<1>1. conns \in Seq(Conns) /\ Len(conns) <= Capacity
  BY CapacityAssumption DEF Init
<1> QED
  BY <1>1 DEF Init, TypeOK, Labels, Locked

\* A call that begins keeps the state well typed.
LEMMA TypeCall == \A p \in Procs : TypeOK /\ Call(p) => TypeOK'
<1> SUFFICES ASSUME NEW p \in Procs, TypeOK, Call(p) PROVE TypeOK'
  OBVIOUS
<1> USE CapacityAssumption DEF TypeOK, Labels, Locked, Goto, Idle, wrappers
<1>1. CASE GetClosed(p) \/ PoolCloseAgain(p)
  BY <1>1 DEF GetClosed, PoolCloseAgain, vars
<1>2. CASE GetDefault(p) \/ RawGet(p) \/ PoolClose(p)
  BY <1>2 DEF GetDefault, RawGet, PoolClose
<1>3. ASSUME NEW x \in XConns, GetIdle(p, x) PROVE TypeOK'
  BY <1>3 DEF GetIdle, wrapConn
<1>4. ASSUME NEW x \in XConns, Close(p, x) \/ Release(p, x) PROVE TypeOK'
  <2>1. PICK label \in {"put", "release"} : Enter(p, x, label)
    BY <1>4 DEF Close, Release
  <2> QED
    BY <2>1 DEF Enter
<1>5. ASSUME NEW x \in XConns, Refused(p, x) PROVE TypeOK'
  BY <1>5 DEF Refused, vars
<1>6. ASSUME NEW x \in XConns, Unuse(p, x) PROVE TypeOK'
  BY <1>6 DEF Unuse
<1> QED
  BY <1>1, <1>2, <1>3, <1>4, <1>5, <1>6 DEF Call

\* A step inside a call keeps the state well typed; put sends the connection
\* of the XConn whose mutex it holds.
LEMMA TypeStep == \A p \in Procs : TypeOK /\ LockInv /\ LabelInv /\ Step(p) => TypeOK'
<1> SUFFICES ASSUME NEW p \in Procs, TypeOK, LockInv, LabelInv, Step(p) PROVE TypeOK'
  OBVIOUS
<1> USE CapacityAssumption DEF TypeOK, Labels, Locked, Goto, wrappers
<1>1. CASE DialFail(p) \/ PutFull(p) \/ PutClosed(p) \/ DrainEnd(p)
  BY <1>1 DEF DialFail, PutFull, PutClosed, DrainEnd
<1>2. ASSUME NEW x \in XConns, NEW c \in Conns, DialOk(p, x, c) PROVE TypeOK'
  BY <1>2 DEF DialOk, wrapConn
<1>3. CASE PutSend(p)
  BY <1>3 DEF PutSend, LockInv
<1>4. CASE PutRecover(p)
  BY <1>4 DEF PutRecover, CloseConn, Leave, LockInv
<1>5. CASE ConnClosed(p)
  BY <1>5 DEF ConnClosed, CloseConn, LockInv
<1>6. CASE ConnCloseErr(p)
  BY <1>6 DEF ConnCloseErr, CloseConn, Leave, LockInv
<1>7. CASE MarkClosed(p)
  BY <1>7 DEF MarkClosed, Leave, LockInv
<1>8. CASE DrainRecv(p)
  BY <1>8 DEF DrainRecv
<1>9. CASE DrainClose(p)
  BY <1>9 DEF DrainClose, CloseConn, LabelInv
<1> QED
  BY <1>1, <1>2, <1>3, <1>4, <1>5, <1>6, <1>7, <1>8, <1>9 DEF Step

-----------------------------------------------------------------------------
(* The mutexes.                                                             *)

\* A call that begins keeps the locking discipline.
LEMMA LockCall ==
    \A p \in Procs : TypeOK /\ LockInv /\ LabelInv /\ Call(p) => LockInv' /\ LabelInv'
<1> SUFFICES ASSUME NEW p \in Procs, TypeOK, LockInv, LabelInv, Call(p)
             PROVE  LockInv' /\ LabelInv'
  OBVIOUS
<1> USE NoneAssumption DEF TypeOK, LockInv, LabelInv, Labels, Locked, Goto, Idle, wrappers
<1>1. CASE GetClosed(p) \/ PoolCloseAgain(p)
  BY <1>1 DEF GetClosed, PoolCloseAgain, vars
<1>2. CASE GetDefault(p) \/ RawGet(p) \/ PoolClose(p)
  BY <1>2 DEF GetDefault, RawGet, PoolClose
<1>3. ASSUME NEW x \in XConns, GetIdle(p, x) PROVE LockInv' /\ LabelInv'
  BY <1>3 DEF GetIdle, wrapConn
<1>4. ASSUME NEW x \in XConns, Close(p, x) \/ Release(p, x) PROVE LockInv' /\ LabelInv'
  <2>1. PICK label \in {"put", "release"} : Enter(p, x, label)
    BY <1>4 DEF Close, Release
  <2> QED
    BY <2>1 DEF Enter
<1>5. ASSUME NEW x \in XConns, Refused(p, x) PROVE LockInv' /\ LabelInv'
  BY <1>5 DEF Refused, vars
<1>6. ASSUME NEW x \in XConns, Unuse(p, x) PROVE LockInv' /\ LabelInv'
  BY <1>6 DEF Unuse
<1> QED
  BY <1>1, <1>2, <1>3, <1>4, <1>5, <1>6 DEF Call

\* A step inside a call keeps the locking discipline.
LEMMA LockStep ==
    \A p \in Procs : TypeOK /\ LockInv /\ LabelInv /\ Step(p) => LockInv' /\ LabelInv'
<1> SUFFICES ASSUME NEW p \in Procs, TypeOK, LockInv, LabelInv, Step(p)
             PROVE  LockInv' /\ LabelInv'
  OBVIOUS
<1> USE NoneAssumption DEF TypeOK, LockInv, LabelInv, Labels, Locked, Goto, wrappers
<1>1. CASE DialFail(p) \/ PutFull(p) \/ PutClosed(p) \/ DrainEnd(p)
  BY <1>1 DEF DialFail, PutFull, PutClosed, DrainEnd
<1>2. ASSUME NEW x \in XConns, NEW c \in Conns, DialOk(p, x, c) PROVE LockInv' /\ LabelInv'
  BY <1>2 DEF DialOk, wrapConn
<1>3. CASE PutSend(p)
  BY <1>3 DEF PutSend
<1>4. CASE PutRecover(p)
  BY <1>4 DEF PutRecover, CloseConn, Leave
<1>5. CASE ConnClosed(p)
  BY <1>5 DEF ConnClosed, CloseConn
<1>6. CASE ConnCloseErr(p)
  BY <1>6 DEF ConnCloseErr, CloseConn, Leave
<1>7. CASE MarkClosed(p)
  BY <1>7 DEF MarkClosed, Leave
<1>8. CASE DrainRecv(p)
  BY <1>8 DEF DrainRecv
<1>9. CASE DrainClose(p)
  BY <1>9 DEF DrainClose, CloseConn
<1> QED
  BY <1>1, <1>2, <1>3, <1>4, <1>5, <1>6, <1>7, <1>8, <1>9 DEF Step

-----------------------------------------------------------------------------
(* Where the connections are.                                               *)

\* The part of the invariant that says where every connection is.
PlaceInv == FreshInv /\ OwnedInv /\ ExclusiveOwnership /\ NoLeak /\ PooledConnsOpen

\* Receiving from a channel without duplicates removes its head.
LEMMA ReceivePooled ==
    ASSUME TypeOK, ExclusiveOwnership, conns # <<>>, conns' = Tail(conns)
    PROVE  /\ Head(conns) \in Pooled
           /\ Pooled' = Pooled \ {Head(conns)}
           /\ \A i, j \in 1 .. Len(conns') : conns'[i] = conns'[j] => i = j
<1> USE DEF TypeOK
<1>1. /\ Len(conns) \in Nat \ {0}
      /\ Head(conns) = conns[1]
      /\ Len(Tail(conns)) = Len(conns) - 1
      /\ \A i \in 1 .. Len(conns) - 1 : Tail(conns)[i] = conns[i + 1]
  OBVIOUS
<1>2. \A i, j \in 1 .. Len(conns) : conns[i] = conns[j] => i = j
  BY DEF ExclusiveOwnership
<1>3. \A i, j \in 1 .. Len(conns') : conns'[i] = conns'[j] => i = j
  BY <1>1, <1>2
<1>4. Head(conns) \in Pooled
  BY <1>1 DEF Pooled
<1>5. ASSUME NEW c PROVE c \in Pooled' <=> c \in Pooled \ {Head(conns)}
  <2>1. ASSUME c \in Pooled' PROVE c \in Pooled \ {Head(conns)}
    <3>1. PICK i \in 1 .. Len(conns) - 1 : c = conns[i + 1]
      BY <1>1, <2>1 DEF Pooled
    <3> QED
      BY <1>1, <1>2, <3>1 DEF Pooled
  <2>2. ASSUME c \in Pooled, c # Head(conns) PROVE c \in Pooled'
    <3>1. PICK i \in 1 .. Len(conns) : c = conns[i]
      BY <2>2 DEF Pooled
    <3>2. i - 1 \in 1 .. Len(conns') /\ conns'[i - 1] = c
      BY <1>1, <2>2, <3>1
    <3> QED
      BY <3>2 DEF Pooled
  <2> QED
    BY <2>1, <2>2
<1> QED
  BY <1>3, <1>4, <1>5

\* Sending a connection that is not in the channel adds it there.
LEMMA SendPooled ==
    ASSUME TypeOK, ExclusiveOwnership, NEW c \in Conns, c \notin Pooled,
           conns' = Append(conns, c)
    PROVE  /\ Pooled' = Pooled \cup {c}
           /\ \A i, j \in 1 .. Len(conns') : conns'[i] = conns'[j] => i = j
<1> USE DEF TypeOK
<1>1. /\ Len(conns) \in Nat
      /\ Len(conns') = Len(conns) + 1
      /\ conns'[Len(conns) + 1] = c
      /\ \A i \in 1 .. Len(conns) : conns'[i] = conns[i]
  OBVIOUS
<1>2. \A i \in 1 .. Len(conns) : conns[i] # c
  BY DEF Pooled
<1>3. \A i, j \in 1 .. Len(conns) : conns[i] = conns[j] => i = j
  BY DEF ExclusiveOwnership
<1>4. \A i, j \in 1 .. Len(conns') : conns'[i] = conns'[j] => i = j
  BY <1>1, <1>2, <1>3
<1>5. ASSUME NEW d PROVE d \in Pooled' <=> d \in Pooled \cup {c}
  BY <1>1 DEF Pooled
<1> QED
  BY <1>4, <1>5

\* A step that moves no connection and no responsibility keeps PlaceInv.
LEMMA Quiet ==
    ASSUME TypeOK, PlaceInv, UNCHANGED <<conns, net, conn, hand, failed>>,
           chanClosed => chanClosed',
           \A x \in XConns : Owns(x)' <=> Owns(x)
    PROVE  PlaceInv'
BY DEF PlaceInv, FreshInv, OwnedInv, ExclusiveOwnership, NoLeak, PooledConnsOpen, Pooled

\* A call that begins keeps every connection in one place.
LEMMA PlaceCall == \A p \in Procs : IInv /\ Call(p) => PlaceInv'
<1> SUFFICES ASSUME NEW p \in Procs, IInv, Call(p) PROVE PlaceInv'
  OBVIOUS
<1> TypeOK /\ LockInv /\ LabelInv /\ PlaceInv
  BY DEF IInv, PlaceInv
<1> USE NoneAssumption
<1>1. CASE GetClosed(p) \/ PoolCloseAgain(p)
  <2>1. \A x \in XConns : Owns(x)' <=> Owns(x)
    BY <1>1 DEF GetClosed, PoolCloseAgain, vars, wrappers, Owns
  <2> QED
    BY <1>1, <2>1, Quiet DEF GetClosed, PoolCloseAgain, vars, wrappers
<1>2. CASE GetDefault(p) \/ RawGet(p) \/ PoolClose(p)
  <2>1. \A x \in XConns : Owns(x)' <=> Owns(x)
    BY <1>2 DEF GetDefault, RawGet, PoolClose, Goto, Idle, wrappers, Owns, TypeOK
  <2> QED
    BY <1>2, <2>1, Quiet DEF GetDefault, RawGet, PoolClose, wrappers
<1>3. ASSUME NEW x \in XConns, GetIdle(p, x) PROVE PlaceInv'
  <2> DEFINE c == Head(conns)
  <2>1. /\ c \in Pooled
        /\ Pooled' = Pooled \ {c}
        /\ \A i, j \in 1 .. Len(conns') : conns'[i] = conns'[j] => i = j
    BY <1>3, ReceivePooled DEF GetIdle, PlaceInv
  <2>2. Pooled \subseteq Conns /\ c \in Conns
    BY <2>1 DEF Pooled, TypeOK
  <2>3. conn[x] = None /\ conn'[x] = c /\ \A y \in XConns \ {x} : conn'[y] = conn[y]
    BY <1>3 DEF GetIdle, wrapConn, TypeOK
  <2>4. UNCHANGED <<net, hand, failed, chanClosed>>
    BY <1>3 DEF GetIdle
  <2>5. \A y \in XConns \ {x} : Owns(y)' <=> Owns(y)
    BY <1>3, <2>3 DEF GetIdle, wrapConn, Owns
  <2>6. ~Owns(x)
    BY <2>3 DEF Owns
  <2> HIDE DEF c
  <2>7. FreshInv'
    BY <2>1, <2>2, <2>3, <2>4 DEF FreshInv, PlaceInv
  <2>8. OwnedInv'
    BY <2>1, <2>2, <2>3, <2>4, <2>5 DEF OwnedInv, PlaceInv, PooledConnsOpen
  <2>9. ExclusiveOwnership'
    BY <2>1, <2>2, <2>3, <2>4, <2>5 DEF ExclusiveOwnership, PlaceInv
  <2>10. NoLeak'
    <3>1. conn'[x] = c /\ Owns(x)'
      BY <1>3, <2>2, <2>3 DEF GetIdle, wrapConn, Owns, LockInv, Locked, c
    <3> QED
      BY <2>1, <2>3, <2>4, <2>5, <2>6, <3>1 DEF NoLeak, PlaceInv
  <2>11. PooledConnsOpen'
    BY <2>1, <2>4 DEF PooledConnsOpen, PlaceInv
  <2> QED
    BY <2>7, <2>8, <2>9, <2>10, <2>11 DEF PlaceInv
<1>4. ASSUME NEW x \in XConns, Close(p, x) \/ Release(p, x) PROVE PlaceInv'
  <2>1. PICK label \in {"put", "release"} : Enter(p, x, label)
    BY <1>4 DEF Close, Release
  <2>2. \A y \in XConns : Owns(y)' <=> Owns(y)
    BY <2>1 DEF Enter, Owns, Idle, Goto, wrappers, TypeOK
  <2> QED
    BY <2>1, <2>2, Quiet DEF Enter, wrappers
<1>5. ASSUME NEW x \in XConns, Refused(p, x) PROVE PlaceInv'
  <2>1. \A y \in XConns : Owns(y)' <=> Owns(y)
    BY <1>5 DEF Refused, vars, wrappers, Owns
  <2> QED
    BY <1>5, <2>1, Quiet DEF Refused, vars, wrappers
<1>6. ASSUME NEW x \in XConns, Unuse(p, x) PROVE PlaceInv'
  <2>1. \A y \in XConns : Owns(y)' <=> Owns(y)
    BY <1>6 DEF Unuse, Owns
  <2> QED
    BY <1>6, <2>1, Quiet DEF Unuse
<1> QED
  BY <1>1, <1>2, <1>3, <1>4, <1>5, <1>6 DEF Call

\* The goroutine inside an XConn method works on a connection its XConn
\* answers for, unless it has already passed it on.
LEMMA InsideOwns ==
    ASSUME TypeOK, LockInv, NEW p \in Procs, pc[p] \in Locked
    PROVE  /\ cur[p] \in XConns
           /\ conn[cur[p]] \in Conns
           /\ pc[p] # "mark" <=> Owns(cur[p])
BY NoneAssumption DEF TypeOK, LockInv, Owns

\* A step inside a call keeps every connection in one place.
LEMMA PlaceStep == \A p \in Procs : IInv /\ Step(p) => PlaceInv'
<1> SUFFICES ASSUME NEW p \in Procs, IInv, Step(p) PROVE PlaceInv'
  OBVIOUS
<1> TypeOK /\ LockInv /\ LabelInv /\ PlaceInv
  BY DEF IInv, PlaceInv
<1> USE NoneAssumption
<1>1. CASE DialFail(p) \/ PutFull(p) \/ PutClosed(p) \/ DrainEnd(p)
  <2>1. \A y \in XConns : Owns(y)' <=> Owns(y)
    BY <1>1 DEF DialFail, PutFull, PutClosed, DrainEnd, Goto, wrappers, Owns, TypeOK
  <2> QED
    BY <1>1, <2>1, Quiet DEF DialFail, PutFull, PutClosed, DrainEnd, wrappers
<1>2. ASSUME NEW y \in XConns, NEW d \in Conns, DialOk(p, y, d) PROVE PlaceInv'
  <2>1. /\ net[d] = "undialed" /\ net'[d] = "open"
        /\ \A e \in Conns \ {d} : net'[e] = net[e]
        /\ conn[y] = None /\ conn'[y] = d
        /\ \A z \in XConns \ {y} : conn'[z] = conn[z]
        /\ UNCHANGED <<conns, hand, failed, chanClosed>>
    BY <1>2 DEF DialOk, wrapConn, TypeOK
  <2>2. Pooled' = Pooled /\ Pooled \subseteq Conns
    BY <2>1 DEF Pooled, TypeOK
  <2>3. \A z \in XConns \ {y} : Owns(z)' <=> Owns(z)
    BY <1>2, <2>1 DEF DialOk, wrapConn, Goto, Owns, TypeOK
  <2>4. ~Owns(y) /\ Owns(y)'
    BY <1>2, <2>1 DEF DialOk, wrapConn, Goto, Owns, TypeOK, LockInv, Locked
  <2>5. d \notin Pooled /\ (\A z \in XConns : conn[z] # d) /\ (\A q \in Procs : hand[q] # d)
    BY <2>1 DEF PlaceInv, FreshInv
  <2>6. \A z \in XConns : Owns(z) => conn[z] \in Conns
    BY DEF Owns, TypeOK
  <2>7. FreshInv'
    BY <2>1, <2>2 DEF PlaceInv, FreshInv
  <2>8. OwnedInv'
    BY <2>1, <2>3, <2>4, <2>5, <2>6 DEF PlaceInv, OwnedInv
  <2>9. ExclusiveOwnership'
    BY <2>1, <2>2, <2>3, <2>4, <2>5 DEF PlaceInv, ExclusiveOwnership
  <2>10. NoLeak'
    BY <2>1, <2>2, <2>3, <2>4 DEF PlaceInv, NoLeak
  <2>11. PooledConnsOpen'
    BY <2>1, <2>2, <2>5 DEF PlaceInv, PooledConnsOpen
  <2> QED
    BY <2>7, <2>8, <2>9, <2>10, <2>11 DEF PlaceInv
<1>3. CASE PutSend(p)
  <2>1. PICK x \in XConns, c \in Conns : cur[p] = x /\ conn[x] = c /\ Owns(x) /\ mtx[x] = p
    BY <1>3, InsideOwns DEF PutSend, Locked, LockInv
  <2>2. ~chanClosed /\ UNCHANGED <<chanClosed, net, conn, hand, failed>>
    BY <1>3 DEF PutSend, wrappers
  <2>3. c \notin Pooled /\ Pooled \subseteq Conns
    BY <2>1 DEF PlaceInv, ExclusiveOwnership, Pooled, TypeOK
  <2>4. /\ Pooled' = Pooled \cup {c}
        /\ \A i, j \in 1 .. Len(conns') : conns'[i] = conns'[j] => i = j
    BY <1>3, <2>1, <2>3, SendPooled DEF PutSend, PlaceInv
  <2>5. ~Owns(x)' /\ \A z \in XConns \ {x} : Owns(z)' <=> Owns(z)
    BY <1>3, <2>1 DEF PutSend, Goto, wrappers, Owns, TypeOK, LockInv
  <2>6. net[c] # "undialed" /\ (net[c] = "open" \/ c \in failed)
    BY <2>1, <2>2 DEF PlaceInv, OwnedInv, FreshInv
  <2>7. \A q \in Procs : hand[q] # c
    BY <2>1 DEF PlaceInv, ExclusiveOwnership
  <2>8. \A z \in XConns \ {x} : Owns(z) => conn[z] # c
    BY <2>1 DEF PlaceInv, ExclusiveOwnership
  <2>9. FreshInv'
    BY <2>2, <2>4, <2>6 DEF PlaceInv, FreshInv
  <2>10. OwnedInv'
    BY <2>1, <2>2, <2>5 DEF PlaceInv, OwnedInv
  <2>11. ExclusiveOwnership'
    BY <2>1, <2>2, <2>4, <2>5, <2>7, <2>8 DEF PlaceInv, ExclusiveOwnership
  <2>12. NoLeak'
    BY <2>1, <2>2, <2>4, <2>5 DEF PlaceInv, NoLeak
  <2>13. PooledConnsOpen'
    BY <2>2, <2>4, <2>6 DEF PlaceInv, PooledConnsOpen
  <2> QED
    BY <2>9, <2>10, <2>11, <2>12, <2>13 DEF PlaceInv
<1>4. ASSUME PutRecover(p) \/ ConnClosed(p) \/ ConnCloseErr(p) PROVE PlaceInv'
  <2>1. PICK x \in XConns, c \in Conns : cur[p] = x /\ conn[x] = c /\ Owns(x) /\ mtx[x] = p
    BY <1>4, InsideOwns DEF PutRecover, ConnClosed, ConnCloseErr, Locked, LockInv
  <2>2. UNCHANGED <<conns, chanClosed, conn, closed, hand>>
    BY <1>4 DEF PutRecover, ConnClosed, ConnCloseErr, wrappers
  <2>3. PICK ok \in BOOLEAN : CloseConn(c, ok)
    BY <1>4, <2>1 DEF PutRecover, ConnClosed, ConnCloseErr
  <2>4. /\ net[c] # "undialed" /\ net'[c] = "closed"
        /\ \A d \in Conns \ {c} : net'[d] = net[d]
        /\ failed \subseteq failed'
    BY <2>1, <2>3 DEF CloseConn, TypeOK
  <2>5. c \notin Pooled /\ Pooled' = Pooled /\ Pooled \subseteq Conns
    BY <2>1, <2>2 DEF PlaceInv, ExclusiveOwnership, Pooled, TypeOK
  <2>6. \A z \in XConns \ {x} : Owns(z)' <=> Owns(z)
    <3>1. CASE ConnClosed(p)
      <4>1. \A z \in XConns \ {x} : mtx[z] # p
        BY <2>1 DEF LockInv
      <4> QED
        BY <2>2, <3>1, <4>1 DEF ConnClosed, wrappers, Goto, Owns, TypeOK
    <3>2. CASE PutRecover(p) \/ ConnCloseErr(p)
      <4>1. pc[p] # "mark" /\ Leave(p)
        BY <3>2 DEF PutRecover, ConnCloseErr
      <4> QED
        BY <2>1, <2>2, <4>1 DEF Leave, Goto, Owns, TypeOK
    <3> QED
      BY <1>4, <3>1, <3>2
  <2>7. \A z \in XConns \ {x} : Owns(z) => conn[z] # c /\ conn[z] \in Conns
    BY <2>1 DEF PlaceInv, ExclusiveOwnership, Owns, TypeOK
  <2>8. Owns(x)' => c \in failed' \/ chanClosed
    <3>1. CASE PutRecover(p)
      BY <3>1 DEF PutRecover, LabelInv
    <3>2. CASE ConnClosed(p)
      BY <2>1, <3>2 DEF ConnClosed, Goto, Owns, TypeOK
    <3>3. CASE ConnCloseErr(p)
      BY <2>1, <3>3 DEF ConnCloseErr, CloseConn
    <3> QED
      BY <1>4, <3>1, <3>2, <3>3
  <2>9. FreshInv'
    BY <2>2, <2>4, <2>5 DEF PlaceInv, FreshInv
  <2>10. OwnedInv'
    BY <2>1, <2>2, <2>4, <2>6, <2>7, <2>8 DEF PlaceInv, OwnedInv
  <2>11. ExclusiveOwnership'
    <3>1. \A z \in XConns : Owns(z)' => Owns(z)
      BY <2>1, <2>6
    <3> QED
      BY <2>2, <2>5, <3>1 DEF PlaceInv, ExclusiveOwnership
  <2>12. NoLeak'
    BY <2>1, <2>2, <2>4, <2>5, <2>6 DEF PlaceInv, NoLeak
  <2>13. PooledConnsOpen'
    BY <2>4, <2>5 DEF PlaceInv, PooledConnsOpen
  <2> QED
    BY <2>9, <2>10, <2>11, <2>12, <2>13 DEF PlaceInv
<1>5. CASE MarkClosed(p)
  <2>1. PICK x \in XConns : cur[p] = x /\ ~Owns(x) /\ mtx[x] = p
    BY <1>5, InsideOwns DEF MarkClosed, Locked, LockInv
  <2>2. \A z \in XConns : Owns(z)' <=> Owns(z)
    BY <1>5, <2>1 DEF MarkClosed, Leave, Goto, wrappers, Owns, TypeOK, LockInv
  <2> QED
    BY <1>5, <2>2, Quiet DEF MarkClosed, wrappers
<1>6. CASE DrainRecv(p)
  <2> DEFINE d == Head(conns)
  <2>1. /\ d \in Pooled
        /\ Pooled' = Pooled \ {d}
        /\ \A i, j \in 1 .. Len(conns') : conns'[i] = conns'[j] => i = j
    BY <1>6, ReceivePooled DEF DrainRecv, PlaceInv
  <2>2. Pooled \subseteq Conns /\ d \in Conns
    BY <2>1 DEF Pooled, TypeOK
  <2>3. /\ hand[p] = None /\ hand'[p] = d
        /\ \A q \in Procs \ {p} : hand'[q] = hand[q]
    BY <1>6 DEF DrainRecv, LabelInv, TypeOK
  <2>4. UNCHANGED <<net, conn, failed, chanClosed>>
    BY <1>6 DEF DrainRecv, wrappers
  <2>5. \A y \in XConns : Owns(y)' <=> Owns(y)
    BY <1>6 DEF DrainRecv, Goto, wrappers, Owns, TypeOK
  <2> HIDE DEF d
  <2>6. FreshInv'
    BY <2>1, <2>2, <2>3, <2>4 DEF PlaceInv, FreshInv
  <2>7. OwnedInv'
    BY <2>4, <2>5 DEF PlaceInv, OwnedInv
  <2>8. ExclusiveOwnership'
    BY <2>1, <2>2, <2>3, <2>4, <2>5 DEF PlaceInv, ExclusiveOwnership
  <2>9. NoLeak'
    BY <2>1, <2>2, <2>3, <2>4, <2>5 DEF PlaceInv, NoLeak
  <2>10. PooledConnsOpen'
    BY <2>1, <2>4 DEF PlaceInv, PooledConnsOpen
  <2> QED
    BY <2>6, <2>7, <2>8, <2>9, <2>10 DEF PlaceInv
<1>7. CASE DrainClose(p)
  <2> DEFINE d == hand[p]
  <2>1. /\ d \in Conns /\ hand'[p] = None
        /\ \A q \in Procs \ {p} : hand'[q] = hand[q]
        /\ UNCHANGED <<conns, chanClosed, conn>>
    BY <1>7 DEF DrainClose, wrappers, LabelInv, TypeOK
  <2>2. /\ net[d] # "undialed" /\ net'[d] = "closed"
        /\ \A e \in Conns \ {d} : net'[e] = net[e]
        /\ failed \subseteq failed'
    BY <1>7, <2>1 DEF DrainClose, CloseConn, TypeOK
  <2>3. \A y \in XConns : Owns(y)' <=> Owns(y)
    BY <1>7 DEF DrainClose, Goto, wrappers, Owns, TypeOK
  <2>4. Pooled' = Pooled /\ d \notin Pooled /\ Pooled \subseteq Conns
    BY <2>1 DEF PlaceInv, ExclusiveOwnership, Pooled, TypeOK
  <2>5. \A y \in XConns : Owns(y) => conn[y] # d /\ conn[y] \in Conns
    BY <2>1 DEF PlaceInv, ExclusiveOwnership, Owns, TypeOK
  <2>6. FreshInv'
    BY <2>1, <2>2, <2>4 DEF PlaceInv, FreshInv
  <2>7. OwnedInv'
    BY <2>1, <2>2, <2>3, <2>5 DEF PlaceInv, OwnedInv
  <2>8. ExclusiveOwnership'
    BY <2>1, <2>3, <2>4 DEF PlaceInv, ExclusiveOwnership
  <2>9. NoLeak'
    BY <2>1, <2>2, <2>3, <2>4 DEF PlaceInv, NoLeak
  <2>10. PooledConnsOpen'
    BY <2>2, <2>4 DEF PlaceInv, PooledConnsOpen
  <2> QED
    BY <2>6, <2>7, <2>8, <2>9, <2>10 DEF PlaceInv
<1> QED
  BY <1>1, <1>2, <1>3, <1>4, <1>5, <1>6, <1>7 DEF Step

-----------------------------------------------------------------------------
(* The theorems.                                                            *)

\* The initial state satisfies the inductive invariant.
LEMMA IInvInit == Init => IInv
<1> SUFFICES ASSUME Init PROVE IInv
  OBVIOUS
<1>1. TypeOK
  BY TypeInit
<1>2. LockInv /\ LabelInv
  BY NoneAssumption DEF Init, LockInv, LabelInv, Locked
<1>3. Pooled = {}
  BY DEF Init, Pooled
<1>4. \A x \in XConns : ~Owns(x)
  BY DEF Init, Owns
<1>5. FreshInv /\ OwnedInv /\ NoLeak /\ PooledConnsOpen
  BY <1>3, <1>4, NoneAssumption DEF Init, FreshInv, OwnedInv, NoLeak, PooledConnsOpen
<1>6. ExclusiveOwnership
  BY <1>3, <1>4 DEF Init, ExclusiveOwnership
<1> QED
  BY <1>1, <1>2, <1>5, <1>6 DEF IInv

\* Every step preserves the inductive invariant.
LEMMA IInvNext == IInv /\ [Next]_vars => IInv'
<1> SUFFICES ASSUME IInv, [Next]_vars PROVE IInv'
  OBVIOUS
<1>1. ASSUME NEW p \in Procs, Call(p) PROVE IInv'
  BY <1>1, TypeCall, LockCall, PlaceCall DEF IInv, PlaceInv
<1>2. ASSUME NEW p \in Procs, Step(p) PROVE IInv'
  BY <1>2, TypeStep, LockStep, PlaceStep DEF IInv, PlaceInv
<1>3. CASE UNCHANGED vars
  BY <1>3 DEF vars, wrappers, IInv, TypeOK, LockInv, LabelInv, FreshInv, OwnedInv,
              ExclusiveOwnership, NoLeak, PooledConnsOpen, Owns, Pooled
<1> QED
  BY <1>1, <1>2, <1>3 DEF Next

\* The inductive invariant holds in every reachable state.
THEOREM Invariant == Spec => []IInv
BY IInvInit, IInvNext, PTL DEF Spec

\* The pool's state is always well typed, and the channel never holds more
\* connections than its capacity.
THEOREM TypeCorrect == Spec => []TypeOK
<1>1. IInv => TypeOK
  BY DEF IInv
<1> QED
  BY <1>1, Invariant, PTL

\* However Get, RawGet, Close, Release, Unuse and the pool's Close interleave,
\* and whichever closes fail, no connection is ever in two places.
THEOREM Ownership == Spec => []ExclusiveOwnership
<1>1. IInv => ExclusiveOwnership
  BY DEF IInv
<1> QED
  BY <1>1, Invariant, PTL

\* No open connection is ever lost.
THEOREM Leakless == Spec => []NoLeak
<1>1. IInv => NoLeak
  BY DEF IInv
<1> QED
  BY <1>1, Invariant, PTL

\* The channel holds only open connections and ones whose Close failed.
THEOREM PooledOpen == Spec => []PooledConnsOpen
<1>1. IInv => PooledConnsOpen
  BY DEF IInv
<1> QED
  BY <1>1, Invariant, PTL

-----------------------------------------------------------------------------
(* The pool implements the ledger.                                          *)

\* c waits in the channel, or in the hand of the drain loop.
Resting(c) == c \in Pooled \/ \E p \in Procs : hand[p] = c

Owned(c) == \E x \in XConns : Owns(x) /\ conn[x] = c

\* The entry of each connection, by where the connection is.
EntryInv ==
    \A c \in Conns :
        /\ net[c] = "undialed" => Entry(c) = "undialed"
        /\ net[c] # "undialed" /\ Resting(c) => Entry(c) = "idle"
        /\ \A x \in XConns : Owns(x) /\ conn[x] = c => Entry(c) = x
        /\ net[c] # "undialed" /\ ~Resting(c) /\ ~Owned(c) => Entry(c) = "released"

\* A connection is in one place, so its entry is well defined.
LEMMA EntryPlace == IInv => EntryInv
<1> SUFFICES ASSUME IInv, NEW c \in Conns
             PROVE  /\ net[c] = "undialed" => Entry(c) = "undialed"
                    /\ net[c] # "undialed" /\ Resting(c) => Entry(c) = "idle"
                    /\ \A x \in XConns : Owns(x) /\ conn[x] = c => Entry(c) = x
                    /\ net[c] # "undialed" /\ ~Resting(c) /\ ~Owned(c) => Entry(c) = "released"
  BY DEF EntryInv
<1>1. ASSUME NEW x \in XConns, Owns(x), conn[x] = c PROVE Entry(c) = x
  <2>1. net[c] # "undialed" /\ ~Resting(c)
    BY <1>1, NoneAssumption DEF IInv, FreshInv, ExclusiveOwnership, Resting
  <2>2. \A y \in XConns : Owns(y) /\ conn[y] = c <=> y = x
    BY <1>1 DEF IInv, ExclusiveOwnership
  <2>3. (CHOOSE y \in XConns : Owns(y) /\ conn[y] = c) = x
    BY <2>2
  <2> QED
    BY <1>1, <2>1, <2>3 DEF Entry, Resting
<1>2. net[c] = "undialed" => Entry(c) = "undialed"
  BY DEF Entry
<1>3. net[c] # "undialed" /\ Resting(c) => Entry(c) = "idle"
  BY DEF Entry, Resting
<1>4. net[c] # "undialed" /\ ~Resting(c) /\ ~Owned(c) => Entry(c) = "released"
  BY DEF Entry, Resting, Owned
<1> QED
  BY <1>1, <1>2, <1>3, <1>4

\* A connection that stays where it is keeps its entry.
LEMMA SameEntry ==
    ASSUME IInv, EntryInv, EntryInv', NEW c \in Conns,
           net[c] = "undialed" <=> net'[c] = "undialed",
           Resting(c) <=> Resting(c)',
           \A x \in XConns : Owns(x) /\ conn[x] = c <=> (Owns(x) /\ conn[x] = c)'
    PROVE  Entry(c)' = Entry(c)
<1>1. CASE net[c] = "undialed"
  BY <1>1 DEF EntryInv
<1>2. CASE net[c] # "undialed" /\ Resting(c)
  BY <1>2 DEF EntryInv
<1>3. CASE \E x \in XConns : Owns(x) /\ conn[x] = c
  BY <1>3 DEF EntryInv
<1>4. CASE net[c] # "undialed" /\ ~Resting(c) /\ ~Owned(c)
  BY <1>4 DEF EntryInv, Owned
<1> QED
  BY <1>1, <1>2, <1>3, <1>4 DEF Owned

\* A step that moves no connection changes no entry.
LEMMA SameEntries ==
    ASSUME IInv, EntryInv, EntryInv', UNCHANGED <<conns, hand, conn>>,
           \A c \in Conns : net[c] = "undialed" <=> net'[c] = "undialed",
           \A x \in XConns : Owns(x) <=> Owns(x)'
    PROVE  \A c \in Conns : Entry(c)' = Entry(c)
<1> SUFFICES ASSUME NEW c \in Conns PROVE Entry(c)' = Entry(c)
  OBVIOUS
<1>1. Resting(c) <=> Resting(c)'
  BY DEF Resting, Pooled
<1>2. \A x \in XConns : Owns(x) /\ conn[x] = c <=> (Owns(x) /\ conn[x] = c)'
  OBVIOUS
<1> QED
  BY <1>1, <1>2, SameEntry

\* The channel of an open pool holds what the ledger calls idle.
LEMMA IdlePooled == IInv /\ EntryInv /\ ~chanClosed => Ledger!Idle = Pooled
<1> SUFFICES ASSUME IInv, EntryInv, ~chanClosed, NEW c \in Conns
             PROVE  Entry(c) = "idle" <=> c \in Pooled
  BY DEF Ledger!Idle, IInv, TypeOK, Pooled
<1>1. Resting(c) <=> c \in Pooled
  BY NoneAssumption DEF Resting, IInv, LabelInv
<1>2. c \in Pooled => net[c] # "undialed"
  BY DEF IInv, FreshInv
<1>3. \A x \in XConns : x # "idle"
  BY EntryAssumption
<1> QED
  BY <1>1, <1>2, <1>3 DEF EntryInv, Owned

\* The channel is as long as there are connections in it.
LEMMA PooledSize == TypeOK => IsFiniteSet(Pooled) /\ Cardinality(Pooled) <= Len(conns)
<1> SUFFICES ASSUME TypeOK
             PROVE  IsFiniteSet(Pooled) /\ Cardinality(Pooled) <= Len(conns)
  OBVIOUS
<1>1. Len(conns) \in Nat /\ conns \in [1 .. Len(conns) -> Pooled]
  BY DEF TypeOK, Pooled
<1>2. conns \in Surjection(1 .. Len(conns), Pooled)
  BY <1>1 DEF Surjection, Pooled
<1>3. IsFiniteSet(1 .. Len(conns)) /\ Cardinality(1 .. Len(conns)) = Len(conns)
  BY <1>1, FS_Interval, SMTT(30)
<1> QED
  BY <1>2, <1>3, FS_Surjection

\* Every call that begins maps to a step of the ledger or changes nothing in it.
LEMMA LedgerCall ==
    ASSUME IInv, IInv', EntryInv, EntryInv', NEW p \in Procs, Call(p)
    PROVE  [Ledger!LNext]_(Ledger!lvars)
<1> TypeOK /\ LockInv
  BY DEF IInv
<1> USE NoneAssumption DEF Ledger!lvars
<1>1. CASE GetClosed(p) \/ PoolCloseAgain(p)
  <2>1. UNCHANGED vars
    BY <1>1 DEF GetClosed, PoolCloseAgain
  <2>2. \A x \in XConns : Owns(x) <=> Owns(x)'
    BY <2>1 DEF vars, wrappers, Owns
  <2> QED
    BY <2>1, <2>2, SameEntries DEF vars, wrappers
<1>2. CASE GetDefault(p) \/ RawGet(p)
  <2>1. UNCHANGED <<conns, chanClosed, net, conn, hand>>
    BY <1>2 DEF GetDefault, RawGet, wrappers
  <2>2. \A x \in XConns : Owns(x) <=> Owns(x)'
    BY <1>2 DEF GetDefault, RawGet, Goto, Idle, wrappers, Owns, TypeOK
  <2> QED
    BY <2>1, <2>2, SameEntries
<1>3. CASE PoolClose(p)
  <2>1. UNCHANGED <<conns, net, conn, hand>> /\ ~chanClosed /\ chanClosed'
    BY <1>3 DEF PoolClose, wrappers
  <2>2. \A x \in XConns : Owns(x) <=> Owns(x)'
    BY <1>3 DEF PoolClose, Goto, Idle, wrappers, Owns, TypeOK
  <2>3. \A c \in Conns : Entry(c)' = Entry(c)
    BY <2>1, <2>2, SameEntries
  <2>4. Ledger!Shut
    BY <2>1, <2>3 DEF Ledger!Shut
  <2> QED
    BY <2>4 DEF Ledger!LNext
<1>4. ASSUME NEW x \in XConns, GetIdle(p, x) PROVE [Ledger!LNext]_(Ledger!lvars)
  <2>0. PICK c \in Conns : c = Head(conns)
    BY <1>4 DEF GetIdle, TypeOK
  <2>1. c \in Pooled /\ Pooled' = Pooled \ {c}
    BY <1>4, <2>0, ReceivePooled DEF GetIdle, IInv
  <2>2. conn[x] = None /\ conn' = [conn EXCEPT ![x] = c] /\ UNCHANGED <<net, hand, chanClosed>>
    BY <1>4, <2>0 DEF GetIdle, wrapConn
  <2>3. \A y \in XConns \ {x} : Owns(y)' <=> Owns(y)
    BY <1>4, <2>2 DEF GetIdle, wrapConn, Owns, TypeOK
  <2>4. ~Owns(x) /\ Owns(x)' /\ conn'[x] = c
    BY <1>4, <2>1, <2>2 DEF GetIdle, wrapConn, Owns, LockInv, Locked, TypeOK
  <2>5. net[c] # "undialed" /\ Entry(c) = "idle" /\ Entry(c)' = x
    BY <2>1, <2>4 DEF EntryInv, Resting, IInv, FreshInv
  <2>6. ASSUME NEW d \in Conns \ {c} PROVE Entry(d)' = Entry(d)
    <3>1. Resting(d) <=> Resting(d)'
      BY <2>1, <2>2 DEF Resting
    <3>2. \A y \in XConns : Owns(y) /\ conn[y] = d <=> (Owns(y) /\ conn[y] = d)'
      BY <2>2, <2>3, <2>4 DEF TypeOK
    <3> QED
      BY <2>2, <3>1, <3>2, SameEntry
  <2>7. Ledger!Lend(c, x)
    <3>1. [d \in Conns |-> Entry(d)]' = [[d \in Conns |-> Entry(d)] EXCEPT ![c] = x]
      BY <2>1, <2>5, <2>6
    <3>2. {y \in XConns : conn[y] # None}' = {y \in XConns : conn[y] # None} \cup {x}
      BY <2>1, <2>2 DEF TypeOK
    <3> QED
      BY <2>1, <2>2, <2>5, <3>1, <3>2 DEF Ledger!Lend
  <2> QED
    BY <2>1, <2>7 DEF Ledger!LNext
<1>5. ASSUME NEW x \in XConns, Close(p, x) \/ Release(p, x) PROVE [Ledger!LNext]_(Ledger!lvars)
  <2>1. PICK label \in {"put", "release"} : Enter(p, x, label)
    BY <1>5 DEF Close, Release
  <2>2. UNCHANGED <<conns, chanClosed, net, conn, hand>>
    BY <2>1 DEF Enter, wrappers
  <2>3. \A y \in XConns : Owns(y) <=> Owns(y)'
    BY <2>1 DEF Enter, Owns, Idle, Goto, wrappers, TypeOK
  <2> QED
    BY <2>2, <2>3, SameEntries
<1>6. ASSUME NEW x \in XConns, Refused(p, x) \/ Unuse(p, x) PROVE [Ledger!LNext]_(Ledger!lvars)
  <2>1. UNCHANGED <<conns, chanClosed, net, conn, hand, closed, mtx, pc>>
    BY <1>6 DEF Refused, Unuse, vars, wrappers
  <2>2. \A y \in XConns : Owns(y) <=> Owns(y)'
    BY <2>1 DEF Owns
  <2> QED
    BY <2>1, <2>2, SameEntries
<1> QED
  BY <1>1, <1>2, <1>3, <1>4, <1>5, <1>6 DEF Call

\* So does every step inside a call.
LEMMA LedgerStep ==
    ASSUME IInv, IInv', EntryInv, EntryInv', NEW p \in Procs, Step(p)
    PROVE  [Ledger!LNext]_(Ledger!lvars)
<1> TypeOK /\ LockInv /\ LabelInv
  BY DEF IInv
<1> USE NoneAssumption DEF Ledger!lvars
<1>1. CASE DialFail(p) \/ PutFull(p) \/ PutClosed(p) \/ DrainEnd(p)
  <2>1. UNCHANGED <<conns, chanClosed, net, conn, hand>>
    BY <1>1 DEF DialFail, PutFull, PutClosed, DrainEnd, wrappers
  <2>2. \A y \in XConns : Owns(y) <=> Owns(y)'
    BY <1>1 DEF DialFail, PutFull, PutClosed, DrainEnd, Goto, wrappers, Owns, TypeOK
  <2> QED
    BY <2>1, <2>2, SameEntries
<1>2. ASSUME NEW x \in XConns, NEW c \in Conns, DialOk(p, x, c)
      PROVE  [Ledger!LNext]_(Ledger!lvars)
  <2>1. /\ net[c] = "undialed" /\ net' = [net EXCEPT ![c] = "open"]
        /\ conn[x] = None /\ conn' = [conn EXCEPT ![x] = c]
        /\ UNCHANGED <<conns, hand, chanClosed>>
    BY <1>2 DEF DialOk, wrapConn
  <2>2. \A y \in XConns \ {x} : Owns(y)' <=> Owns(y)
    BY <1>2, <2>1 DEF DialOk, wrapConn, Goto, Owns, TypeOK
  <2>3. ~Owns(x) /\ Owns(x)' /\ conn'[x] = c
    BY <1>2, <2>1 DEF DialOk, wrapConn, Goto, Owns, TypeOK, LockInv, Locked
  <2>4. Entry(c) = "undialed" /\ Entry(c)' = x
    BY <2>1, <2>3 DEF EntryInv
  <2>5. ASSUME NEW d \in Conns \ {c} PROVE Entry(d)' = Entry(d)
    <3>1. (net[d] = "undialed" <=> net'[d] = "undialed") /\ (Resting(d) <=> Resting(d)')
      BY <2>1 DEF Resting, Pooled, TypeOK
    <3>2. \A y \in XConns : Owns(y) /\ conn[y] = d <=> (Owns(y) /\ conn[y] = d)'
      BY <2>1, <2>2, <2>3 DEF TypeOK
    <3> QED
      BY <3>1, <3>2, SameEntry
  <2>6. Ledger!Dial(c, x)
    <3>1. [d \in Conns |-> Entry(d)]' = [[d \in Conns |-> Entry(d)] EXCEPT ![c] = x]
      BY <2>4, <2>5
    <3>2. {y \in XConns : conn[y] # None}' = {y \in XConns : conn[y] # None} \cup {x}
      BY <2>1 DEF TypeOK
    <3> QED
      BY <2>1, <2>4, <3>1, <3>2 DEF Ledger!Dial
  <2> QED
    BY <2>6 DEF Ledger!LNext
<1>3. CASE PutSend(p)
  <2>1. PICK x \in XConns, c \in Conns : cur[p] = x /\ conn[x] = c /\ Owns(x) /\ mtx[x] = p
    BY <1>3, InsideOwns DEF PutSend, Locked, LockInv
  <2>2. ~chanClosed /\ Len(conns) < Capacity /\ UNCHANGED <<chanClosed, net, conn, hand>>
    BY <1>3 DEF PutSend, wrappers
  <2>3. c \notin Pooled
    BY <2>1 DEF IInv, ExclusiveOwnership
  <2>4. Pooled' = Pooled \cup {c}
    BY <1>3, <2>1, <2>3, SendPooled DEF PutSend, IInv
  <2>5. ~Owns(x)' /\ \A z \in XConns \ {x} : Owns(z)' <=> Owns(z)
    BY <1>3, <2>1 DEF PutSend, Goto, wrappers, Owns, TypeOK, LockInv
  <2>6. net[c] # "undialed" /\ Entry(c) = x /\ Entry(c)' = "idle"
    BY <2>1, <2>2, <2>4 DEF EntryInv, Resting, IInv, FreshInv
  <2>7. ASSUME NEW d \in Conns \ {c} PROVE Entry(d)' = Entry(d)
    <3>1. Resting(d) <=> Resting(d)'
      BY <2>2, <2>4 DEF Resting
    <3>2. \A y \in XConns : Owns(y) /\ conn[y] = d <=> (Owns(y) /\ conn[y] = d)'
      BY <2>1, <2>2, <2>5
    <3> QED
      BY <2>2, <3>1, <3>2, SameEntry
  <2>8. Cardinality(Ledger!Idle) < Capacity
    <3>1. Ledger!Idle = Pooled
      BY <2>2, IdlePooled
    <3>2. IsFiniteSet(Pooled) /\ Cardinality(Pooled) <= Len(conns) /\ Len(conns) \in Nat
      BY PooledSize DEF TypeOK
    <3>3. Cardinality(Pooled) \in Nat
      BY <3>2, FS_CardinalityType
    <3> QED
      BY <2>2, <3>1, <3>2, <3>3, CapacityAssumption
  <2>9. Ledger!GiveBack(c)
    <3>1. [d \in Conns |-> Entry(d)]' = [[d \in Conns |-> Entry(d)] EXCEPT ![c] = "idle"]
      BY <2>6, <2>7
    <3>2. Ledger!Cardinality(Ledger!Idle) = Cardinality(Ledger!Idle)
      BY DEF Ledger!Cardinality, Ledger!IsFiniteSet, Cardinality, IsFiniteSet
    <3> QED
      BY <2>2, <2>6, <2>8, <3>1, <3>2 DEF Ledger!GiveBack
  <2> QED
    BY <2>9 DEF Ledger!LNext
<1>4. CASE PutRecover(p) \/ ConnCloseErr(p)
  <2>1. PICK x \in XConns, c \in Conns :
            cur[p] = x /\ conn[x] = c /\ Owns(x) /\ mtx[x] = p /\ pc[p] # "mark"
    BY <1>4, InsideOwns DEF PutRecover, ConnCloseErr, Locked, LockInv
  <2>2. UNCHANGED <<conns, chanClosed, conn, closed, hand>> /\ Leave(p)
    BY <1>4 DEF PutRecover, ConnCloseErr, wrappers
  <2>3. PICK ok \in BOOLEAN : CloseConn(c, ok)
    BY <1>4, <2>1 DEF PutRecover, ConnCloseErr
  <2>4. \A d \in Conns : net[d] = "undialed" <=> net'[d] = "undialed"
    BY <2>3 DEF CloseConn, TypeOK
  <2>5. \A z \in XConns : Owns(z) <=> Owns(z)'
    BY <2>1, <2>2 DEF Leave, Goto, Owns, TypeOK
  <2> QED
    BY <2>2, <2>4, <2>5, SameEntries
<1>5. CASE ConnClosed(p)
  <2>1. PICK x \in XConns, c \in Conns : cur[p] = x /\ conn[x] = c /\ Owns(x) /\ mtx[x] = p
    BY <1>5, InsideOwns DEF ConnClosed, Locked, LockInv
  <2>2. UNCHANGED <<conns, chanClosed, conn, hand>> /\ CloseConn(c, TRUE)
    BY <1>5, <2>1 DEF ConnClosed, wrappers
  <2>3. net[c] # "undialed" /\ \A d \in Conns : net[d] = "undialed" <=> net'[d] = "undialed"
    BY <2>2 DEF CloseConn, TypeOK
  <2>4. ~Owns(x)' /\ \A z \in XConns \ {x} : Owns(z)' <=> Owns(z)
    BY <1>5, <2>1 DEF ConnClosed, Goto, wrappers, Owns, TypeOK, LockInv
  <2>5. \A z \in XConns \ {x} : Owns(z) => conn[z] # c
    BY <2>1 DEF IInv, ExclusiveOwnership
  <2>6. ~Resting(c)
    BY <2>1 DEF IInv, ExclusiveOwnership, Resting
  <2>7. Entry(c) = x /\ Entry(c)' = "released"
    <3>1. ~Resting(c)' /\ ~Owned(c)'
      BY <2>1, <2>2, <2>4, <2>5, <2>6 DEF Resting, Pooled, Owned
    <3> QED
      BY <2>1, <2>3, <3>1 DEF EntryInv
  <2>8. ASSUME NEW d \in Conns \ {c} PROVE Entry(d)' = Entry(d)
    <3>1. Resting(d) <=> Resting(d)'
      BY <2>2 DEF Resting, Pooled
    <3>2. \A y \in XConns : Owns(y) /\ conn[y] = d <=> (Owns(y) /\ conn[y] = d)'
      BY <2>1, <2>2, <2>4
    <3> QED
      BY <2>3, <3>1, <3>2, SameEntry
  <2>9. Ledger!Discard(c)
    <3>1. [d \in Conns |-> Entry(d)]' = [[d \in Conns |-> Entry(d)] EXCEPT ![c] = "released"]
      BY <2>7, <2>8
    <3> QED
      BY <2>2, <2>7, <3>1 DEF Ledger!Discard
  <2> QED
    BY <2>9 DEF Ledger!LNext
<1>6. CASE MarkClosed(p)
  <2>1. PICK x \in XConns : cur[p] = x /\ ~Owns(x) /\ mtx[x] = p
    BY <1>6, InsideOwns DEF MarkClosed, Locked, LockInv
  <2>2. UNCHANGED <<conns, chanClosed, net, conn, hand>>
    BY <1>6 DEF MarkClosed, wrappers
  <2>3. \A z \in XConns : Owns(z) <=> Owns(z)'
    BY <1>6, <2>1 DEF MarkClosed, Leave, Goto, wrappers, Owns, TypeOK, LockInv
  <2> QED
    BY <2>2, <2>3, SameEntries
<1>7. CASE DrainRecv(p)
  <2>0. PICK c \in Conns : c = Head(conns)
    BY <1>7 DEF DrainRecv, TypeOK
  <2>1. c \in Pooled /\ Pooled' = Pooled \ {c}
    BY <1>7, <2>0, ReceivePooled DEF DrainRecv, IInv
  <2>2. /\ hand[p] = None /\ hand' = [hand EXCEPT ![p] = c]
        /\ UNCHANGED <<net, conn, chanClosed>>
    BY <1>7, <2>0 DEF DrainRecv, wrappers, LabelInv
  <2>3. \A y \in XConns : Owns(y) <=> Owns(y)'
    BY <1>7 DEF DrainRecv, Goto, wrappers, Owns, TypeOK
  <2>4. ASSUME NEW d \in Conns PROVE Entry(d)' = Entry(d)
    <3>1. Resting(d) <=> Resting(d)'
      BY <2>1, <2>2 DEF Resting, TypeOK
    <3>2. \A y \in XConns : Owns(y) /\ conn[y] = d <=> (Owns(y) /\ conn[y] = d)'
      BY <2>2, <2>3
    <3> QED
      BY <2>2, <3>1, <3>2, SameEntry
  <2> QED
    BY <2>2, <2>4
<1>8. CASE DrainClose(p)
  <2>0. PICK c \in Conns : c = hand[p]
    BY <1>8 DEF DrainClose, LabelInv, TypeOK
  <2>1. /\ hand[p] = c /\ hand[p] # None /\ chanClosed /\ hand' = [hand EXCEPT ![p] = None]
        /\ UNCHANGED <<conns, chanClosed, conn>>
        /\ \E ok \in BOOLEAN : CloseConn(c, ok)
    BY <1>8, <2>0 DEF DrainClose, wrappers, LabelInv
  <2>2. net[c] # "undialed" /\ \A d \in Conns : net[d] = "undialed" <=> net'[d] = "undialed"
    BY <2>1 DEF CloseConn, TypeOK
  <2>3. \A y \in XConns : Owns(y) <=> Owns(y)'
    BY <1>8 DEF DrainClose, Goto, wrappers, Owns, TypeOK
  <2>4. /\ c \notin Pooled
        /\ \A x \in XConns : Owns(x) => conn[x] # c
        /\ \A q \in Procs : hand[q] = c => q = p
    BY <2>1 DEF IInv, ExclusiveOwnership
  <2>5. Entry(c) = "idle" /\ Entry(c)' = "released"
    <3>1. Resting(c) /\ ~Resting(c)' /\ ~Owned(c)'
      BY <2>1, <2>3, <2>4 DEF Resting, Pooled, Owned, TypeOK
    <3> QED
      BY <2>1, <2>2, <3>1 DEF EntryInv
  <2>6. ASSUME NEW d \in Conns \ {c} PROVE Entry(d)' = Entry(d)
    <3>1. Resting(d) <=> Resting(d)'
      BY <2>1 DEF Resting, Pooled, TypeOK
    <3>2. \A y \in XConns : Owns(y) /\ conn[y] = d <=> (Owns(y) /\ conn[y] = d)'
      BY <2>1, <2>3
    <3> QED
      BY <2>2, <3>1, <3>2, SameEntry
  <2>7. Ledger!Drop(c)
    <3>1. [d \in Conns |-> Entry(d)]' = [[d \in Conns |-> Entry(d)] EXCEPT ![c] = "released"]
      BY <2>1, <2>5, <2>6
    <3> QED
      BY <2>1, <2>5, <3>1 DEF Ledger!Drop
  <2> QED
    BY <2>1, <2>7 DEF Ledger!LNext
<1> QED
  BY <1>1, <1>2, <1>3, <1>4, <1>5, <1>6, <1>7, <1>8 DEF Step

\* The pool implements the ledger: every behaviour of it, seen through the
\* entries, is one in which connections are dialed, lent, given back to an
\* open pool with room, discarded, and dropped by a closed pool, and nothing
\* else happens to them.
THEOREM LedgerRefinement == Spec => ImplementsLedger
<1>1. Init => Ledger!LInit
  <2> SUFFICES ASSUME Init PROVE Ledger!LInit
    OBVIOUS
  <2>1. \A c \in Conns : Entry(c) = "undialed"
    BY DEF Init, Entry
  <2> QED
    BY <2>1 DEF Init, Ledger!LInit
<1>2. ASSUME IInv, IInv', EntryInv, EntryInv', [Next]_vars
      PROVE  [Ledger!LNext]_(Ledger!lvars)
  <2>1. CASE UNCHANGED vars
    <3>1. \A x \in XConns : Owns(x) <=> Owns(x)'
      BY <2>1 DEF vars, wrappers, Owns
    <3> QED
      BY <1>2, <2>1, <3>1, SameEntries DEF vars, wrappers, Ledger!lvars
  <2>2. ASSUME NEW p \in Procs, Call(p) \/ Step(p) PROVE [Ledger!LNext]_(Ledger!lvars)
    BY <1>2, <2>2, LedgerCall, LedgerStep
  <2> QED
    BY <1>2, <2>1, <2>2 DEF Next
<1> QED
  BY <1>1, <1>2, Invariant, EntryPlace, PTL DEF Spec, ImplementsLedger, Ledger!LSpec

=============================================================================
