------------------------------- MODULE XpProofs -------------------------------
(***************************************************************************)
(* Theorems about the RPC client and the router (Xp, XpRouter), for any     *)
(* number of calls and connections, any lengths of the server's channel and *)
(* of the bursts of the other clients and any capacity of the pool.         *)
(***************************************************************************)
EXTENDS Xp, SequenceTheorems, TLAPS

-----------------------------------------------------------------------------
(* The invariants.                                                          *)

Pooled == Conns \ Piped

\* Types, and what the goroutines' steps say of their hands.
RouterInv ==
    /\ RTypeOK
    /\ \A c \in Conns : /\ reader[c] = "put" <=> decoded[c] # None
                        /\ writer[c] \in {"handle", "last"} <=> req[c] # None
                        /\ writer[c] = "returned" => queue[c] = <<>>
                        /\ client[c] = "none" => reader[c] = "none" /\ writer[c] = "none" /\ ~readDone[c]

\* A connection is held by the call that has it.
HeldInv ==
    /\ entry \in [Pooled -> Calls \cup {"undialed", "idle", "released"}]
    /\ call \in [Calls -> {"new", "encode", "decode", "returned"}]
    /\ conn \in [Calls -> Pooled \cup {None}]
    /\ \A c \in Pooled : entry[c] \in Calls => call[entry[c]] \in {"encode", "decode"} /\ conn[entry[c]] = c
    /\ \A r \in Calls : call[r] \in {"encode", "decode"} => conn[r] \in Pooled /\ entry[conn[r]] = r
    /\ \A c \in Pooled : /\ entry[c] = "undialed" => client[c] = "none"
                         /\ entry[c] \in Calls \cup {"idle"} => client[c] = "open"

\* Nothing is on its way on a connection.
NoDown(c) == down[c] = <<>>
NoServer(c) == req[c] = None /\ queue[c] = <<>> /\ decoded[c] = None
NoUp(c) == up[c] = <<>>
Empty(c) == NoDown(c) /\ NoServer(c) /\ NoUp(c)

\* The request r, or its response, is all there is on its way.
Carries(c, r) ==
    \/ NoDown(c) /\ NoServer(c) /\ up[c] = <<r>>
    \/ NoDown(c) /\ NoUp(c) /\ req[c] = None /\ queue[c] = <<>> /\ decoded[c] = r
    \/ NoDown(c) /\ NoUp(c) /\ req[c] = None /\ queue[c] = <<r>> /\ decoded[c] = None
    \/ NoDown(c) /\ NoUp(c) /\ req[c] = r /\ queue[c] = <<>> /\ decoded[c] = None
    \/ NoServer(c) /\ NoUp(c) /\ \E code \in Codes : down[c] = <<[req |-> r, code |-> code]>>

CarriedInv ==
    /\ \A c \in Pooled : entry[c] \in {"undialed", "idle"} => Empty(c)
    /\ \A r \in Calls : /\ call[r] = "encode" => Empty(conn[r])
                        /\ call[r] = "decode" => Carries(conn[r], r)

\* The router has given the connection up only with a SERVER_ERROR that the
\* client has still to read.
Healthy(c) == reader[c] \in {"decode", "put"} /\ ~readDone[c] /\ writer[c] \in {"select", "handle"}
              /\ \A i \in 1 .. Len(down[c]) : down[c][i].code # "SERVER_ERROR"
Failed(c) == NoServer(c) /\ NoUp(c) /\ down[c] # <<>> /\ Head(down[c]).code = "SERVER_ERROR"

ServedInv == Serving => \A c \in Pooled : entry[c] \in Calls \cup {"idle"} => Healthy(c) \/ Failed(c)

\* The requests of the other clients are in order from the responses to what
\* the server has not decoded.
BeforeQueue(c) == Len(down[c]) + IF req[c] = None THEN 0 ELSE 1
BeforeHand(c) == BeforeQueue(c) + Len(queue[c])
BeforeUp(c) == BeforeHand(c) + IF decoded[c] = None THEN 0 ELSE 1

InOrder(c) ==
    /\ req[c] # None => req[c] = Len(down[c]) + 1
    /\ \A i \in 1 .. Len(queue[c]) : queue[c][i] = BeforeQueue(c) + i
    /\ decoded[c] # None => decoded[c] = BeforeHand(c) + 1
    /\ \A i \in 1 .. Len(up[c]) : up[c][i] = BeforeUp(c) + i
    /\ BeforeUp(c) + Len(up[c]) = sent[c]

PipedInv ==
    /\ sent \in [Piped -> 0 .. Burst]
    /\ \A c \in Piped : /\ \A i \in 1 .. Len(down[c]) : down[c][i].req = i
                        /\ client[c] \in {"none", "open"} => InOrder(c)

XpInv == RouterInv /\ HeldInv /\ CarriedInv /\ ServedInv /\ PipedInv /\ ResponseMatches

-----------------------------------------------------------------------------
(* The steps and the router.                                                *)

\* A step of the server on c changes nothing of another connection.
Elsewhere(c) ==
    /\ client' = client /\ exit' = exit
    /\ \A d \in Conns : d # c => /\ up'[d] = up[d] /\ down'[d] = down[d] /\ reader'[d] = reader[d]
                                 /\ decoded'[d] = decoded[d] /\ queue'[d] = queue[d]
                                 /\ readDone'[d] = readDone[d] /\ writer'[d] = writer[d] /\ req'[d] = req[d]

\* The empty sequence and the parts of one that is not.
LEMMA Parts ==
    ASSUME NEW S, NEW s \in Seq(S)
    PROVE  /\ s # <<>> => /\ Head(s) \in S /\ Tail(s) \in Seq(S) /\ Len(Tail(s)) = Len(s) - 1
                          /\ Head(s) = s[1] /\ Len(s) >= 1
                          /\ \A i \in 1 .. Len(s) - 1 : Tail(s)[i] = s[i + 1]
           /\ \A e \in S : /\ Append(s, e) \in Seq(S) /\ Len(Append(s, e)) = Len(s) + 1
                           /\ \A i \in 1 .. Len(s) : Append(s, e)[i] = s[i]
                           /\ Append(s, e)[Len(s) + 1] = e
           /\ Len(s) \in Nat
<1>1. Len(s) \in Nat
  BY LenProperties
<1>2. ASSUME s # <<>>
      PROVE  /\ Head(s) \in S /\ Tail(s) \in Seq(S) /\ Len(Tail(s)) = Len(s) - 1
             /\ Head(s) = s[1] /\ Len(s) >= 1
             /\ \A i \in 1 .. Len(s) - 1 : Tail(s)[i] = s[i + 1]
  <2>1. /\ Head(s) \in S /\ Tail(s) \in Seq(S) /\ Len(Tail(s)) = Len(s) - 1
        /\ \A i \in 1 .. Len(Tail(s)) : Tail(s)[i] = s[i + 1]
    BY <1>2, HeadTailProperties
  <2>2. Len(s) >= 1
    BY <1>1, <1>2, EmptySeq
  <2> QED
    BY <2>1, <2>2
<1>3. \A e \in S : /\ Append(s, e) \in Seq(S) /\ Len(Append(s, e)) = Len(s) + 1
                   /\ \A i \in 1 .. Len(s) : Append(s, e)[i] = s[i]
                   /\ Append(s, e)[Len(s) + 1] = e
  BY AppendProperties
<1> QED
  BY <1>1, <1>2, <1>3

\* The reader.
LEMMA Reads ==
    ASSUME RouterInv, NEW c \in Conns, ReadStep(c)
    PROVE  RouterInv' /\ Elsewhere(c)
<1>1. CASE Decode(c)
  <2>1. Head(up[c]) \in Requests /\ Tail(up[c]) \in Seq(Requests)
    BY <1>1, Parts DEF Decode, RouterInv, RTypeOK
  <2>2. Head(up[c]) # None
    BY <2>1, RouterAssumption
  <2>3. RTypeOK'
    BY <1>1, <2>1 DEF Decode, ReaderTo, RouterInv, RTypeOK
  <2>4. Elsewhere(c) /\ decoded'[c] # None /\ reader'[c] = "put" /\ reader[c] = "decode"
    BY <1>1, <2>2 DEF Decode, ReaderTo, RouterInv, RTypeOK, Elsewhere
  <2>5. writer' = writer /\ req' = req /\ queue' = queue
    BY <1>1 DEF Decode
  <2> QED
    BY <2>3, <2>4, <2>5 DEF RouterInv, Elsewhere
<1>2. CASE DecodeFails(c)
  <2>1. RTypeOK' /\ Elsewhere(c)
    BY <1>2 DEF DecodeFails, ReaderTo, net, RouterInv, RTypeOK, Elsewhere
  <2>2. /\ writer' = writer /\ req' = req /\ queue' = queue /\ decoded' = decoded
        /\ reader[c] = "decode" /\ reader'[c] = "done"
    BY <1>2 DEF DecodeFails, ReaderTo, RouterInv, RTypeOK
  <2> QED
    BY <2>1, <2>2 DEF RouterInv, Elsewhere
<1>3. CASE Put(c)
  <2>1. decoded[c] \in Requests
    BY <1>3 DEF Put, ReaderTo, RouterInv, RTypeOK
  <2>2. Append(queue[c], decoded[c]) \in Seq(Requests) /\ Len(Append(queue[c], decoded[c])) = Len(queue[c]) + 1
    BY <2>1, Parts DEF RouterInv, RTypeOK
  <2>3. Len(queue[c]) \in Nat
    BY Parts DEF RouterInv, RTypeOK
  <2>4. queue' \in [Conns -> Seq(Requests)] /\ \A d \in Conns : Len(queue'[d]) <= QueueSize
    BY <1>3, <2>2, <2>3, RouterAssumption DEF Put, RouterInv, RTypeOK
  <2>5. RTypeOK'
    BY <1>3, <2>4 DEF Put, ReaderTo, net, RouterInv, RTypeOK
  <2>6. /\ Elsewhere(c) /\ writer' = writer /\ req' = req
        /\ writer[c] # "returned" /\ decoded'[c] = None /\ reader'[c] = "decode"
    BY <1>3 DEF Put, QueueClosed, ReaderTo, net, RouterInv, RTypeOK, Elsewhere
  <2>7. reader[c] = "put"
    BY <1>3 DEF Put, ReaderTo
  <2> QED
    BY <2>5, <2>6, <2>7 DEF RouterInv, Elsewhere
<1>4. CASE PutPanics(c)
  BY <1>4 DEF PutPanics, net, RouterInv, RTypeOK, Elsewhere
<1> QED
  BY <1>1, <1>2, <1>3, <1>4 DEF ReadStep

\* The writer.
LEMMA Writes ==
    ASSUME RouterInv, NEW c \in Conns, WriteStep(c)
    PROVE  RouterInv' /\ Elsewhere(c)
<1>1. CASE Take(c)
  <2>1. Head(queue[c]) \in Requests /\ Tail(queue[c]) \in Seq(Requests) /\ Len(Tail(queue[c])) = Len(queue[c]) - 1
    BY <1>1, Parts DEF Take, RouterInv, RTypeOK
  <2>2. Head(queue[c]) # None /\ Len(queue[c]) \in Nat
    BY <2>1, RouterAssumption, Parts DEF RouterInv, RTypeOK
  <2>3. queue' \in [Conns -> Seq(Requests)] /\ \A d \in Conns : Len(queue'[d]) <= QueueSize
    BY <1>1, <2>1, <2>2, RouterAssumption DEF Take, RouterInv, RTypeOK
  <2>4. RTypeOK'
    BY <1>1, <2>1, <2>3 DEF Take, WriterTo, net, RouterInv, RTypeOK
  <2>5. /\ Elsewhere(c) /\ reader' = reader /\ decoded' = decoded
        /\ req'[c] # None /\ writer'[c] \in {"handle", "last"} /\ writer[c] \in {"select", "drain"}
    BY <1>1, <2>2 DEF Take, WriterTo, net, RouterInv, RTypeOK, Elsewhere
  <2> QED
    BY <2>4, <2>5 DEF RouterInv, Elsewhere
<1>2. CASE SeeReadDone(c) \/ SeeExit(c) \/ CloseQueue(c) \/ Return(c)
  <2>1. RTypeOK' /\ Elsewhere(c)
    BY <1>2, ZenonT(30) DEF SeeReadDone, SeeExit, CloseQueue, Return, WriterTo, net, RouterInv, RTypeOK, Elsewhere
  <2>2. /\ reader' = reader /\ decoded' = decoded /\ req' = req /\ queue' = queue
        /\ writer[c] \in {"select", "shut", "drain"} /\ writer'[c] \in {"shut", "drain", "returned"}
        /\ writer'[c] = "returned" => queue[c] = <<>>
    BY <1>2 DEF SeeReadDone, SeeExit, CloseQueue, Return, WriterTo, RouterInv, RTypeOK
  <2> QED
    BY <2>1, <2>2 DEF RouterInv, Elsewhere
<1>3. ASSUME NEW code \in Codes, Respond(c, code) \/ RespondFails(c, code) PROVE RouterInv' /\ Elsewhere(c)
  <2>1. /\ writer[c] \in {"handle", "last"} /\ req[c] \in Requests
        /\ writer'[c] \in {"drain", "shut", "select"} /\ req'[c] = None
    BY <1>3 DEF Respond, RespondFails, Handled, RouterInv, RTypeOK
  <2>2. writer' \in [Conns -> {"none", "select", "handle", "shut", "drain", "last", "returned"}]
    BY <1>3 DEF Respond, RespondFails, Handled, RouterInv, RTypeOK
  <2>3. req' \in [Conns -> Requests \cup {None}]
    BY <1>3 DEF Respond, RespondFails, Handled, RouterInv, RTypeOK
  <2>4. down' \in [Conns -> Seq(Response)]
    <3>1. [req |-> req[c], code |-> code] \in Response
      BY <2>1 DEF Response
    <3>2. Append(down[c], [req |-> req[c], code |-> code]) \in Seq(Response)
      BY <3>1, Parts DEF RouterInv, RTypeOK
    <3> QED
      BY <1>3, <3>2 DEF Respond, RespondFails, net, RouterInv, RTypeOK
  <2>5. RTypeOK'
    BY <1>3, <2>2, <2>3, <2>4 DEF Respond, RespondFails, net, RouterInv, RTypeOK
  <2>6. Elsewhere(c) /\ reader' = reader /\ decoded' = decoded /\ queue' = queue
    BY <1>3 DEF Respond, RespondFails, Handled, net, RouterInv, RTypeOK, Elsewhere
  <2> QED
    BY <2>1, <2>5, <2>6 DEF RouterInv, Elsewhere
<1> QED
  BY <1>1, <1>2, <1>3 DEF WriteStep

\* The server accepts a connection, or is told to exit.
LEMMA Handles ==
    ASSUME RouterInv, NEW c \in Conns, Handle(c)
    PROVE  RouterInv'
<1>1. RTypeOK'
  BY DEF Handle, ReaderTo, WriterTo, RouterInv, RTypeOK
<1>2. /\ decoded' = decoded /\ req' = req /\ queue' = queue
      /\ reader[c] = "none" /\ reader'[c] = "decode" /\ writer[c] = "none" /\ writer'[c] = "select"
      /\ client'[c] = "open" /\ readDone' = readDone
      /\ \A d \in Conns : d # c => reader'[d] = reader[d] /\ writer'[d] = writer[d] /\ client'[d] = client[d]
  BY DEF Handle, ReaderTo, WriterTo, RouterInv, RTypeOK
<1> QED
  BY <1>1, <1>2 DEF RouterInv

\* Exit changes no connection.
LEMMA Exiting == RouterInv /\ Exit => RouterInv'
BY DEF Exit, net, RouterInv, RTypeOK

\* What the client's end does.
LEMMA ClientKeeps ==
    ASSUME RouterInv, SameServer,
           client' \in [Conns -> {"none", "open", "closed"}],
           up' \in [Conns -> Seq(Requests)], down' \in [Conns -> Seq(Response)],
           \A c \in Conns : client'[c] = "none" => client[c] = "none"
    PROVE  RouterInv'
BY DEF SameServer, RouterInv, RTypeOK

-----------------------------------------------------------------------------
(* What is on its way on a connection.                                      *)

\* A step of the server moves one request on, drops one as its client has
\* gone, or moves none.
Flow(c) ==
    \/ /\ up'[c] = up[c] /\ decoded'[c] = decoded[c] /\ queue'[c] = queue[c] /\ req'[c] = req[c]
       /\ down'[c] = down[c]
    \/ /\ up[c] # <<>> /\ decoded[c] = None
       /\ up'[c] = Tail(up[c]) /\ decoded'[c] = Head(up[c])
       /\ queue'[c] = queue[c] /\ req'[c] = req[c] /\ down'[c] = down[c]
    \/ /\ decoded[c] # None
       /\ decoded'[c] = None /\ queue'[c] = Append(queue[c], decoded[c])
       /\ up'[c] = up[c] /\ req'[c] = req[c] /\ down'[c] = down[c]
    \/ /\ queue[c] # <<>> /\ req[c] = None
       /\ queue'[c] = Tail(queue[c]) /\ req'[c] = Head(queue[c])
       /\ up'[c] = up[c] /\ decoded'[c] = decoded[c] /\ down'[c] = down[c]
    \/ /\ req[c] # None /\ client[c] = "open"
       /\ req'[c] = None /\ \E code \in Codes : down'[c] = Append(down[c], [req |-> req[c], code |-> code])
       /\ up'[c] = up[c] /\ decoded'[c] = decoded[c] /\ queue'[c] = queue[c]
    \/ /\ req[c] # None /\ client[c] = "closed" /\ req'[c] = None
       /\ up'[c] = up[c] /\ decoded'[c] = decoded[c] /\ queue'[c] = queue[c] /\ down'[c] = down[c]

\* Every step of the server on a connection is a Flow.
LEMMA Flows ==
    ASSUME RouterInv, NEW c \in Conns, ReadStep(c) \/ WriteStep(c)
    PROVE  Flow(c)
<1> USE DEF RouterInv, RTypeOK
<1>1. CASE Decode(c)
  BY <1>1 DEF Decode, ReaderTo, Flow
<1>2. CASE DecodeFails(c) \/ PutPanics(c)
  BY <1>2 DEF DecodeFails, PutPanics, net, Flow
<1>3. CASE Put(c)
  BY <1>3 DEF Put, ReaderTo, net, Flow
<1>4. CASE Take(c)
  <2>1. writer[c] \in {"select", "drain"}
    BY <1>4 DEF Take, WriterTo
  <2>2. req[c] = None
    BY <2>1
  <2> QED
    BY <1>4, <2>2 DEF Take, net, Flow
<1>5. CASE SeeReadDone(c) \/ SeeExit(c) \/ CloseQueue(c) \/ Return(c)
  BY <1>5 DEF SeeReadDone, SeeExit, CloseQueue, Return, net, Flow
<1>6. ASSUME NEW code \in Codes, Respond(c, code) \/ RespondFails(c, code) PROVE Flow(c)
  <2>1. req[c] # None
    BY <1>6 DEF Respond, RespondFails
  <2>2. CASE Respond(c, code)
    BY <2>1, <2>2 DEF Respond, Handled, Flow
  <2>3. CASE RespondFails(c, code)
    BY <2>1, <2>3 DEF RespondFails, Handled, net, Flow
  <2> QED
    BY <1>6, <2>2, <2>3
<1> QED
  BY <1>1, <1>2, <1>3, <1>4, <1>5, <1>6 DEF ReadStep, WriteStep

\* An empty connection stays so, and one that carries a request carries it on.
LEMMA EmptyFlows == ASSUME NEW c, Flow(c), Empty(c) PROVE Empty(c)'
BY DEF Flow, Empty, NoDown, NoServer, NoUp

\* The request, and then its response, stays the only one.
LEMMA CarriesFlows ==
    ASSUME NEW c, NEW r \in Requests, Flow(c), Carries(c, r), client[c] = "open"
    PROVE  Carries(c, r)'
<1>1. r # None /\ <<r>> # <<>>
  BY RouterAssumption
<1> USE DEF NoDown, NoServer, NoUp
<1>2. CASE NoDown(c) /\ NoServer(c) /\ up[c] = <<r>>
  <2>1. Head(<<r>>) = r /\ Tail(<<r>>) = <<>>
    OBVIOUS
  <2> QED
    BY <1>1, <1>2, <2>1 DEF Flow, Carries
<1>3. CASE NoDown(c) /\ NoUp(c) /\ req[c] = None /\ queue[c] = <<>> /\ decoded[c] = r
  <2>1. Append(<<>>, r) = <<r>>
    OBVIOUS
  <2> QED
    BY <1>1, <1>3, <2>1 DEF Flow, Carries
<1>4. CASE NoDown(c) /\ NoUp(c) /\ req[c] = None /\ queue[c] = <<r>> /\ decoded[c] = None
  <2>1. Head(<<r>>) = r /\ Tail(<<r>>) = <<>>
    OBVIOUS
  <2> QED
    BY <1>1, <1>4, <2>1 DEF Flow, Carries
<1>5. CASE NoDown(c) /\ NoUp(c) /\ req[c] = r /\ queue[c] = <<>> /\ decoded[c] = None
  <2>1. \A x : Append(<<>>, x) = <<x>>
    OBVIOUS
  <2> QED
    BY <1>1, <1>5, <2>1 DEF Flow, Carries
<1>6. CASE NoServer(c) /\ NoUp(c) /\ \E code \in Codes : down[c] = <<[req |-> r, code |-> code]>>
  BY <1>1, <1>6 DEF Flow, Carries
<1> QED
  BY <1>2, <1>3, <1>4, <1>5, <1>6 DEF Carries

\* What the other connections carry.
LEMMA ElsewhereCarries ==
    ASSUME NEW c, Elsewhere(c), NEW d \in Conns, d # c
    PROVE  /\ Empty(d)' <=> Empty(d)
           /\ \A r : Carries(d, r)' <=> Carries(d, r)
BY DEF Elsewhere, Empty, Carries, NoDown, NoServer, NoUp

\* The server keeps what the connections of the pool carry.
LEMMA ServerCarries ==
    ASSUME RouterInv, HeldInv, CarriedInv, NEW c \in Conns, ReadStep(c) \/ WriteStep(c),
           UNCHANGED <<pool, calls>>
    PROVE  CarriedInv'
<1>1. Flow(c) /\ Elsewhere(c)
  BY Flows, Reads, Writes
<1>2. entry' = entry /\ call' = call /\ conn' = conn
  BY DEF pool, calls
<1>3. ASSUME NEW d \in Pooled, entry[d] \in {"undialed", "idle"} PROVE Empty(d)'
  <2>1. Empty(d) /\ d \in Conns
    BY <1>3 DEF CarriedInv, Pooled
  <2> QED
    BY <1>1, <2>1, EmptyFlows, ElsewhereCarries
<1>4. ASSUME NEW r \in Calls, call[r] = "encode" PROVE Empty(conn[r])'
  <2>1. Empty(conn[r]) /\ conn[r] \in Conns
    BY <1>4 DEF CarriedInv, HeldInv, Pooled
  <2>2. PICK d \in Conns : d = conn[r]
    BY <2>1
  <2>3. Empty(d)'
    BY <1>1, <2>1, <2>2, EmptyFlows, ElsewhereCarries
  <2> QED
    BY <1>2, <2>2, <2>3 DEF Empty, NoDown, NoServer, NoUp
<1>5. ASSUME NEW r \in Calls, call[r] = "decode" PROVE Carries(conn[r], r)'
  <2>1. Carries(conn[r], r) /\ conn[r] \in Conns /\ client[conn[r]] = "open" /\ r \in Requests
    BY <1>5, ClientAssumption DEF CarriedInv, HeldInv, Pooled
  <2>2. PICK d \in Conns : d = conn[r]
    BY <2>1
  <2>3. Carries(d, r)'
    BY <1>1, <2>1, <2>2, CarriesFlows, ElsewhereCarries
  <2> QED
    BY <1>2, <2>2, <2>3 DEF Carries, NoDown, NoServer, NoUp
<1> QED
  BY <1>2, <1>3, <1>4, <1>5 DEF CarriedInv

\* The router gives a connection up only after a SERVER_ERROR on it.
LEMMA FailedFlows == ASSUME NEW c, Flow(c), Failed(c) PROVE Failed(c)'
BY DEF Flow, Failed, NoServer, NoUp

\* The reader of a connection whose client is there goes on.
LEMMA HealthyReads ==
    ASSUME RouterInv, NEW c \in Conns, ReadStep(c), Healthy(c), client[c] = "open"
    PROVE  Healthy(c)'
<1> USE DEF RouterInv, RTypeOK, Healthy
<1>1. CASE Decode(c)
  BY <1>1 DEF Decode, ReaderTo
<1>2. CASE DecodeFails(c)
  BY <1>2 DEF DecodeFails
<1>3. CASE Put(c)
  BY <1>3 DEF Put, ReaderTo, net
<1>4. CASE PutPanics(c)
  BY <1>4 DEF PutPanics, QueueClosed
<1> QED
  BY <1>1, <1>2, <1>3, <1>4 DEF ReadStep

\* The writer goes on too, or has sent a SERVER_ERROR as the only response.
LEMMA HealthyWrites ==
    ASSUME RouterInv, NEW c \in Conns, WriteStep(c), Healthy(c), client[c] = "open", Serving,
           Empty(c) \/ \E r \in Requests : Carries(c, r)
    PROVE  (Healthy(c) \/ Failed(c))'
<1>1. writer[c] \in {"select", "handle"} /\ ~readDone[c] /\ ~exit
  BY DEF Healthy, Serving
<1>2. CASE Take(c)
  BY <1>1, <1>2 DEF Take, WriterTo, net, RouterInv, RTypeOK, Healthy
<1>3. CASE SeeReadDone(c) \/ SeeExit(c) \/ CloseQueue(c) \/ Return(c)
  BY <1>1, <1>3 DEF SeeReadDone, SeeExit, CloseQueue, Return, WriterTo
<1>4. ASSUME NEW code \in Codes, RespondFails(c, code) PROVE FALSE
  BY <1>4 DEF RespondFails
<1>5. ASSUME NEW code \in Codes, Respond(c, code) PROVE (Healthy(c) \/ Failed(c))'
  <2> DEFINE rsp == [req |-> req[c], code |-> code]
  <2>1. writer[c] = "handle" /\ req[c] # None /\ req[c] \in Requests
    BY <1>1, <1>5 DEF Respond, RouterInv, RTypeOK
  <2>2. /\ down[c] = <<>> /\ queue[c] = <<>> /\ decoded[c] = None /\ up[c] = <<>>
    BY <2>1 DEF Empty, Carries, NoServer, NoDown, NoUp
  <2>3. rsp \in Response /\ down'[c] = Append(down[c], rsp)
    BY <1>5, <2>1 DEF Respond, Response, RouterInv, RTypeOK
  <2>4. down'[c] = <<rsp>>
    BY <2>2, <2>3
  <2>5. /\ queue' = queue /\ decoded' = decoded /\ up' = up /\ reader' = reader /\ readDone' = readDone
        /\ req'[c] = None
        /\ writer'[c] = IF code = "SERVER_ERROR" THEN "shut" ELSE "select"
    BY <1>5, <2>1 DEF Respond, Handled, RouterInv, RTypeOK
  <2>6. CASE code = "SERVER_ERROR"
    <3>1. down'[c] # <<>> /\ Head(down'[c]).code = "SERVER_ERROR"
      BY <2>4, <2>6
    <3> QED
      BY <2>2, <2>5, <3>1 DEF Failed, NoServer, NoUp
  <2>7. CASE code # "SERVER_ERROR"
    <3>1. \A i \in 1 .. Len(down'[c]) : down'[c][i].code # "SERVER_ERROR"
      BY <2>4, <2>7
    <3> QED
      BY <2>5, <2>7, <3>1 DEF Healthy
  <2> QED
    BY <2>6, <2>7
<1> QED
  BY <1>2, <1>3, <1>4, <1>5 DEF WriteStep

\* What a connection in use or in the pool carries.
LEMMA UsedCarries ==
    ASSUME HeldInv, CarriedInv, NEW c \in Pooled, entry[c] \in Calls \cup {"idle"}
    PROVE  /\ client[c] = "open"
           /\ Empty(c) \/ \E r \in Requests : Carries(c, r)
<1>1. CASE entry[c] = "idle"
  BY <1>1 DEF HeldInv, CarriedInv
<1>2. CASE entry[c] \in Calls
  <2>1. PICK r \in Calls : r = entry[c]
    BY <1>2
  <2>2. call[r] \in {"encode", "decode"} /\ conn[r] = c
    BY <2>1 DEF HeldInv
  <2> QED
    BY <1>2, <2>1, <2>2, ClientAssumption DEF HeldInv, CarriedInv
<1> QED
  BY <1>1, <1>2

\* So the server keeps the connections of the pool served or failed.
LEMMA ServerServed ==
    ASSUME RouterInv, HeldInv, CarriedInv, ServedInv, NEW c \in Conns, ReadStep(c) \/ WriteStep(c),
           UNCHANGED pool
    PROVE  ServedInv'
<1>1. Flow(c) /\ Elsewhere(c)
  BY Flows, Reads, Writes
<1>2. Serving' => Serving
  BY <1>1 DEF Elsewhere, Serving, ReadStep, WriteStep
<1> SUFFICES ASSUME Serving, NEW d \in Pooled, entry[d] \in Calls \cup {"idle"}
             PROVE  (Healthy(d) \/ Failed(d))'
  BY <1>2 DEF ServedInv, pool
<1>3. Healthy(d) \/ Failed(d)
  BY DEF ServedInv
<1>4. CASE d # c
  BY <1>1, <1>3, <1>4 DEF Pooled, Elsewhere, Healthy, Failed, NoServer, NoUp
<1>5. CASE d = c
  BY <1>1, <1>3, <1>5, UsedCarries, FailedFlows, HealthyReads, HealthyWrites
<1> QED
  BY <1>4, <1>5


\* Who holds a connection is not the server's matter.
LEMMA ServerHeld == HeldInv /\ UNCHANGED <<pool, calls>> /\ client' = client => HeldInv'
BY DEF HeldInv, pool, calls

\* A request that moves on stays in its place.
LEMMA OrderFlows ==
    ASSUME RouterInv, NEW c \in Conns, Flow(c), InOrder(c), client[c] # "closed",
           sent[c] \in Nat, sent'[c] = sent[c], \A i \in 1 .. Len(down[c]) : down[c][i].req = i
    PROVE  InOrder(c)' /\ \A i \in 1 .. Len(down'[c]) : down'[c][i].req = i
<1>1. /\ up[c] \in Seq(Requests) /\ down[c] \in Seq(Response) /\ queue[c] \in Seq(Requests)
      /\ decoded[c] \in Requests \cup {None} /\ req[c] \in Requests \cup {None}
  BY DEF RouterInv, RTypeOK
<1>2. /\ Len(down[c]) \in Nat /\ Len(queue[c]) \in Nat /\ Len(up[c]) \in Nat
  BY <1>1, Parts
<1>3. BeforeQueue(c) \in Nat /\ BeforeHand(c) \in Nat /\ BeforeUp(c) \in Nat
  <2>1. BeforeQueue(c) = Len(down[c]) + 0 \/ BeforeQueue(c) = Len(down[c]) + 1
    <3>1. CASE req[c] = None
      BY <3>1 DEF BeforeQueue
    <3>2. CASE req[c] # None
      BY <3>2 DEF BeforeQueue
    <3> QED
      BY <3>1, <3>2
  <2>2. BeforeHand(c) \in Nat
    BY <1>2, <2>1, SMTT(30) DEF BeforeHand
  <2>3. BeforeQueue(c) \in Nat
    BY <1>2, <2>1
  <2> QED
    BY <2>2, <2>3 DEF BeforeUp
<1>4. CASE up'[c] = up[c] /\ decoded'[c] = decoded[c] /\ queue'[c] = queue[c] /\ req'[c] = req[c] /\ down'[c] = down[c]
  BY <1>4 DEF InOrder, BeforeQueue, BeforeHand, BeforeUp
<1>5. CASE /\ up[c] # <<>> /\ decoded[c] = None
           /\ up'[c] = Tail(up[c]) /\ decoded'[c] = Head(up[c])
           /\ queue'[c] = queue[c] /\ req'[c] = req[c] /\ down'[c] = down[c]
  <2>1. /\ Head(up[c]) \in Requests /\ Head(up[c]) = up[c][1] /\ Len(up[c]) >= 1
        /\ Len(up'[c]) = Len(up[c]) - 1 /\ \A i \in 1 .. Len(up[c]) - 1 : up'[c][i] = up[c][i + 1]
    BY <1>1, <1>5, Parts
  <2>2. BeforeUp(c) = BeforeHand(c) /\ decoded'[c] # None
    BY <1>2, <1>5, <2>1, RouterAssumption DEF BeforeUp, BeforeHand, BeforeQueue
  <2>3. BeforeQueue(c)' = BeforeQueue(c) /\ BeforeHand(c)' = BeforeHand(c)
    BY <1>5 DEF BeforeQueue, BeforeHand
  <2>4. BeforeUp(c)' = BeforeUp(c) + 1
    BY <2>2, <2>3 DEF BeforeUp
  <2>5. decoded'[c] = BeforeHand(c) + 1
    BY <1>2, <1>5, <2>1, <2>2 DEF InOrder
  <2>6. ASSUME NEW i \in 1 .. Len(up'[c]) PROVE up'[c][i] = BeforeUp(c) + 1 + i
    <3>1. i \in 1 .. Len(up[c]) - 1 /\ i + 1 \in 1 .. Len(up[c])
      BY <1>2, <2>1
    <3>2. up'[c][i] = up[c][i + 1]
      BY <2>1, <3>1
    <3>3. up[c][i + 1] = BeforeUp(c) + (i + 1)
      BY <3>1 DEF InOrder
    <3> QED
      BY <1>3, <3>1, <3>2, <3>3
  <2>7. BeforeUp(c) + 1 + Len(up'[c]) = sent[c]
    BY <1>2, <1>3, <2>1, SMTT(30) DEF InOrder
  <2> QED
    BY <1>5, <2>2, <2>3, <2>4, <2>5, <2>6, <2>7 DEF InOrder
<1>6. CASE /\ decoded[c] # None
           /\ decoded'[c] = None /\ queue'[c] = Append(queue[c], decoded[c])
           /\ up'[c] = up[c] /\ req'[c] = req[c] /\ down'[c] = down[c]
  <2>1. decoded[c] \in Requests
    BY <1>1, <1>6
  <2>2. /\ Len(queue'[c]) = Len(queue[c]) + 1 /\ queue'[c][Len(queue[c]) + 1] = decoded[c]
        /\ \A i \in 1 .. Len(queue[c]) : queue'[c][i] = queue[c][i]
    BY <1>1, <1>6, <2>1, Parts
  <2>3. BeforeQueue(c)' = BeforeQueue(c)
    BY <1>6 DEF BeforeQueue
  <2>4. BeforeHand(c)' = BeforeHand(c) + 1
    BY <1>2, <1>3, <2>2, <2>3 DEF BeforeHand
  <2>5. BeforeUp(c)' = BeforeUp(c)
    BY <1>3, <1>6, <2>4 DEF BeforeUp
  <2>6. ASSUME NEW i \in 1 .. Len(queue'[c]) PROVE queue'[c][i] = BeforeQueue(c) + i
    <3>1. decoded[c] = BeforeQueue(c) + Len(queue[c]) + 1
      BY <1>6 DEF InOrder, BeforeHand
    <3>2. i \in 1 .. Len(queue[c]) \/ i = Len(queue[c]) + 1
      BY <1>2, <2>2
    <3>3. CASE i \in 1 .. Len(queue[c])
      BY <2>2, <3>3 DEF InOrder
    <3>4. CASE i = Len(queue[c]) + 1
      BY <1>2, <1>3, <2>2, <3>1, <3>4
    <3> QED
      BY <3>2, <3>3, <3>4
  <2> QED
    BY <1>6, <2>3, <2>4, <2>5, <2>6 DEF InOrder
<1>7. CASE /\ queue[c] # <<>> /\ req[c] = None
           /\ queue'[c] = Tail(queue[c]) /\ req'[c] = Head(queue[c])
           /\ up'[c] = up[c] /\ decoded'[c] = decoded[c] /\ down'[c] = down[c]
  <2>1. /\ Head(queue[c]) \in Requests /\ Head(queue[c]) = queue[c][1] /\ Len(queue[c]) >= 1
        /\ Len(queue'[c]) = Len(queue[c]) - 1
        /\ \A i \in 1 .. Len(queue[c]) - 1 : queue'[c][i] = queue[c][i + 1]
    BY <1>1, <1>7, Parts
  <2>2. BeforeQueue(c) = Len(down[c]) /\ req'[c] # None
    BY <1>2, <1>7, <2>1, RouterAssumption DEF BeforeQueue
  <2>3. BeforeQueue(c)' = BeforeQueue(c) + 1
    BY <1>7, <2>2 DEF BeforeQueue
  <2>4. BeforeHand(c)' = BeforeHand(c)
    BY <1>2, <1>3, <2>1, <2>3, SMTT(30) DEF BeforeHand
  <2>5. BeforeUp(c)' = BeforeUp(c)
    BY <1>7, <2>4 DEF BeforeUp
  <2>6. req'[c] = Len(down[c]) + 1
    BY <1>2, <1>7, <2>1, <2>2 DEF InOrder
  <2>7. ASSUME NEW i \in 1 .. Len(queue'[c]) PROVE queue'[c][i] = BeforeQueue(c) + 1 + i
    <3>1. i \in 1 .. Len(queue[c]) - 1 /\ i + 1 \in 1 .. Len(queue[c])
      BY <1>2, <2>1
    <3>2. queue'[c][i] = queue[c][i + 1]
      BY <2>1, <3>1
    <3>3. queue[c][i + 1] = BeforeQueue(c) + (i + 1)
      BY <3>1 DEF InOrder
    <3> QED
      BY <1>3, <3>1, <3>2, <3>3
  <2> QED
    BY <1>7, <2>3, <2>4, <2>5, <2>6, <2>7 DEF InOrder
<1>8. ASSUME NEW code \in Codes, req[c] # None, req'[c] = None,
             down'[c] = Append(down[c], [req |-> req[c], code |-> code]),
             up'[c] = up[c], decoded'[c] = decoded[c], queue'[c] = queue[c]
      PROVE  InOrder(c)' /\ \A i \in 1 .. Len(down'[c]) : down'[c][i].req = i
  <2> DEFINE rsp == [req |-> req[c], code |-> code]
  <2>1. rsp \in Response /\ rsp.req = req[c]
    BY <1>1, <1>8 DEF Response
  <2> HIDE DEF rsp
  <2>2. /\ Len(down'[c]) = Len(down[c]) + 1 /\ down'[c][Len(down[c]) + 1] = rsp
        /\ \A i \in 1 .. Len(down[c]) : down'[c][i] = down[c][i]
    BY <1>1, <1>8, <2>1, Parts DEF rsp
  <2>3. rsp.req = Len(down[c]) + 1
    BY <1>8, <2>1 DEF InOrder
  <2>4. BeforeQueue(c)' = BeforeQueue(c)
    BY <1>2, <1>8, <2>2 DEF BeforeQueue
  <2>5. BeforeHand(c)' = BeforeHand(c) /\ BeforeUp(c)' = BeforeUp(c)
    BY <1>8, <2>4 DEF BeforeHand, BeforeUp
  <2>6. ASSUME NEW i \in 1 .. Len(down'[c]) PROVE down'[c][i].req = i
    <3>1. i \in 1 .. Len(down[c]) \/ i = Len(down[c]) + 1
      BY <1>2, <2>2
    <3> QED
      BY <2>2, <2>3, <3>1
  <2>7. InOrder(c)'
    BY <1>8, <2>4, <2>5 DEF InOrder
  <2> QED
    BY <2>6, <2>7
<1> QED
  BY <1>4, <1>5, <1>6, <1>7, <1>8 DEF Flow

\* The server keeps the requests of the other clients in order.
LEMMA ServerPiped ==
    ASSUME RouterInv, PipedInv, Piped \subseteq Conns, NEW c \in Conns,
           Flow(c), Elsewhere(c), UNCHANGED sent
    PROVE  PipedInv'
<1>1. sent' \in [Piped -> 0 .. Burst] /\ \A d \in Piped : sent[d] \in Nat /\ sent'[d] = sent[d]
  BY ClientAssumption DEF PipedInv
<1>2. ASSUME NEW d \in Piped, d # c
      PROVE  /\ \A i \in 1 .. Len(down'[d]) : down'[d][i].req = i
             /\ client'[d] \in {"none", "open"} => InOrder(d)'
  <2>1. InOrder(d)' <=> InOrder(d)
    <3>1. /\ up'[d] = up[d] /\ down'[d] = down[d] /\ decoded'[d] = decoded[d] /\ queue'[d] = queue[d]
          /\ req'[d] = req[d] /\ sent'[d] = sent[d]
      BY <1>1, <1>2, ClientAssumption DEF Elsewhere
    <3>2. BeforeQueue(d)' = BeforeQueue(d) /\ BeforeHand(d)' = BeforeHand(d) /\ BeforeUp(d)' = BeforeUp(d)
      BY <3>1 DEF BeforeQueue, BeforeHand, BeforeUp
    <3> QED
      BY <3>1, <3>2 DEF InOrder
  <2>2. down'[d] = down[d] /\ client'[d] = client[d]
    BY <1>2 DEF Elsewhere
  <2> QED
    BY <2>1, <2>2 DEF PipedInv
<1>3. ASSUME c \in Piped
      PROVE  /\ \A i \in 1 .. Len(down'[c]) : down'[c][i].req = i
             /\ client'[c] \in {"none", "open"} => InOrder(c)'
  <2>1. CASE client[c] \in {"none", "open"}
    BY <1>1, <1>3, <2>1, OrderFlows DEF PipedInv
  <2>2. CASE client[c] = "closed"
    BY <1>3, <2>2 DEF Flow, Elsewhere, PipedInv
  <2> QED
    BY <2>1, <2>2 DEF RouterInv, RTypeOK
<1> QED
  BY <1>1, <1>2, <1>3 DEF PipedInv

\* A step of the server.
LEMMA ServerSteps ==
    ASSUME XpInv, NEW c \in Conns, ServerStep(c)
    PROVE  XpInv'
<1>1. (ReadStep(c) \/ WriteStep(c)) /\ UNCHANGED pool /\ UNCHANGED calls /\ UNCHANGED sent
  BY DEF ServerStep
<1>2. RouterInv /\ HeldInv /\ CarriedInv /\ ServedInv /\ PipedInv /\ ResponseMatches
  BY DEF XpInv
<1>3. RouterInv' /\ Elsewhere(c) /\ Flow(c)
  BY <1>1, <1>2, Reads, Writes, Flows
<1>4. CarriedInv' /\ ServedInv'
  BY <1>1, <1>2, ServerCarries, ServerServed
<1>5. HeldInv' /\ PipedInv'
  BY <1>1, <1>2, <1>3, ServerHeld, ServerPiped, ClientAssumption DEF Elsewhere
<1>6. ResponseMatches'
  BY <1>1, <1>2 DEF calls, ResponseMatches
<1> QED
  BY <1>3, <1>4, <1>5, <1>6 DEF XpInv

-----------------------------------------------------------------------------
(* The steps of the clients.                                                *)

\* Get passes the connection c to the call r.
Passed(r, c) ==
    /\ call[r] = "new" /\ entry[c] \in {"undialed", "idle"}
    /\ entry' = [entry EXCEPT ![c] = r]
    /\ call' = [call EXCEPT ![r] = "encode"] /\ conn' = [conn EXCEPT ![r] = c]
    /\ client' = [client EXCEPT ![c] = "open"]
    /\ UNCHANGED <<up, down, decoded, queue, req, result, sent>>

\* A connection passed on is empty.
LEMMA Passes ==
    ASSUME XpInv, NEW r \in Calls, NEW c \in Pooled, Passed(r, c)
    PROVE  HeldInv' /\ CarriedInv' /\ PipedInv' /\ ResponseMatches'
<1> USE DEF XpInv
<1>1. /\ call'[r] = "encode" /\ conn'[r] = c /\ entry'[c] = r /\ client'[c] = "open" /\ call[r] = "new"
      /\ entry[c] \notin Calls /\ r \notin {"undialed", "idle", "released"}
      /\ c \in Conns /\ c \notin Piped
  BY EntryAssumption DEF Passed, HeldInv, RouterInv, RTypeOK, Pooled
<1>2. /\ \A q \in Calls : q # r => call'[q] = call[q] /\ conn'[q] = conn[q]
      /\ \A d \in Pooled : d # c => entry'[d] = entry[d]
      /\ \A d \in Conns : d # c => client'[d] = client[d]
  BY DEF Passed, HeldInv, RouterInv, RTypeOK
<1>3. /\ entry' \in [Pooled -> Calls \cup {"undialed", "idle", "released"}]
      /\ call' \in [Calls -> {"new", "encode", "decode", "returned"}]
      /\ conn' \in [Calls -> Pooled \cup {None}]
  BY DEF Passed, HeldInv
<1>4. \A d \in Pooled : entry'[d] \in Calls =>
                        call'[entry'[d]] \in {"encode", "decode"} /\ conn'[entry'[d]] = d
  BY <1>1, <1>2 DEF HeldInv
<1>5. \A q \in Calls : call'[q] \in {"encode", "decode"} => conn'[q] \in Pooled /\ entry'[conn'[q]] = q
  BY <1>1, <1>2 DEF HeldInv
<1>6. \A d \in Pooled : /\ entry'[d] = "undialed" => client'[d] = "none"
                        /\ entry'[d] \in Calls \cup {"idle"} => client'[d] = "open"
  BY <1>1, <1>2 DEF HeldInv, Pooled
<1>7. HeldInv'
  BY <1>3, <1>4, <1>5, <1>6 DEF HeldInv
<1>8. \A d : (Empty(d)' <=> Empty(d)) /\ \A q : Carries(d, q)' <=> Carries(d, q)
  BY DEF Passed, Empty, Carries, NoDown, NoServer, NoUp
<1>9. ASSUME NEW d \in Pooled, entry'[d] \in {"undialed", "idle"} PROVE Empty(d)'
  BY <1>1, <1>2, <1>8, <1>9 DEF CarriedInv
<1>10. ASSUME NEW q \in Calls, call'[q] = "encode" PROVE Empty(conn[q])'
  <2>1. CASE q = r
    <3>1. Empty(c) /\ Empty(c)'
      BY <1>8 DEF CarriedInv, Passed
    <3> QED
      BY <1>1, <2>1, <3>1 DEF Empty, NoDown, NoServer, NoUp
  <2>2. CASE q # r
    <3>1. Empty(conn[q]) /\ conn'[q] = conn[q]
      BY <1>2, <1>10, <2>2 DEF CarriedInv
    <3> QED
      BY <3>1 DEF Passed, Empty, NoDown, NoServer, NoUp
  <2> QED
    BY <2>1, <2>2
<1>11. ASSUME NEW q \in Calls, call'[q] = "decode" PROVE Carries(conn[q], q)'
  <2>1. q # r /\ Carries(conn[q], q) /\ conn'[q] = conn[q]
    BY <1>1, <1>2, <1>11 DEF CarriedInv
  <2> QED
    BY <2>1 DEF Passed, Carries, NoDown, NoServer, NoUp
<1>12. CarriedInv'
  BY <1>9, <1>10, <1>11 DEF CarriedInv
<1>13. ASSUME NEW d \in Piped PROVE client'[d] = client[d] /\ (InOrder(d)' <=> InOrder(d)) /\ down' = down
  BY <1>1, <1>2, ClientAssumption DEF Passed, InOrder, BeforeQueue, BeforeHand, BeforeUp
<1>14. PipedInv'
  BY <1>13 DEF PipedInv, Passed
<1>15. ResponseMatches'
  BY DEF ResponseMatches, Passed
<1> QED
  BY <1>7, <1>12, <1>14, <1>15

\* An idle connection is one the router serves.
LEMMA GetsIdle ==
    ASSUME XpInv, NEW r \in Calls, NEW c \in Pooled, GetIdle(r, c)
    PROVE  XpInv'
<1> USE DEF XpInv
<1>1. entry[c] = "idle" /\ client[c] = "open" /\ entry' = [entry EXCEPT ![c] = r] /\ UNCHANGED rvars
  BY DEF GetIdle, L!Lend, HeldInv
<1>2. UNCHANGED <<client, up, down, reader, decoded, queue, readDone, writer, req, exit, crashed>>
  BY <1>1 DEF rvars, net
<1>3. Passed(r, c)
  BY <1>1, <1>2 DEF GetIdle, Got, Passed, RouterInv, RTypeOK
<1>4. RouterInv'
  BY <1>2 DEF RouterInv, RTypeOK
<1>5. ASSUME Serving', NEW d \in Pooled, entry'[d] \in Calls \cup {"idle"} PROVE (Healthy(d) \/ Failed(d))'
  <2>1. Serving /\ entry[d] \in Calls \cup {"idle"}
    BY <1>1, <1>2, <1>5 DEF Serving, HeldInv
  <2>2. Healthy(d) \/ Failed(d)
    BY <2>1 DEF ServedInv
  <2> QED
    BY <1>2, <2>2 DEF Healthy, Failed, NoServer, NoUp
<1> QED
  BY <1>3, <1>4, <1>5, Passes DEF ServedInv

\* A new connection is served at once.
LEMMA GetsNew ==
    ASSUME XpInv, NEW r \in Calls, NEW c \in Pooled, GetDial(r, c)
    PROVE  XpInv'
<1> USE DEF XpInv
<1>1. entry[c] = "undialed" /\ entry' = [entry EXCEPT ![c] = r] /\ Handle(c) /\ c \in Conns
  BY DEF GetDial, L!Dial, Pooled
<1>2. Passed(r, c)
  BY <1>1 DEF GetDial, Got, Passed, Handle
<1>3. RouterInv'
  BY <1>1, Handles
<1>4. ASSUME Serving', NEW d \in Pooled, entry'[d] \in Calls \cup {"idle"} PROVE (Healthy(d) \/ Failed(d))'
  <2>1. /\ Serving /\ UNCHANGED <<up, down, decoded, queue, readDone, req>>
        /\ client[c] = "none" /\ reader'[c] = "decode" /\ writer'[c] = "select"
        /\ \A e \in Conns : e # c => reader'[e] = reader[e] /\ writer'[e] = writer[e]
    BY <1>1 DEF Handle, ReaderTo, WriterTo, RouterInv, RTypeOK
  <2>2. CASE d = c
    <3>1. ~readDone[c] /\ down[c] = <<>>
      BY <1>1, <2>1 DEF RouterInv, CarriedInv, Empty, NoDown
    <3>2. Len(down'[c]) = 0
      BY <2>1, <3>1
    <3> QED
      BY <2>1, <2>2, <3>1, <3>2 DEF Healthy
  <2>3. CASE d # c
    <3>1. Healthy(d) \/ Failed(d)
      BY <1>1, <1>4, <2>1, <2>3 DEF ServedInv, HeldInv
    <3> QED
      BY <2>1, <2>3, <3>1 DEF Healthy, Failed, NoServer, NoUp, Pooled
  <2> QED
    BY <2>2, <2>3
<1> QED
  BY <1>2, <1>3, <1>4, Passes DEF ServedInv

\* An error of Get.
LEMMA GetsNone ==
    ASSUME XpInv, NEW r \in Calls, GetFails(r)
    PROVE  XpInv'
<1> USE DEF XpInv
<1>1. /\ call[r] = "new" /\ call' = [call EXCEPT ![r] = "returned"] /\ result' = [result EXCEPT ![r] = None]
      /\ UNCHANGED <<entry, conn, sent, client, up, down, reader, decoded, queue, readDone, writer, req, exit, crashed>>
  BY DEF GetFails, Returns, rvars, net, pool
<1>2. RouterInv' /\ ServedInv'
  BY <1>1 DEF RouterInv, RTypeOK, ServedInv, Serving, Healthy, Failed, NoServer, NoUp
<1>3. \A q \in Calls : call'[q] = IF q = r THEN "returned" ELSE call[q]
  BY <1>1 DEF HeldInv
<1>4. HeldInv'
  BY <1>1, <1>3 DEF HeldInv
<1>5. CarriedInv'
  <2>1. \A d : (Empty(d)' <=> Empty(d)) /\ \A q : Carries(d, q)' <=> Carries(d, q)
    BY <1>1 DEF Empty, Carries, NoDown, NoServer, NoUp
  <2>2. ASSUME NEW d \in Pooled, entry'[d] \in {"undialed", "idle"} PROVE Empty(d)'
    BY <1>1, <2>1, <2>2 DEF CarriedInv
  <2>3. ASSUME NEW q \in Calls, call'[q] = "encode" PROVE Empty(conn[q])'
    <3>1. Empty(conn[q])
      BY <1>3, <2>3 DEF CarriedInv
    <3> QED
      BY <1>1, <3>1 DEF Empty, NoDown, NoServer, NoUp
  <2>4. ASSUME NEW q \in Calls, call'[q] = "decode" PROVE Carries(conn[q], q)'
    <3>1. Carries(conn[q], q)
      BY <1>3, <2>4 DEF CarriedInv
    <3> QED
      BY <1>1, <3>1 DEF Carries, NoDown, NoServer, NoUp
  <2> QED
    BY <2>2, <2>3, <2>4 DEF CarriedInv
<1>6. PipedInv'
  BY <1>1, ZenonT(30) DEF PipedInv, InOrder, BeforeQueue, BeforeHand, BeforeUp
<1>7. ResponseMatches'
  BY <1>1 DEF ResponseMatches
<1> QED
  BY <1>2, <1>4, <1>5, <1>6, <1>7

\* The request enters an empty connection.
LEMMA Encodes ==
    ASSUME XpInv, NEW r \in Calls, NEW c \in Pooled, conn[r] = c, Encode(r, c)
    PROVE  XpInv'
<1> USE DEF XpInv
<1>1. /\ call[r] = "encode" /\ up' = [up EXCEPT ![c] = Append(@, r)] /\ call' = [call EXCEPT ![r] = "decode"]
      /\ UNCHANGED <<entry, conn, result, sent, client, down, reader, decoded, queue, readDone, writer, req, exit, crashed>>
      /\ SameServer /\ r \in Requests /\ c \in Conns /\ c \notin Piped
  BY ClientAssumption DEF Encode, pool, SameServer, Pooled
<1>2. Empty(c) /\ entry[c] = r
  BY <1>1 DEF CarriedInv, HeldInv
<1>3. up' \in [Conns -> Seq(Requests)] /\ up'[c] = Append(up[c], r)
  BY <1>1, Parts DEF RouterInv, RTypeOK
<1>4. up'[c] = <<r>>
  BY <1>2, <1>3 DEF Empty, NoUp
<1>5. \A d \in Conns : d # c => up'[d] = up[d]
  BY <1>1 DEF RouterInv, RTypeOK
<1>6. RouterInv'
  BY <1>1, <1>3, ClientKeeps DEF RouterInv, RTypeOK
<1>7. \A q \in Calls : call'[q] = IF q = r THEN "decode" ELSE call[q]
  BY <1>1 DEF HeldInv
<1>8. HeldInv'
  BY <1>1, <1>7 DEF HeldInv
<1>9. CarriedInv'
  <2>1. ASSUME NEW d \in Pooled, entry[d] \in {"undialed", "idle"} PROVE Empty(d)'
    <3>1. Empty(d) /\ d # c /\ d \in Conns
      BY <1>2, <2>1, EntryAssumption DEF CarriedInv, Pooled
    <3> QED
      BY <1>1, <1>5, <3>1 DEF Empty, NoDown, NoServer, NoUp
  <2>2. ASSUME NEW q \in Calls, q # r, call[q] \in {"encode", "decode"}
        PROVE  /\ call[q] = "encode" => Empty(conn[q])'
               /\ call[q] = "decode" => Carries(conn[q], q)'
    <3>1. conn[q] # c /\ conn[q] \in Conns
      BY <1>2, <2>2 DEF HeldInv, Pooled
    <3>2. up'[conn[q]] = up[conn[q]]
      BY <1>5, <3>1
    <3>3. CASE call[q] = "encode"
      <4>1. Empty(conn[q])
        BY <3>3 DEF CarriedInv
      <4> QED
        BY <1>1, <3>2, <3>3, <4>1 DEF Empty, NoDown, NoServer, NoUp
    <3>4. CASE call[q] = "decode"
      <4>1. Carries(conn[q], q)
        BY <3>4 DEF CarriedInv
      <4> QED
        BY <1>1, <3>2, <3>4, <4>1 DEF Carries, NoDown, NoServer, NoUp
    <3> QED
      BY <2>2, <3>3, <3>4
  <2>3. Carries(c, r)'
    BY <1>1, <1>2, <1>4 DEF Empty, Carries, NoDown, NoServer
  <2>4. Carries(conn[r], r)'
    BY <1>1, <2>3 DEF Carries, NoDown, NoServer, NoUp
  <2>5. entry' = entry /\ conn' = conn /\ \A q \in Calls : call'[q] = IF q = r THEN "decode" ELSE call[q]
    BY <1>1, <1>7
  <2> QED
    BY <2>1, <2>2, <2>4, <2>5 DEF CarriedInv
<1>10. ServedInv'
  <2>1. ASSUME Serving, NEW d \in Pooled, entry[d] \in Calls \cup {"idle"} PROVE (Healthy(d) \/ Failed(d))'
    <3>1. Healthy(d) \/ Failed(d)
      BY <2>1 DEF ServedInv
    <3>2. CASE Healthy(d)
      BY <1>1, <3>2 DEF Healthy
    <3>3. CASE Failed(d)
      <4>1. d # c /\ d \in Conns
        BY <1>2, <3>3 DEF Failed, Empty, NoDown, Pooled
      <4> QED
        BY <1>1, <1>5, <3>3, <4>1 DEF Failed, NoServer, NoUp
    <3> QED
      BY <3>1, <3>2, <3>3
  <2> QED
    BY <1>1, <2>1 DEF ServedInv, Serving
<1>11. PipedInv'
  <2>1. ASSUME NEW d \in Piped PROVE InOrder(d)' <=> InOrder(d)
    <3>1. up'[d] = up[d]
      BY <1>1, <1>5, ClientAssumption
    <3>2. BeforeQueue(d)' = BeforeQueue(d) /\ BeforeHand(d)' = BeforeHand(d) /\ BeforeUp(d)' = BeforeUp(d)
      BY <1>1 DEF BeforeQueue, BeforeHand, BeforeUp
    <3> QED
      BY <1>1, <3>1, <3>2 DEF InOrder
  <2> QED
    BY <1>1, <2>1 DEF PipedInv
<1>12. ResponseMatches'
  BY <1>1 DEF ResponseMatches
<1> QED
  BY <1>6, <1>8, <1>9, <1>10, <1>11, <1>12

\* RoundTrip returns and its connection is released or goes back to the pool.
GivenUp(r, c, mark, res) ==
    /\ call[r] \in {"encode", "decode"} /\ call' = [call EXCEPT ![r] = "returned"]
    /\ result' = [result EXCEPT ![r] = res] /\ res \in {None, r}
    /\ entry' = [entry EXCEPT ![c] = mark]
    /\ \/ mark = "released" /\ client' = [client EXCEPT ![c] = "closed"]
       \/ mark = "idle" /\ client' = client
    /\ down' \in [Conns -> Seq(Response)]
    /\ \A d \in Conns : d # c => down'[d] = down[d]
    /\ SameServer
    /\ UNCHANGED <<conn, up, sent>>

\* A call that ends changes no other call's connection.
LEMMA GivesUp ==
    ASSUME XpInv, NEW r \in Calls, NEW c \in Pooled, NEW mark, NEW res, conn[r] = c, GivenUp(r, c, mark, res),
           mark = "idle" => Empty(c)' /\ (Serving => Healthy(c)')
    PROVE  XpInv'
<1> USE DEF XpInv
<1>1. /\ entry[c] = r /\ client[c] = "open" /\ c \in Conns /\ c \notin Piped
      /\ mark \in {"released", "idle"} /\ mark \notin Calls
  BY EntryAssumption DEF GivenUp, HeldInv, Pooled
<1>2. /\ UNCHANGED <<conn, up, sent, reader, decoded, queue, readDone, writer, req, exit, crashed>>
      /\ SameServer
  BY DEF GivenUp, SameServer
<1>3. /\ \A q \in Calls : call'[q] = IF q = r THEN "returned" ELSE call[q]
      /\ \A d \in Pooled : entry'[d] = IF d = c THEN mark ELSE entry[d]
      /\ \A d \in Conns : d # c => client'[d] = client[d] /\ down'[d] = down[d]
      /\ client'[c] = IF mark = "released" THEN "closed" ELSE "open"
  BY <1>1 DEF GivenUp, HeldInv, RouterInv, RTypeOK
<1>4. /\ client' \in [Conns -> {"none", "open", "closed"}] /\ down' \in [Conns -> Seq(Response)]
      /\ \A d \in Conns : client'[d] = "none" => client[d] = "none"
  <2>1. client' \in [Conns -> {"none", "open", "closed"}] /\ down' \in [Conns -> Seq(Response)]
    BY DEF GivenUp, RouterInv, RTypeOK
  <2>2. \A d \in Conns : client'[d] = "none" => client[d] = "none"
    BY <1>3
  <2> QED
    BY <2>1, <2>2
<1>5. RouterInv'
  BY <1>2, <1>4, ClientKeeps DEF RouterInv, RTypeOK
<1>6. /\ entry' \in [Pooled -> Calls \cup {"undialed", "idle", "released"}]
      /\ call' \in [Calls -> {"new", "encode", "decode", "returned"}]
  BY <1>1 DEF GivenUp, HeldInv
<1>7. HeldInv'
  <2>1. \A d \in Pooled : entry'[d] \in Calls =>
                          call'[entry'[d]] \in {"encode", "decode"} /\ conn'[entry'[d]] = d
    BY <1>1, <1>2, <1>3 DEF HeldInv
  <2>2. \A q \in Calls : call'[q] \in {"encode", "decode"} => conn'[q] \in Pooled /\ entry'[conn'[q]] = q
    BY <1>1, <1>2, <1>3 DEF HeldInv
  <2>3. \A d \in Pooled : /\ entry'[d] = "undialed" => client'[d] = "none"
                          /\ entry'[d] \in Calls \cup {"idle"} => client'[d] = "open"
    BY <1>1, <1>3 DEF HeldInv, Pooled
  <2>4. conn' \in [Calls -> Pooled \cup {None}]
    BY <1>2 DEF HeldInv
  <2> QED
    BY <1>6, <2>1, <2>2, <2>3, <2>4 DEF HeldInv
<1>8. ASSUME NEW d \in Conns, d # c
      PROVE  (Empty(d)' <=> Empty(d)) /\ \A q : Carries(d, q)' <=> Carries(d, q)
  BY <1>2, <1>3, <1>8 DEF Empty, Carries, NoDown, NoServer, NoUp
<1>9. CarriedInv'
  <2>1. ASSUME NEW d \in Pooled, entry'[d] \in {"undialed", "idle"} PROVE Empty(d)'
    <3>1. CASE d = c
      BY <1>1, <1>3, <2>1, <3>1
    <3>2. CASE d # c
      <4>1. Empty(d) /\ d \in Conns
        BY <1>3, <2>1, <3>2 DEF CarriedInv, Pooled
      <4> QED
        BY <1>8, <3>2, <4>1
    <3> QED
      BY <3>1, <3>2
  <2>2. ASSUME NEW q \in Calls, call'[q] \in {"encode", "decode"}
        PROVE  q # r /\ call'[q] = call[q] /\ conn[q] \in Conns /\ conn[q] # c /\ down'[conn[q]] = down[conn[q]]
    <3>1. q # r /\ call'[q] = call[q]
      BY <1>3, <2>2
    <3>2. conn[q] \in Pooled /\ entry[conn[q]] = q
      BY <2>2, <3>1 DEF HeldInv
    <3>3. conn[q] \in Conns /\ conn[q] # c
      BY <1>1, <3>1, <3>2 DEF Pooled
    <3> QED
      BY <1>3, <3>1, <3>3
  <2>3. ASSUME NEW q \in Calls, call'[q] = "encode" PROVE Empty(conn[q])'
    <3>1. Empty(conn[q])
      BY <2>2, <2>3 DEF CarriedInv
    <3> QED
      BY <1>2, <2>2, <2>3, <3>1 DEF Empty, NoDown, NoServer, NoUp
  <2>4. ASSUME NEW q \in Calls, call'[q] = "decode" PROVE Carries(conn[q], q)'
    <3>1. Carries(conn[q], q)
      BY <2>2, <2>4 DEF CarriedInv
    <3> QED
      BY <1>2, <2>2, <2>4, <3>1 DEF Carries, NoDown, NoServer, NoUp
  <2>5. conn' = conn
    BY <1>2
  <2> QED
    BY <2>1, <2>3, <2>4, <2>5 DEF CarriedInv
<1>10. ServedInv'
  <2>1. ASSUME Serving, NEW d \in Pooled, entry'[d] \in Calls \cup {"idle"} PROVE (Healthy(d) \/ Failed(d))'
    <3>1. CASE d = c
      BY <1>1, <1>3, <2>1, <3>1
    <3>2. CASE d # c
      <4>1. (Healthy(d) \/ Failed(d)) /\ d \in Conns
        BY <1>3, <2>1, <3>2 DEF ServedInv, Pooled
      <4> QED
        BY <1>2, <1>3, <3>2, <4>1 DEF Healthy, Failed, NoServer, NoUp
    <3> QED
      BY <3>1, <3>2
  <2> QED
    BY <1>2, <2>1 DEF ServedInv, Serving
<1>11. PipedInv'
  <2>1. ASSUME NEW d \in Piped
        PROVE  client'[d] = client[d] /\ down'[d] = down[d] /\ (InOrder(d)' <=> InOrder(d))
    <3>1. down'[d] = down[d] /\ client'[d] = client[d]
      BY <1>1, <1>3, ClientAssumption
    <3>2. BeforeQueue(d)' = BeforeQueue(d) /\ BeforeHand(d)' = BeforeHand(d) /\ BeforeUp(d)' = BeforeUp(d)
      BY <1>2, <3>1 DEF BeforeQueue, BeforeHand, BeforeUp
    <3> QED
      BY <1>2, <3>1, <3>2 DEF InOrder
  <2> QED
    BY <1>2, <2>1 DEF PipedInv
<1>12. ResponseMatches'
  BY DEF ResponseMatches, GivenUp
<1> QED
  BY <1>5, <1>7, <1>9, <1>10, <1>11, <1>12

\* RoundTrip fails: its connection is closed.
LEMMA Fails ==
    ASSUME XpInv, NEW r \in Calls, NEW c \in Pooled, conn[r] = c, EncodeFails(r, c) \/ DecodeError(r, c)
    PROVE  XpInv'
<1>1. GivenUp(r, c, "released", None)
  BY DEF EncodeFails, DecodeError, Release, Returns, CloseConn, L!Discard, GivenUp, XpInv, RouterInv, RTypeOK
<1> QED
  BY <1>1, GivesUp

\* The response that the call reads is its own and the only one.
LEMMA ReadsOwn ==
    ASSUME XpInv, NEW r \in Calls, NEW c \in Pooled, conn[r] = c, call[r] = "decode", down[c] # <<>>, Read(c)
    PROVE  /\ Head(down[c]).req = r /\ NoServer(c) /\ NoUp(c) /\ down'[c] = <<>>
           /\ down' \in [Conns -> Seq(Response)] /\ \A d \in Conns : d # c => down'[d] = down[d]
           /\ \E code \in Codes : down[c] = <<[req |-> r, code |-> code]>>
<1> USE DEF XpInv
<1>1. Carries(c, r)
  BY DEF CarriedInv
<1>2. NoServer(c) /\ NoUp(c) /\ \E code \in Codes : down[c] = <<[req |-> r, code |-> code]>>
  BY <1>1 DEF Carries, NoDown
<1>3. PICK code \in Codes : down[c] = <<[req |-> r, code |-> code]>>
  BY <1>2
<1>4. Head(down[c]) = [req |-> r, code |-> code] /\ Tail(down[c]) = <<>>
  BY <1>3
<1>5. /\ down'[c] = Tail(down[c]) /\ Tail(down[c]) \in Seq(Response)
      /\ down' = [down EXCEPT ![c] = Tail(@)] /\ down \in [Conns -> Seq(Response)]
  BY Parts DEF Read, RouterInv, RTypeOK, Pooled
<1>6. down' \in [Conns -> Seq(Response)] /\ \A d \in Conns : d # c => down'[d] = down[d]
  BY <1>5
<1> QED
  BY <1>2, <1>4, <1>5, <1>6

\* A SERVER_ERROR: the connection is closed.
LEMMA ReadsError ==
    ASSUME XpInv, NEW r \in Calls, NEW c \in Pooled, conn[r] = c, ServerError(r, c)
    PROVE  XpInv'
<1>1. call[r] = "decode" /\ down[c] # <<>> /\ Read(c)
  BY DEF ServerError, Release, Returns
<1>2. /\ Head(down[c]).req = r /\ down' \in [Conns -> Seq(Response)]
      /\ \A d \in Conns : d # c => down'[d] = down[d]
  BY <1>1, ReadsOwn
<1>3. GivenUp(r, c, "released", r)
  BY <1>1, <1>2 DEF ServerError, Release, Returns, CloseConn, L!Discard, GivenUp
<1> QED
  BY <1>3, GivesUp

\* Any other response: the connection is empty and still served.
LEMMA ReadsAnswer ==
    ASSUME XpInv, NEW r \in Calls, NEW c \in Pooled, conn[r] = c, Answer(r, c)
    PROVE  XpInv'
<1>1. call[r] = "decode" /\ down[c] # <<>> /\ Read(c) /\ Head(down[c]).code # "SERVER_ERROR"
  BY DEF Answer, Returns
<1>2. /\ Head(down[c]).req = r /\ down' \in [Conns -> Seq(Response)]
      /\ \A d \in Conns : d # c => down'[d] = down[d]
      /\ NoServer(c) /\ NoUp(c) /\ down'[c] = <<>>
  BY <1>1, ReadsOwn
<1>3. CASE L!GiveBack(c) /\ UNCHANGED client
  <2>1. GivenUp(r, c, "idle", r)
    BY <1>1, <1>2, <1>3 DEF Answer, Returns, L!GiveBack, GivenUp
  <2>2. Empty(c)'
    BY <1>2 DEF Answer, SameServer, Empty, NoDown, NoServer, NoUp
  <2>3. ASSUME Serving PROVE Healthy(c)'
    <3>1. Healthy(c)
      BY <1>1, <1>3, <2>3 DEF XpInv, ServedInv, Failed, L!GiveBack
    <3>2. Len(down'[c]) = 0
      BY <1>2
    <3> QED
      BY <3>1, <3>2 DEF Healthy, Answer, SameServer
  <2> QED
    BY <2>1, <2>2, <2>3, GivesUp
<1>4. CASE L!Discard(c) /\ CloseConn(c)
  <2>1. GivenUp(r, c, "released", r)
    BY <1>1, <1>2, <1>4 DEF Answer, Returns, L!Discard, CloseConn, GivenUp
  <2> QED
    BY <2>1, GivesUp
<1> QED
  BY <1>3, <1>4 DEF Answer


-----------------------------------------------------------------------------
(* The other clients, the end of the server, and the theorems.              *)

\* Nothing changes on the connections of the set S.
Still(S) ==
    \A d \in S : /\ client'[d] = client[d] /\ up'[d] = up[d] /\ down'[d] = down[d] /\ reader'[d] = reader[d]
                 /\ decoded'[d] = decoded[d] /\ queue'[d] = queue[d]
                 /\ readDone'[d] = readDone[d] /\ writer'[d] = writer[d] /\ req'[d] = req[d]

\* Then the pool and its calls are as before.
LEMMA PoolKeeps ==
    ASSUME XpInv, Still(Pooled), UNCHANGED <<pool, calls>>, Serving' => Serving
    PROVE  HeldInv' /\ CarriedInv' /\ ServedInv' /\ ResponseMatches'
<1> USE DEF XpInv
<1>1. entry' = entry /\ call' = call /\ conn' = conn /\ result' = result
  BY DEF pool, calls
<1>2. HeldInv'
  BY <1>1 DEF HeldInv, Still
<1>3. ASSUME NEW d \in Pooled
      PROVE  /\ Empty(d)' <=> Empty(d)
             /\ \A q : Carries(d, q)' <=> Carries(d, q)
             /\ Healthy(d) \/ Failed(d) => (Healthy(d) \/ Failed(d))'
  BY DEF Still, Empty, Carries, Healthy, Failed, NoDown, NoServer, NoUp
<1>4. ServedInv'
  BY <1>1, <1>3 DEF ServedInv
<1>5. CarriedInv'
  <2>1. ASSUME NEW d \in Pooled, entry[d] \in {"undialed", "idle"} PROVE Empty(d)'
    BY <1>3, <2>1 DEF CarriedInv
  <2>2. ASSUME NEW r \in Calls, call[r] = "encode" PROVE Empty(conn[r])'
    <3>1. Empty(conn[r]) /\ conn[r] \in Pooled
      BY <2>2 DEF CarriedInv, HeldInv
    <3> QED
      BY <1>1, <3>1 DEF Still, Empty, NoDown, NoServer, NoUp
  <2>3. ASSUME NEW r \in Calls, call[r] = "decode" PROVE Carries(conn[r], r)'
    <3>1. Carries(conn[r], r) /\ conn[r] \in Pooled
      BY <2>3 DEF CarriedInv, HeldInv
    <3> QED
      BY <1>1, <3>1 DEF Still, Carries, NoDown, NoServer, NoUp
  <2> QED
    BY <1>1, <2>1, <2>2, <2>3 DEF CarriedInv
<1>6. ResponseMatches'
  BY <1>1 DEF ResponseMatches
<1> QED
  BY <1>2, <1>4, <1>5, <1>6

\* And the order on such a connection.
LEMMA OrderKeeps ==
    ASSUME NEW d, NEW S, d \in S, Still(S), sent'[d] = sent[d]
    PROVE  InOrder(d)' <=> InOrder(d)
<1>1. BeforeQueue(d)' = BeforeQueue(d) /\ BeforeHand(d)' = BeforeHand(d) /\ BeforeUp(d)' = BeforeUp(d)
  BY DEF Still, BeforeQueue, BeforeHand, BeforeUp
<1> QED
  BY <1>1 DEF Still, InOrder

\* If that is so of all connections of the other clients, all are in order.
LEMMA PipedKeeps ==
    ASSUME PipedInv, NEW S, Piped \subseteq S, Still(S), UNCHANGED sent
    PROVE  PipedInv'
<1>1. ASSUME NEW d \in Piped
      PROVE  client'[d] = client[d] /\ down'[d] = down[d] /\ (InOrder(d)' <=> InOrder(d))
  <2>1. d \in S /\ sent'[d] = sent[d]
    OBVIOUS
  <2> QED
    BY <2>1, OrderKeeps DEF Still
<1> QED
  BY <1>1 DEF PipedInv

\* The server is told to exit: no connection changes.
LEMMA Ends ==
    ASSUME XpInv, Exit, UNCHANGED <<pool, calls, sent>>
    PROVE  XpInv'
<1>1. Still(Conns) /\ Still(Pooled)
  BY DEF Exit, net, Still
<1>2. ~Serving'
  BY DEF Exit, Serving
<1>3. UNCHANGED pool /\ UNCHANGED calls /\ UNCHANGED sent
  OBVIOUS
<1>4. HeldInv' /\ CarriedInv' /\ ServedInv' /\ ResponseMatches'
  BY <1>1, <1>2, <1>3, PoolKeeps
<1>5. PipedInv'
  BY <1>1, <1>3, PipedKeeps, ClientAssumption DEF XpInv
<1>6. RouterInv'
  BY Exiting DEF XpInv
<1> QED
  BY <1>4, <1>5, <1>6 DEF XpInv

\* No step at all.
LEMMA Stutters == XpInv /\ UNCHANGED vars => XpInv'
<1> SUFFICES ASSUME XpInv, UNCHANGED vars PROVE XpInv'
  OBVIOUS
<1>1. /\ UNCHANGED rvars /\ UNCHANGED pool /\ UNCHANGED calls /\ UNCHANGED sent
  BY DEF vars
<1>2. UNCHANGED <<client, up, down, reader, decoded, queue, readDone, writer, req, exit, crashed>>
  BY <1>1 DEF rvars, net
<1>3. Still(Conns) /\ Still(Pooled) /\ (Serving' => Serving)
  BY <1>2 DEF Still, Serving
<1>4. HeldInv' /\ CarriedInv' /\ ServedInv' /\ ResponseMatches'
  BY <1>1, <1>3, PoolKeeps
<1>5. PipedInv'
  BY <1>1, <1>3, PipedKeeps, ClientAssumption DEF XpInv
<1>6. RouterInv'
  BY <1>2 DEF XpInv, RouterInv, RTypeOK
<1> QED
  BY <1>4, <1>5, <1>6 DEF XpInv

\* A client connects, sends the next request or disconnects.
LEMMA OthersStep ==
    ASSUME XpInv, NEW c \in Piped, Connect(c) \/ SendNext(c) \/ Disconnect(c)
    PROVE  XpInv'
<1> USE DEF XpInv
<1>1. UNCHANGED pool /\ UNCHANGED calls /\ c \in Conns /\ c \notin Pooled
  BY ClientAssumption DEF Connect, SendNext, Disconnect, Pooled
<1>2. Still(Conns \ {c}) /\ Serving' = Serving
  BY <1>1 DEF Connect, SendNext, Disconnect, Handle, ReaderTo, WriterTo, CloseConn, SameServer,
              Still, Serving, RouterInv, RTypeOK
<1>3. Still(Pooled) /\ Still(Piped \ {c})
  BY <1>1, <1>2, ClientAssumption DEF Still, Pooled
<1>4. HeldInv' /\ CarriedInv' /\ ServedInv' /\ ResponseMatches'
  BY <1>1, <1>2, <1>3, PoolKeeps
<1>5. ASSUME NEW d \in Piped, d # c, sent'[d] = sent[d]
      PROVE  client'[d] = client[d] /\ down'[d] = down[d] /\ (InOrder(d)' <=> InOrder(d))
  <2>1. d \in Piped \ {c}
    BY <1>5
  <2> QED
    BY <1>3, <1>5, <2>1, OrderKeeps DEF Still
<1>6. CASE Connect(c)
  <2>1. RouterInv' /\ sent' = sent /\ UNCHANGED <<up, down, decoded, queue, req>> /\ client[c] = "none"
    BY <1>1, <1>6, Handles DEF Connect, Handle
  <2>2. InOrder(c)' <=> InOrder(c)
    BY <2>1 DEF InOrder, BeforeQueue, BeforeHand, BeforeUp
  <2>3. PipedInv'
    BY <1>5, <2>1, <2>2 DEF PipedInv
  <2> QED
    BY <1>4, <2>1, <2>3
<1>7. CASE SendNext(c)
  <2>1. /\ client[c] = "open" /\ sent[c] \in 0 .. Burst /\ sent[c] < Burst
        /\ sent' = [sent EXCEPT ![c] = @ + 1] /\ sent \in [Piped -> 0 .. Burst]
        /\ up' = [up EXCEPT ![c] = Append(@, sent[c] + 1)]
        /\ UNCHANGED <<client, down, decoded, queue, req>> /\ SameServer
    BY <1>7 DEF SendNext, SameServer, PipedInv
  <2>2. sent[c] + 1 \in 1 .. Burst /\ sent[c] + 1 \in Requests /\ sent[c] \in Nat
    BY <2>1, ClientAssumption
  <2>3. up[c] \in Seq(Requests) /\ Len(up[c]) \in Nat
    BY <1>1, Parts DEF RouterInv, RTypeOK
  <2>4. /\ up'[c] \in Seq(Requests) /\ Len(up'[c]) = Len(up[c]) + 1 /\ up'[c][Len(up[c]) + 1] = sent[c] + 1
        /\ \A i \in 1 .. Len(up[c]) : up'[c][i] = up[c][i]
    BY <1>1, <2>1, <2>2, <2>3, Parts DEF RouterInv, RTypeOK
  <2>5. up' \in [Conns -> Seq(Requests)]
    BY <2>1, <2>4 DEF RouterInv, RTypeOK
  <2>6. RouterInv'
    BY <2>1, <2>5, ClientKeeps DEF RouterInv, RTypeOK
  <2>7. sent' \in [Piped -> 0 .. Burst] /\ sent'[c] = sent[c] + 1 /\ \A d \in Piped : d # c => sent'[d] = sent[d]
    BY <2>1, <2>2
  <2>8. InOrder(c)
    BY <2>1 DEF PipedInv
  <2>9. BeforeQueue(c)' = BeforeQueue(c) /\ BeforeHand(c)' = BeforeHand(c) /\ BeforeUp(c)' = BeforeUp(c)
    BY <2>1 DEF BeforeQueue, BeforeHand, BeforeUp
  <2>10. BeforeUp(c) + Len(up[c]) = sent[c] /\ BeforeUp(c) \in Nat
    <3>1. Len(down[c]) \in Nat /\ Len(queue[c]) \in Nat
      BY <1>1, Parts DEF RouterInv, RTypeOK
    <3>2. BeforeQueue(c) \in Nat
      <4>1. CASE req[c] = None
        BY <3>1, <4>1 DEF BeforeQueue
      <4>2. CASE req[c] # None
        BY <3>1, <4>2 DEF BeforeQueue
      <4> QED
        BY <4>1, <4>2
    <3>3. BeforeHand(c) \in Nat
      BY <3>1, <3>2 DEF BeforeHand
    <3> QED
      BY <2>8, <3>3 DEF BeforeUp, InOrder
  <2>11. \A i \in 1 .. Len(up'[c]) : up'[c][i] = BeforeUp(c) + i
    <3> SUFFICES ASSUME NEW i \in 1 .. Len(up'[c]) PROVE up'[c][i] = BeforeUp(c) + i
      OBVIOUS
    <3>1. i \in 1 .. Len(up[c]) \/ i = Len(up[c]) + 1
      BY <2>3, <2>4
    <3>2. CASE i \in 1 .. Len(up[c])
      BY <2>4, <2>8, <3>2 DEF InOrder
    <3>3. CASE i = Len(up[c]) + 1
      BY <2>2, <2>3, <2>4, <2>10, <3>3
    <3> QED
      BY <3>1, <3>2, <3>3
  <2>12. BeforeUp(c) + Len(up'[c]) = sent'[c]
    BY <2>2, <2>3, <2>4, <2>7, <2>10
  <2>13. InOrder(c)'
    BY <2>1, <2>8, <2>9, <2>11, <2>12 DEF InOrder
  <2>14. PipedInv'
    BY <1>5, <2>1, <2>7, <2>13 DEF PipedInv
  <2> QED
    BY <1>4, <2>6, <2>14
<1>8. CASE Disconnect(c)
  <2>1. sent' = sent /\ UNCHANGED <<up, down>> /\ SameServer /\ client' = [client EXCEPT ![c] = "closed"]
    BY <1>8 DEF Disconnect, CloseConn
  <2>2. client'[c] = "closed" /\ client' \in [Conns -> {"none", "open", "closed"}]
        /\ \A d \in Conns : client'[d] = "none" => client[d] = "none"
    BY <1>1, <2>1 DEF RouterInv, RTypeOK
  <2>3. RouterInv'
    BY <2>1, <2>2, ClientKeeps DEF RouterInv, RTypeOK
  <2>4. PipedInv'
    BY <1>5, <2>1, <2>2 DEF PipedInv
  <2> QED
    BY <1>4, <2>3, <2>4
<1> QED
  BY <1>6, <1>7, <1>8

\* Nothing is sent, and no connection has been dialed.
LEMMA Starts == Init => XpInv
<1> SUFFICES ASSUME Init PROVE XpInv
  OBVIOUS
<1> USE DEF Init, RInit, L!LInit
<1>1. <<>> \in Seq(Requests) /\ <<>> \in Seq(Response) /\ Len(<<>>) = 0
  BY EmptySeq
<1>2. RouterInv
  <2>1. \A c \in Conns : queue[c] = <<>>
    OBVIOUS
  <2>2. \A c \in Conns : Len(queue[c]) <= QueueSize
    <3>1. 0 <= QueueSize
      BY RouterAssumption
    <3>2. \A c \in Conns : Len(queue[c]) = 0
      BY <1>1, <2>1
    <3> QED
      BY <3>1, <3>2
  <2>3. queue \in [Conns -> Seq(Requests)] /\ up \in [Conns -> Seq(Requests)] /\ down \in [Conns -> Seq(Response)]
    BY <1>1
  <2>4. RTypeOK
    BY <2>2, <2>3 DEF RTypeOK
  <2> QED
    BY <2>4 DEF RouterInv
<1>3. HeldInv
  BY EntryAssumption DEF HeldInv, Pooled
<1>4. CarriedInv /\ ServedInv /\ ResponseMatches
  BY EntryAssumption DEF CarriedInv, ServedInv, ResponseMatches, Empty, NoDown, NoServer, NoUp, Pooled
<1>5. ASSUME NEW c \in Piped PROVE InOrder(c)
  <2>1. /\ Len(down[c]) = 0 /\ Len(queue[c]) = 0 /\ Len(up[c]) = 0
        /\ req[c] = None /\ decoded[c] = None /\ sent[c] = 0
    BY <1>1, ClientAssumption
  <2>2. BeforeQueue(c) = 0
    BY <2>1 DEF BeforeQueue
  <2>3. BeforeHand(c) = 0
    BY <2>1, <2>2 DEF BeforeHand
  <2>4. BeforeUp(c) = 0
    BY <2>1, <2>3 DEF BeforeUp
  <2> QED
    BY <2>1, <2>4 DEF InOrder
<1>6. PipedInv
  BY <1>1, <1>5, ClientAssumption DEF PipedInv
<1> QED
  BY <1>2, <1>3, <1>4, <1>6 DEF XpInv

\* A call's connection is the one it got, a connection in use or in the pool
\* carries one request at most and is served or has failed, and the requests
\* of the other clients keep their order all the way.
THEOREM XpInvariant == Spec => []XpInv
<1>1. Init => XpInv
  BY Starts
<1>2. XpInv /\ [Next]_vars => XpInv'
  <2> SUFFICES ASSUME XpInv, [Next]_vars PROVE XpInv'
    OBVIOUS
  <2>1. ASSUME NEW r \in Calls, RoundTrip(r) PROVE XpInv'
    <3>1. CASE Get(r)
      BY <3>1, GetsIdle, GetsNew, GetsNone DEF Get, Pooled
    <3>2. ASSUME NEW c \in Pooled, conn[r] = c,
                 Encode(r, c) \/ EncodeFails(r, c) \/ DecodeError(r, c) \/ ServerError(r, c) \/ Answer(r, c)
          PROVE  XpInv'
      BY <3>2, Encodes, Fails, ReadsError, ReadsAnswer
    <3> QED
      BY <2>1, <3>1, <3>2 DEF RoundTrip, Pooled
  <2>2. ASSUME NEW c \in Conns, ServerStep(c) PROVE XpInv'
    BY <2>2, ServerSteps
  <2>3. ASSUME NEW c \in Piped, Connect(c) \/ SendNext(c) \/ Disconnect(c) PROVE XpInv'
    BY <2>3, OthersStep
  <2>4. CASE Exit /\ UNCHANGED <<pool, calls, sent>>
    BY <2>4, Ends
  <2>5. CASE UNCHANGED vars
    BY <2>5, Stutters
  <2> QED
    BY <2>1, <2>2, <2>3, <2>4, <2>5 DEF Next
<1> QED
  BY <1>1, <1>2, PTL DEF Spec

\* The response that RoundTrip returns answers the caller's request.
THEOREM ResponsesMatch == Spec => []ResponseMatches
<1>1. XpInv => ResponseMatches
  BY DEF XpInv
<1> QED
  BY <1>1, XpInvariant, PTL

\* A connection in the pool is served, with nothing left on it, unless the
\* server exits or has crashed.
THEOREM IdleAreServed == Spec => []IdleServed
<1>1. XpInv => IdleServed
  <2> SUFFICES ASSUME XpInv, Serving, NEW c \in L!Idle
               PROVE  writer[c] = "select" /\ reader[c] = "decode" /\ up[c] = <<>> /\ down[c] = <<>>
    BY DEF IdleServed
  <2>1. c \in Pooled /\ entry[c] = "idle"
    BY DEF L!Idle, Pooled
  <2>2. Empty(c) /\ (Healthy(c) \/ Failed(c))
    BY <2>1 DEF XpInv, CarriedInv, ServedInv
  <2>3. Healthy(c) /\ up[c] = <<>> /\ down[c] = <<>> /\ decoded[c] = None /\ req[c] = None
    BY <2>2 DEF Empty, NoDown, NoServer, NoUp, Failed
  <2>4. reader[c] # "put" /\ writer[c] # "handle"
    BY <2>1, <2>3 DEF XpInv, RouterInv, Pooled
  <2> QED
    BY <2>3, <2>4 DEF Healthy
<1> QED
  BY <1>1, XpInvariant, PTL

\* The responses come in the order of the requests, and a client that stays
\* to the end gets one for every request that the server has read.
THEOREM PipelinesServed == Spec => []PipelineServed
<1>1. XpInv => PipelineServed
  <2> SUFFICES ASSUME XpInv, NEW c \in Piped
               PROVE  /\ \A i \in 1 .. Len(down[c]) : down[c][i].req = i
                      /\ writer[c] = "returned" /\ reader[c] = "done" /\ client[c] = "open"
                            => Len(down[c]) + Len(up[c]) = sent[c]
    BY DEF PipelineServed
  <2>1. \A i \in 1 .. Len(down[c]) : down[c][i].req = i
    BY DEF XpInv, PipedInv
  <2>2. ASSUME writer[c] = "returned", reader[c] = "done", client[c] = "open"
        PROVE  Len(down[c]) + Len(up[c]) = sent[c]
    <3>1. queue[c] = <<>> /\ req[c] = None /\ decoded[c] = None /\ c \in Conns
      BY <2>2, ClientAssumption DEF XpInv, RouterInv
    <3>2. Len(down[c]) \in Nat /\ Len(up[c]) \in Nat /\ Len(queue[c]) = 0
      BY <3>1, Parts DEF XpInv, RouterInv, RTypeOK
    <3>3. BeforeUp(c) + Len(up[c]) = sent[c]
      BY <2>2 DEF XpInv, PipedInv, InOrder
    <3>4. BeforeQueue(c) = Len(down[c])
      BY <3>1, <3>2 DEF BeforeQueue
    <3>5. BeforeHand(c) = Len(down[c])
      BY <3>2, <3>4 DEF BeforeHand
    <3>6. BeforeUp(c) = Len(down[c])
      BY <3>1, <3>2, <3>5 DEF BeforeUp
    <3> QED
      BY <3>3, <3>6
  <2> QED
    BY <2>1, <2>2
<1> QED
  BY <1>1, XpInvariant, PTL
================================================================================
