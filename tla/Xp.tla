---------------------------------- MODULE Xp ----------------------------------
(***************************************************************************)
(* go-xp: clients and a server.  Client.RoundTrip (client.go) takes a       *)
(* connection from a pool, sends a request over it, reads the response and  *)
(* gives the connection back, or takes it out of use if anything failed.    *)
(* Other clients send requests without waiting for the responses.  The      *)
(* server is the Router of module XpRouter; the pool is the ledger that the *)
(* connection pool implements (ConnLedger, XConnPool).                      *)
(*                                                                          *)
(* A call of RoundTrip is named by its request; it is also the holder of    *)
(* its connection in the ledger.                                            *)
(***************************************************************************)
EXTENDS XpRouter, FiniteSets

CONSTANTS Calls,    \* calls of RoundTrip
          Piped,    \* connections of the other clients
          Burst,    \* bound: requests on each of them
          Capacity  \* capacity of the pool

ASSUME ClientAssumption == /\ Burst \in Nat
                           /\ Requests = Calls \cup 1 .. Burst
                           /\ Calls \cap 1 .. Burst = {}
                           /\ Piped \subseteq Conns

\* The ledger's marks are no calls.
ASSUME EntryAssumption == Calls \cap {"undialed", "idle", "released"} = {}

VARIABLES entry, open, served,  \* the ledger of the pool
          call,    \* Calls -> "new", "encode", "decode" or "returned"
          conn,    \* Calls -> the connection that Get returned, or None
          result,  \* Calls -> the request that the response answers, or None
          sent     \* Piped -> requests sent

L == INSTANCE ConnLedger WITH Conns <- Conns \ Piped, Holders <- Calls

pool == <<entry, open, served>>
calls == <<call, conn, result>>
vars == <<rvars, pool, calls, sent>>

Init == /\ RInit
        /\ L!LInit
        /\ call = [r \in Calls |-> "new"]
        /\ conn = [r \in Calls |-> None]
        /\ result = [r \in Calls |-> None]
        /\ sent = [c \in Piped |-> 0]

\* The client's end of the connection is closed: the server sees it.
CloseConn(c) == client' = [client EXCEPT ![c] = "closed"]
SameServer == UNCHANGED <<reader, decoded, queue, readDone, writer, req, exit, crashed>>

Returns(r, from, res) == /\ call[r] = from
                         /\ call' = [call EXCEPT ![r] = "returned"]
                         /\ result' = [result EXCEPT ![r] = res]
                         /\ UNCHANGED conn

-----------------------------------------------------------------------------
(* RoundTrip.                                                               *)

Got(r, c) == /\ call[r] = "new"
             /\ call' = [call EXCEPT ![r] = "encode"]
             /\ conn' = [conn EXCEPT ![r] = c]
             /\ UNCHANGED <<result, sent>>

\* xcps.Get: an idle connection, or else a new one.
GetIdle(r, c) == /\ Got(r, c)
                 /\ L!Lend(c, r)
                 /\ UNCHANGED rvars

GetDial(r, c) == /\ Got(r, c)
                 /\ L!Idle = {}
                 /\ L!Dial(c, r)
                 /\ Handle(c)

\* A GetConnError: Feedback(addr, false).
GetFails(r) == /\ L!Idle = {}
               /\ Returns(r, "new", None)
               /\ UNCHANGED <<rvars, pool, sent>>

\* xpacket.Encode; it may succeed though the server has closed.
Encode(r, c) == /\ call[r] = "encode"
                /\ up' = [up EXCEPT ![c] = Append(@, r)]
                /\ call' = [call EXCEPT ![r] = "decode"]
                /\ UNCHANGED <<client, down, pool, conn, result, sent>> /\ SameServer

\* release(conn): Unuse; then the deferred Close closes it.
Release(r, c, from, res) == /\ Returns(r, from, res)
                            /\ L!Discard(c)
                            /\ CloseConn(c)

EncodeFails(r, c) == /\ Gone(c)
                     /\ Release(r, c, "encode", None)
                     /\ UNCHANGED <<up, down, sent>> /\ SameServer

\* xpacket.Decode fails: the server has closed, and data may be lost.
DecodeError(r, c) == /\ Gone(c)
                     /\ Release(r, c, "decode", None)
                     /\ UNCHANGED <<up, down, sent>> /\ SameServer

Read(c) == down' = [down EXCEPT ![c] = Tail(@)]

\* Mutant of ServerError: the connection goes back to the pool.
ServerErrorKeeps(r, c) == /\ down[c] # <<>>
                          /\ Head(down[c]).code = "SERVER_ERROR"
                          /\ Read(c)
                          /\ Returns(r, "decode", Head(down[c]).req)
                          /\ L!GiveBack(c)
                          /\ UNCHANGED <<client, up, sent>> /\ SameServer

\* The server reports SERVER_ERROR: the connection is not used again.
ServerError(r, c) == /\ down[c] # <<>>
                     /\ Head(down[c]).code = "SERVER_ERROR"
                     /\ Read(c)
                     /\ Release(r, c, "decode", Head(down[c]).req)
                     /\ UNCHANGED <<up, sent>> /\ SameServer

\* Any other response; conn.Close puts the connection into the pool, or
\* closes it if the pool is full.
Answer(r, c) == /\ down[c] # <<>>
                /\ Head(down[c]).code # "SERVER_ERROR"
                /\ Read(c)
                /\ Returns(r, "decode", Head(down[c]).req)
                /\ \/ L!GiveBack(c) /\ UNCHANGED client
                   \/ /\ Cardinality(L!Idle) = Capacity
                      /\ L!Discard(c)
                      /\ CloseConn(c)
                /\ UNCHANGED <<up, sent>> /\ SameServer

-----------------------------------------------------------------------------
(* Other clients, up to the end of the server's side.                       *)

Connect(c) == /\ Handle(c)
              /\ UNCHANGED <<pool, calls, sent>>

SendNext(c) == /\ client[c] = "open" /\ ~Gone(c)
               /\ sent[c] < Burst
               /\ sent' = [sent EXCEPT ![c] = @ + 1]
               /\ up' = [up EXCEPT ![c] = Append(@, sent[c] + 1)]
               /\ UNCHANGED <<client, down, pool, calls>> /\ SameServer

Disconnect(c) == /\ client[c] = "open" /\ ~Gone(c)
                 /\ CloseConn(c)
                 /\ UNCHANGED <<up, down, pool, calls, sent>> /\ SameServer

-----------------------------------------------------------------------------
Get(r) == \/ \E c \in Conns \ Piped : GetIdle(r, c) \/ GetDial(r, c)
          \/ GetFails(r)
RoundTrip(r) == \/ Get(r)
                \/ \E c \in Conns \ Piped :
                     /\ conn[r] = c
                     /\ \/ Encode(r, c) \/ EncodeFails(r, c) \/ DecodeError(r, c)
                        \/ ServerError(r, c) \/ Answer(r, c)
ServerStep(c) == (ReadStep(c) \/ WriteStep(c)) /\ UNCHANGED <<pool, calls, sent>>

Next == \/ \E r \in Calls : RoundTrip(r)
        \/ \E c \in Conns : ServerStep(c)
        \/ \E c \in Piped : Connect(c) \/ SendNext(c) \/ Disconnect(c)
        \/ Exit /\ UNCHANGED <<pool, calls, sent>>

Begun(r) == call[r] # "new"

\* The goroutines of both sides run, and handlers return.
Fairness == /\ \A r \in Calls : WF_vars(Begun(r) /\ RoundTrip(r))
            /\ \A c \in Conns : /\ WF_vars(ReadStep(c) /\ UNCHANGED <<pool, calls, sent>>)
                                /\ WF_vars(WriteStep(c) /\ UNCHANGED <<pool, calls, sent>>)

Spec == Init /\ [][Next]_vars /\ Fairness

-----------------------------------------------------------------------------
(* Properties.                                                              *)

\* Type invariant.
TypeOK == /\ RTypeOK
          /\ entry \in [Conns \ Piped -> Calls \cup {"undialed", "idle", "released"}]
          /\ open \in BOOLEAN /\ served \subseteq Calls
          /\ call \in [Calls -> {"new", "encode", "decode", "returned"}]
          /\ conn \in [Calls -> (Conns \ Piped) \cup {None}]
          /\ result \in [Calls -> Requests \cup {None}]
          /\ sent \in [Piped -> 0 .. Burst]

\* The response that RoundTrip returns answers the caller's request, though
\* the connection carried the requests of other callers before.
ResponseMatches == \A r \in Calls : result[r] \in {None, r}

\* The client gives up exactly the connections that the router gives up: one
\* in the pool is still served, with nothing left on it from the call before,
\* unless the server exits.
IdleServed == Serving => \A c \in L!Idle : /\ writer[c] = "select" /\ reader[c] = "decode"
                                          /\ up[c] = <<>> /\ down[c] = <<>>

\* The responses on a connection come in the order of the requests with none
\* left out or sent twice; and when Handle has returned to a client that is
\* still there, every request that entered the channel has been answered.
PipelineServed ==
    \A c \in Piped :
        /\ \A i \in 1 .. Len(down[c]) : down[c][i].req = i
        /\ writer[c] = "returned" /\ reader[c] = "done" /\ client[c] = "open"
              => Len(down[c]) + Len(up[c]) = sent[c]

\* Every RoundTrip returns: with a response, or an error if the server exits
\* or crashes.
RoundTripReturns == \A r \in Calls : Begun(r) ~> call[r] = "returned"

\* router.go:51 "It reads the data from a connection and dispatches it to the
\* corresponding handler based on command."  No decoded request is left
\* without a handler when the connection or the process has ended.
DecodedDispatched == \A c \in Conns : Gone(c) => decoded[c] = None /\ queue[c] = <<>>

=============================================================================
