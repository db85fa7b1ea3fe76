------------------------------- MODULE XpRouter -------------------------------
(***************************************************************************)
(* go-xp/router.go: Router.Handle serves one connection with two            *)
(* goroutines.  read decodes requests and puts them into a channel, write   *)
(* takes them out, handles them and sends the responses, until a handler    *)
(* fails, the reader has ended or the server exits; then it closes the      *)
(* channel, handles what is left in it, and the connection is closed.       *)
(*                                                                          *)
(* A panic in read ends the whole process: nobody recovers it.  What a      *)
(* handler computes is left out; a response is the request it answers and   *)
(* a code.                                                                  *)
(***************************************************************************)
EXTENDS Naturals, Sequences

CONSTANTS Conns,     \* connections of clients to the server
          Requests,  \* bound: requests the clients send
          QueueSize, \* capacity of the channel (32 in Handle)
          None       \* no request

ASSUME RouterAssumption == QueueSize \in Nat \ {0} /\ None \notin Requests

\* REQUEST_ERROR stands for AUTH_FAILED too.
Codes == {"OK", "REQUEST_ERROR", "SERVER_ERROR"}

VARIABLES client,    \* Conns -> the client's end: "none", "open" or "closed"
          up,        \* Conns -> requests sent and not decoded
          down,      \* Conns -> responses sent and not read
          reader,    \* Conns -> step of connWrapper.read
          decoded,   \* Conns -> the request in read's hand
          queue,     \* Conns -> requests in the channel
          readDone,  \* Conns -> the reader has sent to readDone
          writer,    \* Conns -> step of connWrapper.write
          req,       \* Conns -> the request in write's hand
          exit,      \* the server's exit channel is closed
          crashed    \* the server process has ended with a panic

net == <<client, up, down>>
rvars == <<net, reader, decoded, queue, readDone, writer, req, exit, crashed>>

RInit == /\ client = [c \in Conns |-> "none"]
         /\ up = [c \in Conns |-> <<>>]
         /\ down = [c \in Conns |-> <<>>]
         /\ reader = [c \in Conns |-> "none"]
         /\ decoded = [c \in Conns |-> None]
         /\ queue = [c \in Conns |-> <<>>]
         /\ readDone = [c \in Conns |-> FALSE]
         /\ writer = [c \in Conns |-> "none"]
         /\ req = [c \in Conns |-> None]
         /\ exit = FALSE
         /\ crashed = FALSE

Serving == ~exit /\ ~crashed
\* The server's end of the connection is gone.
Gone(c) == crashed \/ writer[c] = "returned"
\* close(cw.queue)
QueueClosed(c) == writer[c] \in {"drain", "last", "returned"}

ReaderTo(c, from, to) == reader[c] = from /\ reader' = [reader EXCEPT ![c] = to]
WriterTo(c, from, to) == writer[c] = from /\ writer' = [writer EXCEPT ![c] = to]

\* Handle: the server accepts a connection and calls Router.Handle.
Handle(c) == /\ client[c] = "none"
             /\ Serving
             /\ client' = [client EXCEPT ![c] = "open"]
             /\ ReaderTo(c, "none", "decode")
             /\ WriterTo(c, "none", "select")
             /\ UNCHANGED <<up, down, decoded, queue, readDone, req, exit, crashed>>

\* Server.Quit closes the exit channel.
Exit == /\ Serving
        /\ exit' = TRUE
        /\ UNCHANGED <<net, reader, decoded, queue, readDone, writer, req, crashed>>

-----------------------------------------------------------------------------
(* The reader.                                                              *)

\* xpacket.Decode; data that has arrived is still read after CloseRead.
Decode(c) == /\ ReaderTo(c, "decode", "put")
             /\ up[c] # <<>>
             /\ decoded' = [decoded EXCEPT ![c] = Head(up[c])]
             /\ up' = [up EXCEPT ![c] = Tail(@)]
             /\ UNCHANGED <<client, down, queue, readDone, writer, req, exit, crashed>>

\* The client has closed the connection, or write has called CloseRead.
DecodeFails(c) == /\ ReaderTo(c, "decode", "done")
                  /\ client[c] = "closed" \/ writer[c] \in {"shut", "drain", "last", "returned"}
                  /\ readDone' = [readDone EXCEPT ![c] = TRUE]
                  /\ UNCHANGED <<net, decoded, queue, writer, req, exit, crashed>>

\* cw.queue <- req
Put(c) == /\ ReaderTo(c, "put", "decode")
          /\ ~QueueClosed(c)
          /\ Len(queue[c]) < QueueSize
          /\ queue' = [queue EXCEPT ![c] = Append(@, decoded[c])]
          /\ decoded' = [decoded EXCEPT ![c] = None]
          /\ UNCHANGED <<net, readDone, writer, req, exit, crashed>>

\* The same on the closed channel: a panic.
PutPanics(c) == /\ reader[c] = "put"
                /\ QueueClosed(c)
                /\ crashed' = TRUE
                /\ UNCHANGED <<net, reader, decoded, queue, readDone, writer, req, exit>>

-----------------------------------------------------------------------------
(* The writer.                                                              *)

Take(c) == /\ \/ WriterTo(c, "select", "handle")
              \/ WriterTo(c, "drain", "last")
           /\ queue[c] # <<>>
           /\ req' = [req EXCEPT ![c] = Head(queue[c])]
           /\ queue' = [queue EXCEPT ![c] = Tail(@)]
           /\ UNCHANGED <<net, reader, decoded, readDone, exit, crashed>>

\* <-cw.readDone, or <-cw.exit: then CloseRead.
SeeReadDone(c) == /\ WriterTo(c, "select", "shut")
                  /\ readDone[c]
                  /\ readDone' = [readDone EXCEPT ![c] = FALSE]
                  /\ UNCHANGED <<net, reader, decoded, queue, req, exit, crashed>>

SeeExit(c) == /\ WriterTo(c, "select", "shut")
              /\ exit
              /\ UNCHANGED <<net, reader, decoded, queue, readDone, req, exit, crashed>>

\* After the request: the loop goes on unless the code is SERVER_ERROR; the
\* last loop ignores the code.
Handled(c, code) == /\ writer' = [writer EXCEPT ![c] = CASE @ = "last" -> "drain"
                                                         [] code = "SERVER_ERROR" -> "shut"
                                                         [] OTHER -> "select"]
                    /\ req' = [req EXCEPT ![c] = None]

\* Mutant of Respond: an error of the lookup is not reported to the client.
RespondOnly(c, code) == /\ writer[c] \in {"handle", "last"}
                        /\ client[c] = "open"
                        /\ down' = IF code = "REQUEST_ERROR" THEN down
                                   ELSE [down EXCEPT ![c] = Append(@, [req |-> req[c], code |-> code])]
                        /\ Handled(c, code)
                        /\ UNCHANGED <<client, up, reader, decoded, queue, readDone, exit, crashed>>

\* Mutant of Respond: an error of the lookup is reported twice, before handle
\* returns and by its deferred function.
RespondTwice(c, code) ==
    /\ writer[c] \in {"handle", "last"}
    /\ client[c] = "open"
    /\ LET rsp == [req |-> req[c], code |-> code]
       IN down' = [down EXCEPT ![c] = @ \o IF code = "REQUEST_ERROR" THEN <<rsp, rsp>> ELSE <<rsp>>]
    /\ Handled(c, code)
    /\ UNCHANGED <<client, up, reader, decoded, queue, readDone, exit, crashed>>

\* handle: the handler's response, or the deferred response to an error of
\* the authentication, the lookup or the handler.
Respond(c, code) == /\ writer[c] \in {"handle", "last"}
                    /\ client[c] = "open"
                    /\ down' = [down EXCEPT ![c] = Append(@, [req |-> req[c], code |-> code])]
                    /\ Handled(c, code)
                    /\ UNCHANGED <<client, up, reader, decoded, queue, readDone, exit, crashed>>

\* The response cannot be sent: an OK becomes a SERVER_ERROR.
RespondFails(c, code) == /\ writer[c] \in {"handle", "last"}
                         /\ client[c] = "closed"
                         /\ Handled(c, IF code = "OK" THEN "SERVER_ERROR" ELSE code)
                         /\ UNCHANGED <<net, reader, decoded, queue, readDone, exit, crashed>>

CloseQueue(c) == /\ WriterTo(c, "shut", "drain")
                 /\ UNCHANGED <<net, reader, decoded, queue, readDone, req, exit, crashed>>

\* Mutant of Return: the requests in the channel are left there.
ReturnAtOnce(c) == /\ WriterTo(c, "drain", "returned")
                   /\ UNCHANGED <<net, reader, decoded, queue, readDone, req, exit, crashed>>

\* The channel is empty: conn.Close().
Return(c) == /\ WriterTo(c, "drain", "returned")
             /\ queue[c] = <<>>
             /\ UNCHANGED <<net, reader, decoded, queue, readDone, req, exit, crashed>>

-----------------------------------------------------------------------------
ReadStep(c) == ~crashed /\ (Decode(c) \/ DecodeFails(c) \/ Put(c) \/ PutPanics(c))
WriteStep(c) == /\ ~crashed
                /\ \/ Take(c) \/ SeeReadDone(c) \/ SeeExit(c) \/ CloseQueue(c) \/ Return(c)
                   \/ \E code \in Codes : Respond(c, code) \/ RespondFails(c, code)

\* Type invariant of the server's side.
Response == [req : Requests, code : Codes]
RTypeOK == /\ client \in [Conns -> {"none", "open", "closed"}]
           /\ up \in [Conns -> Seq(Requests)]
           /\ down \in [Conns -> Seq(Response)]
           /\ reader \in [Conns -> {"none", "decode", "put", "done"}]
           /\ decoded \in [Conns -> Requests \cup {None}]
           /\ queue \in [Conns -> Seq(Requests)]
           /\ \A c \in Conns : Len(queue[c]) <= QueueSize
           /\ readDone \in [Conns -> BOOLEAN]
           /\ writer \in [Conns -> {"none", "select", "handle", "shut", "drain", "last", "returned"}]
           /\ req \in [Conns -> Requests \cup {None}]
           /\ exit \in BOOLEAN /\ crashed \in BOOLEAN

=============================================================================
