------------------------------- MODULE TcpServer -------------------------------
(***************************************************************************)
(* go-xtcpapi/server.go and its twin go-xp/server.go: TCP servers that      *)
(* share a listening socket, each with its own descriptor of it.  Serve     *)
(* accepts connections and starts a handler for each; Quit closes the       *)
(* descriptor, waits for Serve to stop accepting, tells the handlers to     *)
(* exit and waits for them, but not longer than a timeout.                  *)
(*                                                                          *)
(* Quit is called once here: sync.Once makes later calls wait for the first *)
(* and return nil.  A handler that panics ends like one that returns (the   *)
(* recover of go-xtcpapi; go-xp has none).                                  *)
(***************************************************************************)
EXTENDS Naturals, Sequences

CONSTANTS Servers,  \* servers on the same address
          Conns,    \* bound: connections that clients make
          None      \* no server

ASSUME ServersAssumption == None \notin Servers

VARIABLES listener,  \* Servers -> "none", "open" or "closed": its descriptor
          serve,     \* Servers -> step of Serve
          quit,      \* Servers -> step of Quit's body
          quitErr,   \* Servers -> Quit's error is not nil
          conn,      \* Conns -> "new", "queued", "accepted", "handling", "done", "lost"
          by         \* Conns -> server that accepted it

svars == <<listener, serve, quit, quitErr, conn, by>>

SInit == /\ listener = [s \in Servers |-> "none"]
         /\ serve = [s \in Servers |-> "no"]
         /\ quit = [s \in Servers |-> "no"]
         /\ quitErr = [s \in Servers |-> FALSE]
         /\ conn = [c \in Conns |-> "new"]
         /\ by = [c \in Conns |-> None]

ServeTo(s, from, to) == serve[s] = from /\ serve' = [serve EXCEPT ![s] = to]
QuitTo(s, from, to) == quit[s] = from /\ quit' = [quit EXCEPT ![s] = to]

\* s.l and the channels of s are assigned.
FieldsSet(s) == serve[s] \notin {"no", "fields"}

-----------------------------------------------------------------------------
(* Serve.                                                                   *)

\* s.l is assigned before s.exit and s.acceptDone; Quit may run in between.
ServeBegin(s) == /\ ServeTo(s, "no", "fields")
                 /\ UNCHANGED <<listener, quit, quitErr, conn, by>>

ServeFields(s) == /\ ServeTo(s, "fields", "accept")
                  /\ UNCHANGED <<listener, quit, quitErr, conn, by>>

Accept(s, c) == /\ ServeTo(s, "accept", "spawn")
                /\ listener[s] = "open"
                /\ conn[c] = "queued"
                /\ conn' = [conn EXCEPT ![c] = "accepted"]
                /\ by' = [by EXCEPT ![c] = s]
                /\ UNCHANGED <<listener, quit, quitErr>>

\* A temporary error: sleep, then accept again.
AcceptTemporary(s) == /\ ServeTo(s, "accept", "sleep")
                      /\ listener[s] = "open"
                      /\ UNCHANGED <<listener, quit, quitErr, conn, by>>

Wake(s) == /\ ServeTo(s, "sleep", "accept")
           /\ UNCHANGED <<listener, quit, quitErr, conn, by>>

\* Another error: leave the loop, close(acceptDone), return the error.
AcceptFails(s) == /\ ServeTo(s, "accept", "failed")
                  /\ listener[s] = "open"
                  /\ UNCHANGED <<listener, quit, quitErr, conn, by>>

\* The descriptor was closed: leave the loop, close(acceptDone), return.
AcceptClosed(s) == /\ ServeTo(s, "accept", "returned")
                   /\ listener[s] = "closed"
                   /\ UNCHANGED <<listener, quit, quitErr, conn, by>>

\* wg.Add(1), go Handle(conn, exit)
Spawn(s, c) == /\ ServeTo(s, "spawn", "accept")
               /\ by[c] = s
               /\ conn[c] = "accepted"
               /\ conn' = [conn EXCEPT ![c] = "handling"]
               /\ UNCHANGED <<listener, quit, quitErr, by>>

\* The handler returns: wg.Done().
HandlerDone(c) == /\ conn[c] = "handling"
                  /\ conn' = [conn EXCEPT ![c] = "done"]
                  /\ UNCHANGED <<listener, serve, quit, quitErr, by>>

-----------------------------------------------------------------------------
(* Quit.                                                                    *)

\* The socket with the descriptors ds open loses its clients with the last one.
Backlog(ds) == [c \in Conns |-> IF ds = {} /\ conn[c] = "queued" THEN "lost" ELSE conn[c]]

Others(s) == {t \in Servers : listener[t] = "open" /\ t # s}

\* if s.l != nil { s.l.Close() }
QuitClose(s) == /\ QuitTo(s, "no", "read")
                /\ \/ serve[s] = "no" /\ UNCHANGED <<listener, conn>>
                   \/ /\ serve[s] # "no"
                      /\ listener' = [listener EXCEPT ![s] = "closed"]
                      /\ conn' = Backlog(Others(s))
                /\ UNCHANGED <<serve, quitErr, by>>

\* <-s.acceptDone: a nil channel is never ready, also if it is set later.
QuitRead(s) == /\ QuitTo(s, "read", IF FieldsSet(s) THEN "wait" ELSE "stuck")
               /\ UNCHANGED <<listener, serve, quitErr, conn, by>>

\* Mutant of QuitWait: do not wait for acceptDone.
QuitWaitNot(s) == /\ QuitTo(s, "wait", "select")
                  /\ UNCHANGED <<listener, serve, quitErr, conn, by>>

\* acceptDone is closed.  Then start the goroutine that waits for the handlers
\* and close(exit): the handlers are told to return, and may or may not do so.
QuitWait(s) == /\ QuitTo(s, "wait", "select")
               /\ serve[s] \in {"returned", "failed"}
               /\ UNCHANGED <<listener, serve, quitErr, conn, by>>

\* wg.Wait() returned in that goroutine: it sends to exitDone, unbuffered.
QuitDrained(s) == /\ QuitTo(s, "select", "returned")
                  /\ \A c \in Conns : ~(by[c] = s /\ conn[c] = "handling")
                  /\ UNCHANGED <<listener, serve, quitErr, conn, by>>

\* Mutant of QuitTimeout: there is no timeout.
QuitNoTimeout(s) == quit[s] = "select" /\ UNCHANGED svars

\* time.After(timeout); the goroutine in wg.Wait is left behind.
QuitTimeout(s) == /\ QuitTo(s, "select", "returned")
                  /\ quitErr' = [quitErr EXCEPT ![s] = TRUE]
                  /\ UNCHANGED <<listener, serve, conn, by>>

-----------------------------------------------------------------------------
\* A client connects while some descriptor of the socket is open.
Connect(c) == /\ conn[c] = "new"
              /\ \E s \in Servers : listener[s] = "open"
              /\ conn' = [conn EXCEPT ![c] = "queued"]
              /\ UNCHANGED <<listener, serve, quit, quitErr, by>>

ServeStep(s) == \/ ServeFields(s) \/ AcceptTemporary(s) \/ Wake(s) \/ AcceptClosed(s)
                \/ \E c \in Conns : Accept(s, c) \/ Spawn(s, c)
QuitStep(s) == \/ QuitRead(s) \/ QuitWait(s) \/ QuitDrained(s) \/ QuitTimeout(s)

-----------------------------------------------------------------------------
(* Properties.                                                              *)

\* Type invariant of the servers.
STypeOK ==
    /\ listener \in [Servers -> {"none", "open", "closed"}]
    /\ serve \in [Servers -> {"no", "fields", "accept", "sleep", "spawn", "returned", "failed"}]
    /\ quit \in [Servers -> {"no", "read", "stuck", "wait", "select", "returned"}]
    /\ quitErr \in [Servers -> BOOLEAN]
    /\ conn \in [Conns -> {"new", "queued", "accepted", "handling", "done", "lost"}]
    /\ by \in [Conns -> Servers \cup {None}]

\* When Quit returns without an error, no connection that Serve accepted is
\* still without a handler or in one: a connection accepted while the
\* listener is being closed is waited for as well.
QuitDrains == \A s \in Servers : quit[s] = "returned" /\ ~quitErr[s] =>
                  \A c \in Conns : by[c] = s => conn[c] \notin {"accepted", "handling"}

=============================================================================
