----------------------------- MODULE XServerProofs -----------------------------
(***************************************************************************)
(* Theorems about TCP servers and the processes that run them (TcpServer,   *)
(* XServer), for any number of processes and connections and with signals   *)
(* at any time, those of a user to a starting process included.             *)
(***************************************************************************)
EXTENDS XServer, SequenceTheorems, TLAPS

-----------------------------------------------------------------------------
(* The servers.                                                             *)

\* Quit gets past acceptDone only when Serve has stopped for good.
StoppedFirst == \A s \in Servers : quit[s] \in {"select", "returned"} => serve[s] \in {"returned", "failed"}

\* Only the connection in Serve's hand is without its handler.
OneInHand == /\ \A c \in Conns : conn[c] = "accepted" => by[c] \in Servers /\ serve[by[c]] = "spawn"
             /\ \A c, d \in Conns : conn[c] = "accepted" /\ conn[d] = "accepted" /\ by[c] = by[d] => c = d

\* A connection has a server from Accept on.
HasServer == \A c \in Conns : by[c] # None => conn[c] \notin {"new", "queued"}

DrainInv == STypeOK /\ StoppedFirst /\ OneInHand /\ HasServer /\ QuitDrains
-----------------------------------------------------------------------------
(* The processes.                                                           *)

ProcType ==
    /\ main \in [Servers -> {"none", "boot", "listen", "spawn", "kill", "select", "returned", "exited"}]
    /\ orphan \in [Servers -> BOOLEAN]
    /\ notify \in [Servers -> {"no", "start", "wait", "quit", "close", "report", "ended", "failed"}]
    /\ signals \in [Servers -> SUBSET {"TERM", "USR2"}]
    /\ errs \in [Servers -> Seq({"nil", "error"})]
    /\ done \in [Servers -> BOOLEAN]
    /\ result \in [Servers -> {"nil", "error", None}]
    /\ restarted \subseteq Servers /\ terminated \subseteq Servers /\ broken \in BOOLEAN

\* done is closed when Quit has returned.
DoneAfterQuit == \A p \in Servers : /\ done[p] => notify[p] = "ended"
                                    /\ notify[p] \in {"close", "ended"} => quit[p] = "returned"

\* errs reports nil only for a restart.
NilOnRestart ==
    \A p \in Servers : p \notin restarted =>
        /\ "USR2" \notin signals[p] /\ notify[p] # "report"
        /\ \A i \in 1 .. Len(errs[p]) : errs[p][i] # "nil"
        /\ main[p] = "returned" /\ result[p] = "nil" => done[p]

\* A process is asked to restart once: until then it has no child, so one that
\* has ended stays so.
OneRestart ==
    \A p \in Servers : /\ p + 1 \in Servers /\ (p \notin restarted \/ "USR2" \in signals[p]) => main[p + 1] = "none"
                       /\ notify[p] = "report" => "USR2" \notin signals[p]

\* A connection is lost by a server only when its process ends.
LostAtEnd == \A c \in Conns : conn[c] = "lost" /\ by[c] # None => main[by[c]] = "exited"

\* Processes of whose restart the outcome has been sent to errs.
Reported == {p \in Servers : p \in restarted /\ "USR2" \notin signals[p] /\ notify[p] # "report"}

\* The three sends to errs: of Serve's error, of Quit's, of the restart.
Sends(p) == (IF serve[p] = "failed" THEN 1 ELSE 0)
            + (IF notify[p] \in {"close", "ended"} THEN 1 ELSE 0)
            + (IF p \in Reported THEN 1 ELSE 0)

RoomInErrs == \A p \in Servers : Len(errs[p]) <= Sends(p)

ProcInv == /\ ProcType /\ DoneAfterQuit /\ NilOnRestart /\ OneRestart /\ LostAtEnd /\ RoomInErrs

ServerInv == DrainInv /\ ProcInv

-----------------------------------------------------------------------------
(* The steps of the servers.                                                *)

LEMMA DrainInit == SInit => DrainInv
BY DEF SInit, DrainInv, STypeOK, StoppedFirst, OneInHand, HasServer, QuitDrains

\* Opening a descriptor.
LEMMA DrainListen ==
    ASSUME DrainInv, NEW s, listener' = [listener EXCEPT ![s] = "open"],
           UNCHANGED <<serve, quit, quitErr, conn, by>>
    PROVE  DrainInv'
<1>1. STypeOK'
  BY DEF DrainInv, STypeOK
<1> QED
  BY <1>1 DEF DrainInv, StoppedFirst, OneInHand, HasServer, QuitDrains

\* The end of a process: its connections and its server are gone.
LEMMA DrainEnds ==
    ASSUME DrainInv, NEW p \in Servers, Ends(p)
    PROVE  DrainInv'
<1>1. ASSUME NEW c \in Conns
      PROVE  conn'[c] = IF by[c] = p /\ conn[c] \in {"accepted", "handling"} THEN "lost"
                        ELSE IF Others(p) = {} /\ conn[c] = "queued" THEN "lost" ELSE conn[c]
  BY DEF Ends, Backlog
<1>2. STypeOK'
  <2>1. conn' \in [Conns -> {"new", "queued", "accepted", "handling", "done", "lost"}]
    BY DEF DrainInv, STypeOK, Ends, Backlog
  <2>2. /\ listener' \in [Servers -> {"none", "open", "closed"}]
        /\ serve' \in [Servers -> {"no", "fields", "accept", "sleep", "spawn", "returned", "failed"}]
        /\ quit' \in [Servers -> {"no", "read", "stuck", "wait", "select", "returned"}]
        /\ quitErr' \in [Servers -> BOOLEAN]
        /\ by' \in [Conns -> Servers \cup {None}]
    BY DEF DrainInv, STypeOK, Ends
  <2> QED
    BY <2>1, <2>2 DEF STypeOK
<1>3. /\ \A s \in Servers : /\ s # p => serve'[s] = serve[s] /\ quit'[s] = quit[s] /\ quitErr'[s] = quitErr[s]
                            /\ s = p => serve'[s] = "no" /\ quit'[s] = "no"
      /\ by' = by
  BY DEF DrainInv, STypeOK, Ends
<1>4. StoppedFirst'
  BY <1>3 DEF DrainInv, StoppedFirst
<1>5. OneInHand'
  BY <1>1, <1>3 DEF DrainInv, OneInHand
<1>6. HasServer'
  BY <1>1, <1>3, ServersAssumption DEF DrainInv, HasServer, STypeOK
<1>7. QuitDrains'
  BY <1>1, <1>3 DEF DrainInv, QuitDrains
<1> QED
  BY <1>2, <1>4, <1>5, <1>6, <1>7 DEF DrainInv

\* A step of Serve or of Quit moves the one, or the other.
LEMMA Moves ==
    ASSUME DrainInv, NEW s \in Servers, NEW from, NEW to
    PROVE  /\ ServeTo(s, from, to) => /\ serve[s] = from /\ serve'[s] = to
                                      /\ \A t \in Servers : t # s => serve'[t] = serve[t]
           /\ QuitTo(s, from, to) => /\ quit[s] = from /\ quit'[s] = to
                                     /\ \A t \in Servers : t # s => quit'[t] = quit[t]
BY DEF DrainInv, STypeOK, ServeTo, QuitTo

\* Steps of Serve without a connection in hand.
LEMMA DrainServe ==
    ASSUME DrainInv, NEW s \in Servers, NEW from \in {"no", "fields", "accept", "sleep"},
           NEW to \in {"fields", "accept", "sleep", "returned", "failed"},
           ServeTo(s, from, to), UNCHANGED <<listener, quit, quitErr, conn, by>>
    PROVE  DrainInv'
<1>1. STypeOK'
  BY DEF DrainInv, STypeOK, ServeTo
<1>2. StoppedFirst' /\ OneInHand' /\ HasServer' /\ QuitDrains'
  BY Moves DEF DrainInv, StoppedFirst, OneInHand, HasServer, QuitDrains
<1> QED
  BY <1>1, <1>2 DEF DrainInv

\* Accept hands one connection to Serve.
LEMMA DrainAccept ==
    ASSUME DrainInv, NEW s \in Servers, NEW c \in Conns, Accept(s, c)
    PROVE  DrainInv'
<1>1. STypeOK'
  BY DEF DrainInv, STypeOK, Accept, ServeTo
<1>2. /\ serve[s] = "accept" /\ serve'[s] = "spawn" /\ \A t \in Servers : t # s => serve'[t] = serve[t]
      /\ conn[c] = "queued" /\ conn'[c] = "accepted" /\ by'[c] = s
      /\ \A d \in Conns : d # c => conn'[d] = conn[d] /\ by'[d] = by[d]
      /\ quit' = quit /\ quitErr' = quitErr
  BY Moves DEF Accept, DrainInv, STypeOK
<1>3. StoppedFirst' /\ HasServer'
  BY <1>2 DEF DrainInv, StoppedFirst, HasServer
<1>4. OneInHand'
  BY <1>2 DEF DrainInv, OneInHand
<1>5. QuitDrains'
  BY <1>2 DEF DrainInv, QuitDrains, StoppedFirst
<1> QED
  BY <1>1, <1>3, <1>4, <1>5 DEF DrainInv

\* The handler takes the connection over.
LEMMA DrainSpawn ==
    ASSUME DrainInv, NEW s \in Servers, NEW c \in Conns, Spawn(s, c)
    PROVE  DrainInv'
<1>1. STypeOK'
  BY DEF DrainInv, STypeOK, Spawn, ServeTo
<1>2. /\ serve[s] = "spawn" /\ serve'[s] = "accept" /\ \A t \in Servers : t # s => serve'[t] = serve[t]
      /\ conn[c] = "accepted" /\ conn'[c] = "handling" /\ by[c] = s
      /\ \A d \in Conns : d # c => conn'[d] = conn[d]
      /\ quit' = quit /\ quitErr' = quitErr /\ by' = by
  BY Moves DEF Spawn, DrainInv, STypeOK
<1>3. StoppedFirst' /\ HasServer'
  BY <1>2 DEF DrainInv, StoppedFirst, HasServer
<1>4. OneInHand'
  BY <1>2 DEF DrainInv, OneInHand
<1>5. QuitDrains'
  BY <1>2 DEF DrainInv, QuitDrains
<1> QED
  BY <1>1, <1>3, <1>4, <1>5 DEF DrainInv

\* A connection changes before Accept or at the end of its handler.
LEMMA DrainConn ==
    ASSUME DrainInv, NEW c \in Conns, Connect(c) \/ HandlerDone(c)
    PROVE  DrainInv'
<1>1. STypeOK'
  BY DEF DrainInv, STypeOK, Connect, HandlerDone
<1>2. /\ (conn[c] = "new" /\ conn'[c] = "queued") \/ (conn[c] = "handling" /\ conn'[c] = "done")
      /\ \A d \in Conns : d # c => conn'[d] = conn[d]
      /\ quit' = quit /\ quitErr' = quitErr /\ by' = by /\ serve' = serve
  BY DEF Connect, HandlerDone, DrainInv, STypeOK
<1>3. StoppedFirst' /\ HasServer' /\ OneInHand' /\ QuitDrains'
  BY <1>2 DEF DrainInv, StoppedFirst, HasServer, OneInHand, QuitDrains
<1> QED
  BY <1>1, <1>3 DEF DrainInv

\* Quit closes the listener, and the connections in its backlog are lost.
LEMMA DrainClose ==
    ASSUME DrainInv, NEW s \in Servers, QuitClose(s)
    PROVE  DrainInv'
<1>1. /\ quit[s] = "no" /\ quit'[s] = "read" /\ \A t \in Servers : t # s => quit'[t] = quit[t]
      /\ \A c \in Conns : conn'[c] = conn[c] \/ (conn[c] = "queued" /\ conn'[c] = "lost")
      /\ quitErr' = quitErr /\ by' = by /\ serve' = serve
  BY Moves DEF QuitClose, Backlog
<1>2. STypeOK'
  <2>1. conn' \in [Conns -> {"new", "queued", "accepted", "handling", "done", "lost"}]
    BY DEF DrainInv, STypeOK, QuitClose, Backlog
  <2>2. listener' \in [Servers -> {"none", "open", "closed"}]
    BY DEF DrainInv, STypeOK, QuitClose
  <2>3. quit' \in [Servers -> {"no", "read", "stuck", "wait", "select", "returned"}]
    BY DEF DrainInv, STypeOK, QuitClose, QuitTo
  <2> QED
    BY <1>1, <2>1, <2>2, <2>3 DEF DrainInv, STypeOK
<1>3. StoppedFirst' /\ HasServer' /\ OneInHand' /\ QuitDrains'
  BY <1>1 DEF DrainInv, StoppedFirst, HasServer, OneInHand, QuitDrains
<1> QED
  BY <1>2, <1>3 DEF DrainInv

\* The rest of Quit: it comes to an end without an error when Serve has
\* stopped, so no connection is in its hand, and no handler is running.
LEMMA DrainQuit ==
    ASSUME DrainInv, NEW s \in Servers, QuitStep(s)
    PROVE  DrainInv'
<1>1. listener' = listener /\ serve' = serve /\ conn' = conn /\ by' = by
  BY DEF QuitStep, QuitRead, QuitWait, QuitDrained, QuitTimeout
<1>2. quitErr' \in [Servers -> BOOLEAN]
  BY DEF DrainInv, STypeOK, QuitStep, QuitRead, QuitWait, QuitDrained, QuitTimeout
<1>3. quit' \in [Servers -> {"no", "read", "stuck", "wait", "select", "returned"}]
  BY DEF DrainInv, STypeOK, QuitStep, QuitRead, QuitWait, QuitDrained, QuitTimeout, QuitTo
<1>4. STypeOK'
  BY <1>1, <1>2, <1>3 DEF DrainInv, STypeOK
<1>5. \A t \in Servers : t # s => quit'[t] = quit[t] /\ quitErr'[t] = quitErr[t]
  BY DEF DrainInv, STypeOK, QuitStep, QuitRead, QuitWait, QuitDrained, QuitTimeout, QuitTo
<1>6. /\ quit'[s] \in {"wait", "stuck"}
         \/ (quit'[s] = "select" /\ serve[s] \in {"returned", "failed"})
         \/ (quit[s] = "select" /\ quit'[s] = "returned" /\ quitErr'[s])
         \/ /\ quit[s] = "select" /\ quit'[s] = "returned"
            /\ \A c \in Conns : ~(by[c] = s /\ conn[c] = "handling")
  BY DEF DrainInv, STypeOK, QuitStep, QuitRead, QuitWait, QuitDrained, QuitTimeout, QuitTo
<1>7. StoppedFirst'
  BY <1>1, <1>5, <1>6 DEF DrainInv, StoppedFirst
<1>8. QuitDrains'
  <2> SUFFICES ASSUME NEW t \in Servers, quit'[t] = "returned", ~quitErr'[t], NEW c \in Conns, by[c] = t
               PROVE  conn[c] \notin {"accepted", "handling"}
    BY <1>1 DEF QuitDrains
  <2>1. CASE t # s
    BY <2>1, <1>5 DEF DrainInv, QuitDrains
  <2>2. CASE t = s
    <3>1. quit[s] = "select" /\ conn[c] # "handling"
      BY <2>2, <1>6
    <3>2. serve[s] \in {"returned", "failed"}
      BY <3>1 DEF DrainInv, StoppedFirst
    <3> QED
      BY <2>2, <3>1, <3>2 DEF DrainInv, OneInHand
  <2> QED
    BY <2>1, <2>2
<1>9. OneInHand' /\ HasServer'
  BY <1>1 DEF DrainInv, OneInHand, HasServer
<1> QED
  BY <1>4, <1>7, <1>8, <1>9 DEF DrainInv

\* Steps of the process alone.
LEMMA DrainSame == DrainInv /\ UNCHANGED svars => DrainInv'
BY DEF svars, DrainInv, STypeOK, StoppedFirst, OneInHand, HasServer, QuitDrains

-----------------------------------------------------------------------------
(* The steps of the processes.                                              *)

\* What steps of the servers leave as it is for the processes.
Onward == /\ \A s \in Servers : /\ quit[s] = "returned" => quit'[s] = "returned"
                                /\ serve[s] = "failed" => serve'[s] = "failed"
          /\ \A c \in Conns : conn'[c] = "lost" /\ by'[c] # None => conn[c] = "lost" /\ by'[c] = by[c]

\* A step of a server keeps the invariant of the servers and is onward.
LEMMA ServerOnward ==
    ASSUME DrainInv, NEW s \in Servers,
           ServeBegin(s) \/ ServeStep(s) \/ AcceptFails(s) \/ QuitClose(s) \/ QuitStep(s)
    PROVE  DrainInv' /\ Onward
<1>1. CASE ServeBegin(s) \/ ServeFields(s) \/ AcceptTemporary(s) \/ Wake(s) \/ AcceptClosed(s) \/ AcceptFails(s)
  <2>1. UNCHANGED <<listener, quit, quitErr, conn, by>>
    BY <1>1 DEF ServeBegin, ServeFields, AcceptTemporary, Wake, AcceptClosed, AcceptFails
  <2>2. PICK from \in {"no", "fields", "accept", "sleep"}, to \in {"fields", "accept", "sleep", "returned", "failed"} :
            ServeTo(s, from, to)
    BY <1>1 DEF ServeBegin, ServeFields, AcceptTemporary, Wake, AcceptClosed, AcceptFails
  <2>3. DrainInv'
    BY <2>1, <2>2, DrainServe
  <2> QED
    BY <2>1, <2>2, <2>3, Moves DEF Onward
<1>2. ASSUME NEW c \in Conns, Accept(s, c) PROVE DrainInv' /\ Onward
  <2>1. /\ serve[s] = "accept" /\ \A t \in Servers : t # s => serve'[t] = serve[t]
        /\ conn'[c] = "accepted" /\ \A d \in Conns : d # c => conn'[d] = conn[d] /\ by'[d] = by[d]
        /\ quit' = quit
    BY <1>2, Moves DEF Accept, DrainInv, STypeOK
  <2> QED
    BY <1>2, <2>1, DrainAccept DEF Onward
<1>3. ASSUME NEW c \in Conns, Spawn(s, c) PROVE DrainInv' /\ Onward
  <2>1. /\ serve[s] = "spawn" /\ \A t \in Servers : t # s => serve'[t] = serve[t]
        /\ conn'[c] = "handling" /\ \A d \in Conns : d # c => conn'[d] = conn[d]
        /\ quit' = quit /\ by' = by
    BY <1>3, Moves DEF Spawn, DrainInv, STypeOK
  <2> QED
    BY <1>3, <2>1, DrainSpawn DEF Onward
<1>4. CASE QuitClose(s)
  <2>1. /\ quit[s] = "no" /\ \A t \in Servers : t # s => quit'[t] = quit[t]
        /\ \A c \in Conns : conn'[c] = conn[c] \/ (conn[c] = "queued" /\ conn'[c] = "lost")
        /\ by' = by /\ serve' = serve
    BY <1>4, Moves DEF QuitClose, Backlog
  <2> QED
    BY <1>4, <2>1, DrainClose DEF Onward, DrainInv, HasServer
<1>5. CASE QuitStep(s)
  <2>1. /\ quit[s] # "returned" /\ \A t \in Servers : t # s => quit'[t] = quit[t]
        /\ conn' = conn /\ by' = by /\ serve' = serve
    BY <1>5, Moves DEF QuitStep, QuitRead, QuitWait, QuitDrained, QuitTimeout, QuitTo
  <2> QED
    BY <1>5, <2>1, DrainQuit DEF Onward
<1> QED
  BY <1>1, <1>2, <1>3, <1>4, <1>5 DEF ServeStep

\* So does a step of a connection.
LEMMA ConnOnward ==
    ASSUME DrainInv, NEW c \in Conns, Connect(c) \/ HandlerDone(c)
    PROVE  DrainInv' /\ Onward
<1>1. /\ conn'[c] # "lost" /\ \A d \in Conns : d # c => conn'[d] = conn[d]
      /\ quit' = quit /\ by' = by /\ serve' = serve
  BY DEF Connect, HandlerDone, DrainInv, STypeOK
<1> QED
  BY <1>1, DrainConn DEF Onward

\* And a step that changes the listeners at most.
LEMMA SameOnward ==
    ASSUME DrainInv, UNCHANGED <<serve, quit, quitErr, conn, by>>,
           UNCHANGED listener \/ \E s : listener' = [listener EXCEPT ![s] = "open"]
    PROVE  DrainInv' /\ Onward
<1>1. DrainInv'
  BY DrainListen, DrainSame DEF svars
<1> QED
  BY <1>1 DEF Onward

\* A process ends, perhaps because its child sent it a signal.
LEMMA ProcEnds ==
    ASSUME DrainInv, ProcInv, NEW p \in Servers, Alive(p), Ends(p),
           main' \in [Servers -> {"none", "boot", "listen", "spawn", "kill", "select", "returned", "exited"}],
           main'[p] = "exited",
           \A q \in Servers : q # p => main'[q] = main[q] \/ (main[q] = "kill" /\ main'[q] = "select"),
           restarted' \in {restarted, restarted \cup {p}},
           terminated' \subseteq Servers, broken' \in BOOLEAN
    PROVE  ProcInv'
<1>1. /\ \A q \in Servers : q # p => /\ serve'[q] = serve[q] /\ quit'[q] = quit[q] /\ notify'[q] = notify[q]
                                     /\ signals'[q] = signals[q] /\ errs'[q] = errs[q] /\ done'[q] = done[q]
                                     /\ result'[q] = result[q]
      /\ notify'[p] = "no" /\ signals'[p] = {} /\ errs'[p] = <<>> /\ ~done'[p] /\ by' = by
      /\ \A c \in Conns : conn'[c] = "lost" => conn[c] \in {"lost", "queued"} \/ by[c] = p
  BY DEF Ends, Backlog, ProcInv, ProcType, DrainInv, STypeOK
<1>2. ProcType'
  <2>1. restarted' \subseteq Servers
    BY DEF ProcInv, ProcType
  <2>2. /\ orphan' \in [Servers -> BOOLEAN]
        /\ notify' \in [Servers -> {"no", "start", "wait", "quit", "close", "report", "ended", "failed"}]
        /\ signals' \in [Servers -> SUBSET {"TERM", "USR2"}]
        /\ errs' \in [Servers -> Seq({"nil", "error"})]
        /\ done' \in [Servers -> BOOLEAN]
        /\ result' \in [Servers -> {"nil", "error", None}]
    BY DEF Ends, ProcInv, ProcType
  <2> QED
    BY <2>1, <2>2 DEF ProcType
<1>3. DoneAfterQuit'
  BY <1>1 DEF ProcInv, DoneAfterQuit
<1>4. NilOnRestart'
  <2> SUFFICES ASSUME NEW q \in Servers, q \notin restarted'
               PROVE  /\ "USR2" \notin signals'[q] /\ notify'[q] # "report"
                      /\ \A i \in 1 .. Len(errs'[q]) : errs'[q][i] # "nil"
                      /\ main'[q] = "returned" /\ result'[q] = "nil" => done'[q]
    BY DEF NilOnRestart
  <2>1. CASE q = p
    BY <2>1, <1>1
  <2>2. CASE q # p
    BY <2>2, <1>1 DEF ProcInv, NilOnRestart
  <2> QED
    BY <2>1, <2>2
<1>5. OneRestart'
  <2> SUFFICES ASSUME NEW q \in Servers, q + 1 \in Servers, q \notin restarted' \/ "USR2" \in signals'[q]
               PROVE  main'[q + 1] = "none"
    BY <1>1 DEF ProcInv, OneRestart
  <2>1. main[q + 1] = "none"
    BY <1>1 DEF ProcInv, OneRestart
  <2>2. q + 1 # p
    BY <2>1 DEF Alive
  <2> QED
    BY <2>1, <2>2
<1>6. LostAtEnd'
  BY <1>1 DEF ProcInv, LostAtEnd, DrainInv, HasServer, STypeOK
<1>7. RoomInErrs'
  <2> SUFFICES ASSUME NEW q \in Servers PROVE Len(errs'[q]) <= Sends(q)'
    BY DEF RoomInErrs
  <2>1. CASE q = p
    <3>1. Len(errs'[q]) = 0
      BY <2>1, <1>1
    <3> QED
      BY <3>1 DEF Sends
  <2>2. CASE q # p
    <3>1. Sends(q)' = Sends(q)
      BY <2>2, <1>1 DEF Sends, Reported
    <3> QED
      BY <2>2, <3>1, <1>1 DEF ProcInv, RoomInErrs
  <2> QED
    BY <2>1, <2>2
<1> QED
  BY <1>2, <1>3, <1>4, <1>5, <1>6, <1>7 DEF ProcInv


\* The sends to errs are counted by a number.
LEMMA SendsNat == ASSUME NEW q PROVE Sends(q) \in Nat /\ Sends(q)' \in Nat
BY DEF Sends

\* Nothing is sent.
Unsent == \A q \in Servers :
              /\ notify[q] \in {"close", "ended"} => notify'[q] \in {"close", "ended"}
              /\ q \in Reported => q \in Reported'
              /\ errs'[q] = errs[q] \/ (errs[q] # <<>> /\ errs'[q] = Tail(errs[q]))

\* A step that sends nothing leaves the room in errs.
LEMMA RoomKeeps == ProcInv /\ Onward /\ Unsent => RoomInErrs'
<1> USE DEF Unsent
<1> SUFFICES ASSUME ProcInv, Onward, Unsent PROVE RoomInErrs'
  OBVIOUS
<1> SUFFICES ASSUME NEW q \in Servers PROVE Len(errs'[q]) <= Sends(q)'
  BY DEF RoomInErrs
<1>1. Sends(q) <= Sends(q)'
  BY DEF Sends, Onward
<1>2. Len(errs[q]) \in Nat /\ Len(errs'[q]) \in Nat /\ Len(errs'[q]) <= Len(errs[q])
  <2>1. errs[q] \in Seq({"nil", "error"})
    BY DEF ProcInv, ProcType
  <2>2. CASE errs'[q] = errs[q]
    BY <2>1, <2>2, LenProperties
  <2>3. CASE errs[q] # <<>> /\ errs'[q] = Tail(errs[q])
    <3>1. Tail(errs[q]) \in Seq({"nil", "error"}) /\ Len(Tail(errs[q])) = Len(errs[q]) - 1
      BY <2>1, <2>3, HeadTailProperties
    <3>2. Len(errs[q]) \in Nat /\ Len(Tail(errs[q])) \in Nat
      BY <2>1, <3>1, LenProperties
    <3> QED
      BY <2>3, <3>1, <3>2
  <2> QED
    BY <2>2, <2>3
<1> QED
  BY <1>1, <1>2, SendsNat DEF ProcInv, RoomInErrs

\* Something is sent, for which there was room.
Sent(p, err) == /\ errs' = [errs EXCEPT ![p] = Append(@, err)]
                /\ Sends(p) + 1 <= Sends(p)'
                /\ \A q \in Servers : q # p => /\ notify'[q] = notify[q]
                                               /\ q \in Reported => q \in Reported'

\* A send takes one place, and there was one.
LEMMA RoomSends ==
    ASSUME ProcInv, Onward, NEW p \in Servers, NEW err \in {"nil", "error"}, Sent(p, err)
    PROVE  /\ RoomInErrs'
           /\ errs' \in [Servers -> Seq({"nil", "error"})]
           /\ \A q \in Servers : q # p => errs'[q] = errs[q]
           /\ err # "nil" /\ (\A i \in 1 .. Len(errs[p]) : errs[p][i] # "nil")
                  => \A i \in 1 .. Len(errs'[p]) : errs'[p][i] # "nil"
<1>1. errs \in [Servers -> Seq({"nil", "error"})]
  BY DEF ProcInv, ProcType
<1>2. errs[p] \in Seq({"nil", "error"}) /\ errs'[p] = Append(errs[p], err)
  BY <1>1 DEF Sent
<1>3. /\ errs'[p] \in Seq({"nil", "error"})
      /\ Len(errs'[p]) = Len(errs[p]) + 1
      /\ \A i \in 1 .. Len(errs[p]) : errs'[p][i] = errs[p][i]
      /\ errs'[p][Len(errs[p]) + 1] = err
      /\ Len(errs[p]) \in Nat
  BY <1>2, AppendProperties, LenProperties
<1>4. \A q \in Servers : q # p => errs'[q] = errs[q]
  BY <1>1 DEF Sent
<1>5. errs' \in [Servers -> Seq({"nil", "error"})]
  BY <1>1, <1>3 DEF Sent
<1>6. RoomInErrs'
  <2> SUFFICES ASSUME NEW q \in Servers PROVE Len(errs'[q]) <= Sends(q)'
    BY DEF RoomInErrs
  <2>1. Len(errs[q]) \in Nat /\ Len(errs[q]) <= Sends(q)
    BY <1>1, LenProperties DEF ProcInv, RoomInErrs
  <2>2. CASE q = p
    <3>1. Sends(p) + 1 <= Sends(p)'
      BY DEF Sent
    <3> QED
      BY <2>1, <2>2, <1>3, <3>1, SendsNat
  <2>3. CASE q # p
    <3>1. Sends(q) <= Sends(q)'
      BY <2>3 DEF Sends, Onward, Sent
    <3> QED
      BY <2>1, <2>3, <1>4, <3>1, SendsNat
  <2> QED
    BY <2>2, <2>3
<1>7. ASSUME err # "nil", \A i \in 1 .. Len(errs[p]) : errs[p][i] # "nil", NEW i \in 1 .. Len(errs'[p])
      PROVE  errs'[p][i] # "nil"
  BY <1>3, <1>7, SMTT(30)
<1> QED
  BY <1>4, <1>5, <1>6, <1>7

\* No connection is lost anew by a process that has not ended.
LEMMA LostStays ==
    ASSUME DrainInv, ProcInv, Onward, \A q \in Servers : main[q] = "exited" => main'[q] = "exited"
    PROVE  LostAtEnd'
BY DEF DrainInv, STypeOK, ProcInv, LostAtEnd, Onward

\* The steps that leave errs, the signals and what was asked of a process alone.
LEMMA ProcSame == DrainInv /\ ProcInv /\ Onward /\ UNCHANGED pvars => ProcInv'
<1> SUFFICES ASSUME DrainInv, ProcInv, Onward, UNCHANGED pvars PROVE ProcInv'
  OBVIOUS
<1>1. ProcType' /\ DoneAfterQuit' /\ NilOnRestart' /\ OneRestart' /\ LostAtEnd'
  BY DEF pvars, asked, Onward, ProcInv, ProcType, DoneAfterQuit, NilOnRestart, OneRestart, LostAtEnd
<1>2. RoomInErrs'
  BY RoomKeeps DEF pvars, asked, Reported, Unsent
<1> QED
  BY <1>1, <1>2 DEF ProcInv

\* Steps of the main goroutine but those that end the process.
LEMMA ProcMain ==
    ASSUME DrainInv, ProcInv, Onward, NEW p \in Servers, Boot(p) \/ Listen(p) \/ ListenFails(p) \/ Go(p) \/ KillNobody(p) \/ KillFails(p)
    PROVE  ProcInv'
<1>1. ProcType'
  BY DEF ProcInv, ProcType, Onward, MainTo, NotifyTo, Return, asked, Boot, Listen, ListenFails, Go, KillNobody, KillFails
<1>2. DoneAfterQuit'
  BY DEF ProcInv, DoneAfterQuit, ProcType, Onward, MainTo, NotifyTo, Return, asked, Boot, Listen, ListenFails, Go, KillNobody, KillFails
<1>3. NilOnRestart'
  BY DEF ProcInv, NilOnRestart, ProcType, DoneAfterQuit, Onward, MainTo, NotifyTo, Return, asked, Boot, Listen, ListenFails, Go, KillNobody, KillFails
<1>4. OneRestart'
  BY DEF ProcInv, OneRestart, ProcType, NilOnRestart, Onward, MainTo, NotifyTo, Return, asked, Boot, Listen, ListenFails, Go, KillNobody, KillFails
<1>5. LostAtEnd'
  <2>1. \A q \in Servers : main[q] = "exited" => main'[q] = "exited"
    BY DEF ProcInv, ProcType, OneRestart, MainTo, NotifyTo, Return, asked, Boot, Listen, ListenFails, Go, KillNobody, KillFails
  <2> QED
    BY <2>1, LostStays
<1>6. RoomInErrs'
  <2>1. Unsent
    BY DEF Unsent, ProcInv, ProcType, NilOnRestart, Reported, MainTo, NotifyTo, Return, asked, Boot, Listen, ListenFails, Go, KillNobody, KillFails
  <2> QED
    BY <2>1, RoomKeeps
<1> QED
  BY <1>1, <1>2, <1>3, <1>4, <1>5, <1>6 DEF ProcInv

\* Serve's select on done.
LEMMA ProcSelectDone ==
    ASSUME DrainInv, ProcInv, Onward, NEW p \in Servers, SelectDone(p)
    PROVE  ProcInv'
<1>1. ProcType'
  BY DEF ProcInv, ProcType, Onward, MainTo, Return, asked, SelectDone
<1>2. DoneAfterQuit'
  BY DEF ProcInv, DoneAfterQuit, ProcType, Onward, MainTo, Return, asked, SelectDone
<1>3. NilOnRestart'
  BY DEF ProcInv, NilOnRestart, ProcType, DoneAfterQuit, Onward, MainTo, Return, asked, SelectDone
<1>4. OneRestart'
  BY DEF ProcInv, OneRestart, ProcType, NilOnRestart, Onward, MainTo, Return, asked, SelectDone
<1>5. LostAtEnd'
  <2>1. \A q \in Servers : main[q] = "exited" => main'[q] = "exited"
    BY DEF ProcInv, ProcType, OneRestart, MainTo, Return, asked, SelectDone
  <2> QED
    BY <2>1, LostStays
<1>6. RoomInErrs'
  <2>1. Unsent
    BY DEF Unsent, ProcInv, ProcType, NilOnRestart, Reported, MainTo, Return, asked, SelectDone
  <2> QED
    BY <2>1, RoomKeeps
<1> QED
  BY <1>1, <1>2, <1>3, <1>4, <1>5, <1>6 DEF ProcInv

\* Steps of the notify goroutine that send nothing.
LEMMA ProcRegister ==
    ASSUME DrainInv, ProcInv, Onward, NEW p \in Servers, Register(p) \/ TakeTerm(p) \/ CloseDone(p)
    PROVE  ProcInv'
<1>1. ProcType'
  <2> USE DEF ProcInv, ProcType, NotifyTo, asked
  <2>1. CASE Register(p)
    BY <2>1 DEF Register
  <2>2. CASE TakeTerm(p)
    BY <2>2 DEF TakeTerm
  <2>3. CASE CloseDone(p)
    BY <2>3 DEF CloseDone
  <2> QED
    BY <2>1, <2>2, <2>3
<1>2. DoneAfterQuit'
  BY DEF ProcInv, DoneAfterQuit, ProcType, Onward, NotifyTo, asked, Register, TakeTerm, CloseDone
<1>3. NilOnRestart'
  BY DEF ProcInv, NilOnRestart, ProcType, DoneAfterQuit, Onward, NotifyTo, asked, Register, TakeTerm, CloseDone
<1>4. OneRestart'
  <2>1. \A q \in Servers : "USR2" \in signals'[q] => "USR2" \in signals[q]
    <3>1. \/ signals' = signals
          \/ signals' = [signals EXCEPT ![p] = @ \ {"TERM"}]
      BY DEF Register, TakeTerm, CloseDone, asked
    <3> QED
      BY <3>1 DEF ProcInv, ProcType
  <2>2. main' = main /\ restarted' = restarted /\ \A q \in Servers : notify'[q] = "report" => notify[q] = "report"
    BY DEF ProcInv, ProcType, Register, TakeTerm, CloseDone, NotifyTo, asked
  <2> QED
    BY <2>1, <2>2 DEF ProcInv, OneRestart
<1>5. LostAtEnd'
  <2>1. \A q \in Servers : main[q] = "exited" => main'[q] = "exited"
    BY DEF ProcInv, ProcType, OneRestart, NotifyTo, asked, Register, TakeTerm, CloseDone
  <2> QED
    BY <2>1, LostStays
<1>6. RoomInErrs'
  <2>1. Unsent
    BY DEF Unsent, ProcInv, ProcType, NilOnRestart, Reported, NotifyTo, asked, Register, TakeTerm, CloseDone
  <2> QED
    BY <2>1, RoomKeeps
<1> QED
  BY <1>1, <1>2, <1>3, <1>4, <1>5, <1>6 DEF ProcInv

\* The child is started.
LEMMA ProcTakeRestart ==
    ASSUME DrainInv, ProcInv, Onward, NEW p \in Servers, TakeRestart(p)
    PROVE  ProcInv'
<1>1. ProcType'
  BY DEF ProcInv, ProcType, Onward, NotifyTo, asked, TakeRestart
<1>2. DoneAfterQuit'
  BY DEF ProcInv, DoneAfterQuit, ProcType, Onward, NotifyTo, asked, TakeRestart
<1>3. NilOnRestart'
  BY DEF ProcInv, NilOnRestart, ProcType, DoneAfterQuit, Onward, NotifyTo, asked, TakeRestart
<1>4. OneRestart'
  <2>1. /\ \A q \in Servers : q # p => signals'[q] = signals[q]
        /\ "USR2" \notin signals'[p] /\ "USR2" \in signals[p]
        /\ \A q \in Servers : q # p + 1 => main'[q] = main[q]
        /\ restarted' = restarted /\ p \in restarted
        /\ \A q \in Servers : q # p => notify'[q] = notify[q]
    BY DEF ProcInv, ProcType, NilOnRestart, TakeRestart, NotifyTo, asked
  <2>2. \A q \in Servers : q # p => q + 1 # p + 1
    BY GenerationsAssumption
  <2> QED
    BY <2>1, <2>2 DEF ProcInv, OneRestart
<1>5. LostAtEnd'
  <2>1. \A q \in Servers : main[q] = "exited" => main'[q] = "exited"
    BY DEF ProcInv, ProcType, OneRestart, NotifyTo, asked, TakeRestart
  <2> QED
    BY <2>1, LostStays
<1>6. RoomInErrs'
  <2>1. Unsent
    BY DEF Unsent, ProcInv, ProcType, NilOnRestart, Reported, NotifyTo, asked, TakeRestart
  <2> QED
    BY <2>1, RoomKeeps
<1> QED
  BY <1>1, <1>2, <1>3, <1>4, <1>5, <1>6 DEF ProcInv

\* Serve's select on errs.
LEMMA ProcSelectErr ==
    ASSUME DrainInv, ProcInv, Onward, NEW p \in Servers, SelectErr(p)
    PROVE  ProcInv'
<1>1. ProcType'
  BY DEF ProcInv, ProcType, Onward, MainTo, Return, asked, SelectErr
<1>2. DoneAfterQuit'
  BY DEF ProcInv, DoneAfterQuit, ProcType, Onward, MainTo, Return, asked, SelectErr
<1>3. NilOnRestart'
  BY DEF ProcInv, NilOnRestart, ProcType, DoneAfterQuit, Onward, MainTo, Return, asked, SelectErr
<1>4. OneRestart'
  BY DEF ProcInv, OneRestart, ProcType, NilOnRestart, Onward, MainTo, Return, asked, SelectErr
<1>5. LostAtEnd'
  <2>1. \A q \in Servers : main[q] = "exited" => main'[q] = "exited"
    BY DEF ProcInv, ProcType, OneRestart, MainTo, Return, asked, SelectErr
  <2> QED
    BY <2>1, LostStays
<1>6. RoomInErrs'
  <2>1. Unsent
    BY DEF Unsent, ProcInv, ProcType, NilOnRestart, Reported, MainTo, Return, asked, SelectErr
  <2> QED
    BY <2>1, RoomKeeps
<1> QED
  BY <1>1, <1>2, <1>3, <1>4, <1>5, <1>6 DEF ProcInv

\* Quit's error is sent.
LEMMA ProcQuitErr ==
    ASSUME DrainInv, ProcInv, Onward, NEW p \in Servers, quitErr[p], QuitEnds(p)
    PROVE  ProcInv'
<1>1. Sent(p, "error")
  <2>1. /\ errs' = [errs EXCEPT ![p] = Append(@, "error")]
        /\ \A q \in Servers : q # p => notify'[q] = notify[q] /\ (q \in Reported => q \in Reported')
    BY DEF ProcInv, ProcType, Reported, asked, NotifyTo, QuitEnds
  <2>2. Sends(p) + 1 <= Sends(p)'
    BY DEF Sends, Reported, Onward, DrainInv, STypeOK, ProcInv, ProcType, NilOnRestart, OneRestart, asked, NotifyTo, QuitEnds
  <2> QED
    BY <2>1, <2>2 DEF Sent
<1>2. /\ RoomInErrs'
      /\ errs' \in [Servers -> Seq({"nil", "error"})]
      /\ \A q \in Servers : q # p => errs'[q] = errs[q]
      /\ (\A i \in 1 .. Len(errs[p]) : errs[p][i] # "nil")
              => p \in restarted \/ \A i \in 1 .. Len(errs'[p]) : errs'[p][i] # "nil"
  BY <1>1, RoomSends DEF ProcInv, NilOnRestart, asked, NotifyTo, QuitEnds
<1>3. ProcType'
  BY <1>2 DEF ProcInv, ProcType, asked, NotifyTo, QuitEnds
<1>4. DoneAfterQuit'
  BY DEF ProcInv, ProcType, DoneAfterQuit, Onward, asked, NotifyTo, QuitEnds
<1>5. NilOnRestart'
  BY <1>2 DEF ProcInv, ProcType, NilOnRestart, asked, NotifyTo, QuitEnds
<1>6. OneRestart' /\ LostAtEnd'
  <2>1. /\ main' = main /\ restarted' = restarted
        /\ \A q \in Servers : /\ "USR2" \in signals'[q] => "USR2" \in signals[q]
                              /\ notify'[q] = "report" => notify[q] = "report"
    BY DEF ProcInv, ProcType, asked, NotifyTo, QuitEnds
  <2>2. OneRestart'
    <3>1. ASSUME NEW q \in Servers, q + 1 \in Servers, q \notin restarted' \/ "USR2" \in signals'[q]
          PROVE  main'[q + 1] = "none"
      BY <2>1, <3>1 DEF ProcInv, OneRestart
    <3>2. ASSUME NEW q \in Servers, notify'[q] = "report" PROVE "USR2" \notin signals'[q]
      BY <2>1, <3>2 DEF ProcInv, OneRestart
    <3> QED
      BY <3>1, <3>2 DEF OneRestart
  <2>3. LostAtEnd'
    BY <2>1, LostStays
  <2> QED
    BY <2>2, <2>3
<1> QED
  BY <1>2, <1>3, <1>4, <1>5, <1>6 DEF ProcInv

\* Quit had no error.
LEMMA ProcQuitEnds ==
    ASSUME DrainInv, ProcInv, Onward, NEW p \in Servers, ~quitErr[p], QuitEnds(p)
    PROVE  ProcInv'
<1>1. ProcType'
  BY DEF ProcInv, ProcType, Onward, NotifyTo, asked, QuitEnds
<1>2. DoneAfterQuit'
  BY DEF ProcInv, DoneAfterQuit, ProcType, Onward, NotifyTo, asked, QuitEnds
<1>3. NilOnRestart'
  BY DEF ProcInv, NilOnRestart, ProcType, DoneAfterQuit, Onward, NotifyTo, asked, QuitEnds
<1>4. OneRestart'
  BY DEF ProcInv, OneRestart, ProcType, NilOnRestart, Onward, NotifyTo, asked, QuitEnds
<1>5. LostAtEnd'
  <2>1. \A q \in Servers : main[q] = "exited" => main'[q] = "exited"
    BY DEF ProcInv, ProcType, OneRestart, NotifyTo, asked, QuitEnds
  <2> QED
    BY <2>1, LostStays
<1>6. RoomInErrs'
  <2>1. Unsent
    BY DEF Unsent, ProcInv, ProcType, NilOnRestart, Reported, NotifyTo, asked, QuitEnds
  <2> QED
    BY <2>1, RoomKeeps
<1> QED
  BY <1>1, <1>2, <1>3, <1>4, <1>5, <1>6 DEF ProcInv

\* The outcome of a restart is sent.
LEMMA ProcReport ==
    ASSUME DrainInv, ProcInv, Onward, NEW p \in Servers, Report(p)
    PROVE  ProcInv'
<1>1. Sent(p, "nil")
  <2>1. /\ errs' = [errs EXCEPT ![p] = Append(@, "nil")]
        /\ \A q \in Servers : q # p => notify'[q] = notify[q] /\ (q \in Reported => q \in Reported')
    BY DEF ProcInv, ProcType, Reported, asked, NotifyTo, Send, Report
  <2>2. Sends(p) + 1 <= Sends(p)'
    BY DEF Sends, Reported, Onward, DrainInv, STypeOK, ProcInv, ProcType, NilOnRestart, OneRestart, asked, NotifyTo, Send, Report
  <2> QED
    BY <2>1, <2>2 DEF Sent
<1>2. /\ RoomInErrs'
      /\ errs' \in [Servers -> Seq({"nil", "error"})]
      /\ \A q \in Servers : q # p => errs'[q] = errs[q]
      /\ (\A i \in 1 .. Len(errs[p]) : errs[p][i] # "nil")
              => p \in restarted \/ \A i \in 1 .. Len(errs'[p]) : errs'[p][i] # "nil"
  BY <1>1, RoomSends DEF ProcInv, NilOnRestart, asked, NotifyTo, Send, Report
<1>3. ProcType'
  BY <1>2 DEF ProcInv, ProcType, asked, NotifyTo, Send, Report
<1>4. DoneAfterQuit'
  BY DEF ProcInv, ProcType, DoneAfterQuit, Onward, asked, NotifyTo, Send, Report
<1>5. NilOnRestart'
  BY <1>2 DEF ProcInv, ProcType, NilOnRestart, asked, NotifyTo, Send, Report
<1>6. OneRestart' /\ LostAtEnd'
  <2>1. /\ main' = main /\ restarted' = restarted
        /\ \A q \in Servers : /\ "USR2" \in signals'[q] => "USR2" \in signals[q]
                              /\ notify'[q] = "report" => notify[q] = "report"
    BY DEF ProcInv, ProcType, asked, NotifyTo, Send, Report
  <2>2. OneRestart'
    <3>1. ASSUME NEW q \in Servers, q + 1 \in Servers, q \notin restarted' \/ "USR2" \in signals'[q]
          PROVE  main'[q + 1] = "none"
      BY <2>1, <3>1 DEF ProcInv, OneRestart
    <3>2. ASSUME NEW q \in Servers, notify'[q] = "report" PROVE "USR2" \notin signals'[q]
      BY <2>1, <3>2 DEF ProcInv, OneRestart
    <3> QED
      BY <3>1, <3>2 DEF OneRestart
  <2>3. LostAtEnd'
    BY <2>1, LostStays
  <2> QED
    BY <2>2, <2>3
<1> QED
  BY <1>2, <1>3, <1>4, <1>5, <1>6 DEF ProcInv

\* The failure of a restart is sent.
LEMMA ProcRestartFails ==
    ASSUME DrainInv, ProcInv, Onward, NEW p \in Servers, RestartFails(p)
    PROVE  ProcInv'
<1>1. Sent(p, "error")
  <2>1. /\ errs' = [errs EXCEPT ![p] = Append(@, "error")]
        /\ \A q \in Servers : q # p => notify'[q] = notify[q] /\ (q \in Reported => q \in Reported')
    BY DEF ProcInv, ProcType, Reported, asked, NotifyTo, Send, RestartFails
  <2>2. Sends(p) + 1 <= Sends(p)'
    BY DEF Sends, Reported, Onward, DrainInv, STypeOK, ProcInv, ProcType, NilOnRestart, OneRestart, asked, NotifyTo, Send, RestartFails
  <2> QED
    BY <2>1, <2>2 DEF Sent
<1>2. /\ RoomInErrs'
      /\ errs' \in [Servers -> Seq({"nil", "error"})]
      /\ \A q \in Servers : q # p => errs'[q] = errs[q]
      /\ (\A i \in 1 .. Len(errs[p]) : errs[p][i] # "nil")
              => p \in restarted \/ \A i \in 1 .. Len(errs'[p]) : errs'[p][i] # "nil"
  BY <1>1, RoomSends DEF ProcInv, NilOnRestart, asked, NotifyTo, Send, RestartFails
<1>3. ProcType'
  BY <1>2 DEF ProcInv, ProcType, asked, NotifyTo, Send, RestartFails
<1>4. DoneAfterQuit'
  BY DEF ProcInv, ProcType, DoneAfterQuit, Onward, asked, NotifyTo, Send, RestartFails
<1>5. NilOnRestart'
  BY <1>2 DEF ProcInv, ProcType, NilOnRestart, asked, NotifyTo, Send, RestartFails
<1>6. OneRestart' /\ LostAtEnd'
  <2>1. /\ main' = main /\ restarted' = restarted
        /\ \A q \in Servers : /\ "USR2" \in signals'[q] => "USR2" \in signals[q]
                              /\ notify'[q] = "report" => notify[q] = "report"
    BY DEF ProcInv, ProcType, asked, NotifyTo, Send, RestartFails
  <2>2. OneRestart'
    <3>1. ASSUME NEW q \in Servers, q + 1 \in Servers, q \notin restarted' \/ "USR2" \in signals'[q]
          PROVE  main'[q + 1] = "none"
      BY <2>1, <3>1 DEF ProcInv, OneRestart
    <3>2. ASSUME NEW q \in Servers, notify'[q] = "report" PROVE "USR2" \notin signals'[q]
      BY <2>1, <3>2 DEF ProcInv, OneRestart
    <3> QED
      BY <3>1, <3>2 DEF OneRestart
  <2>3. LostAtEnd'
    BY <2>1, LostStays
  <2> QED
    BY <2>2, <2>3
<1> QED
  BY <1>2, <1>3, <1>4, <1>5, <1>6 DEF ProcInv

\* The error of Serve is sent.
LEMMA ProcServeError ==
    ASSUME DrainInv, ProcInv, Onward, NEW p \in Servers, ServeError(p)
    PROVE  ProcInv'
<1>1. Sent(p, "error")
  <2>1. /\ errs' = [errs EXCEPT ![p] = Append(@, "error")]
        /\ \A q \in Servers : q # p => notify'[q] = notify[q] /\ (q \in Reported => q \in Reported')
    BY DEF ProcInv, ProcType, Reported, asked, ServeTo, Send, AcceptFails, ServeError
  <2>2. Sends(p) + 1 <= Sends(p)'
    BY DEF Sends, Reported, Onward, DrainInv, STypeOK, ProcInv, ProcType, NilOnRestart, OneRestart, asked, ServeTo, Send, AcceptFails, ServeError
  <2> QED
    BY <2>1, <2>2 DEF Sent
<1>2. /\ RoomInErrs'
      /\ errs' \in [Servers -> Seq({"nil", "error"})]
      /\ \A q \in Servers : q # p => errs'[q] = errs[q]
      /\ (\A i \in 1 .. Len(errs[p]) : errs[p][i] # "nil")
              => p \in restarted \/ \A i \in 1 .. Len(errs'[p]) : errs'[p][i] # "nil"
  BY <1>1, RoomSends DEF ProcInv, NilOnRestart, asked, ServeTo, Send, AcceptFails, ServeError
<1>3. ProcType'
  BY <1>2 DEF ProcInv, ProcType, asked, ServeTo, Send, AcceptFails, ServeError
<1>4. DoneAfterQuit'
  BY DEF ProcInv, ProcType, DoneAfterQuit, Onward, asked, ServeTo, Send, AcceptFails, ServeError
<1>5. NilOnRestart'
  BY <1>2 DEF ProcInv, ProcType, NilOnRestart, asked, ServeTo, Send, AcceptFails, ServeError
<1>6. OneRestart' /\ LostAtEnd'
  <2>1. /\ main' = main /\ restarted' = restarted
        /\ \A q \in Servers : /\ "USR2" \in signals'[q] => "USR2" \in signals[q]
                              /\ notify'[q] = "report" => notify[q] = "report"
    BY DEF ProcInv, ProcType, asked, ServeTo, Send, AcceptFails, ServeError
  <2>2. OneRestart'
    <3>1. ASSUME NEW q \in Servers, q + 1 \in Servers, q \notin restarted' \/ "USR2" \in signals'[q]
          PROVE  main'[q + 1] = "none"
      BY <2>1, <3>1 DEF ProcInv, OneRestart
    <3>2. ASSUME NEW q \in Servers, notify'[q] = "report" PROVE "USR2" \notin signals'[q]
      BY <2>1, <3>2 DEF ProcInv, OneRestart
    <3> QED
      BY <3>1, <3>2 DEF OneRestart
  <2>3. LostAtEnd'
    BY <2>1, LostStays
  <2> QED
    BY <2>2, <2>3
<1> QED
  BY <1>2, <1>3, <1>4, <1>5, <1>6 DEF ProcInv

\* A signal is put into sigch: from a user, or SIGTERM from the child.
LEMMA ProcSignal ==
    ASSUME DrainInv, ProcInv, Onward, NEW p \in Servers, NEW sig \in {"TERM", "USR2"}, Alive(p),
           signals' = [signals EXCEPT ![p] = @ \cup {sig}],
           UNCHANGED <<orphan, notify, errs, done, result, broken>>,
           \A q \in Servers : main'[q] = main[q] \/ (main[q] = "kill" /\ main'[q] = "select"),
           main' \in [Servers -> {"none", "boot", "listen", "spawn", "kill", "select", "returned", "exited"}],
           terminated' \subseteq Servers,
           sig = "TERM" => restarted' = restarted,
           sig = "USR2" => p \notin restarted /\ restarted' = restarted \cup {p}
    PROVE  ProcInv'
<1>1. signals' \in [Servers -> SUBSET {"TERM", "USR2"}] /\ restarted' \subseteq Servers
  BY DEF ProcInv, ProcType
<1>2. /\ \A q \in Servers : q # p => signals'[q] = signals[q] /\ (q \in restarted' <=> q \in restarted)
      /\ sig = "TERM" => "USR2" \in signals'[p] <=> "USR2" \in signals[p]
      /\ sig = "USR2" => "USR2" \in signals'[p]
  BY DEF ProcInv, ProcType
<1>3. ProcType' /\ DoneAfterQuit'
  BY <1>1 DEF ProcInv, ProcType, DoneAfterQuit, Onward
<1>4. NilOnRestart'
  BY <1>2 DEF ProcInv, NilOnRestart
<1>5. OneRestart'
  <2>1. \A q \in Servers : main[q] = "none" => main'[q] = "none"
    OBVIOUS
  <2>2. \A q \in Servers : q \notin restarted' \/ "USR2" \in signals'[q] => q \notin restarted \/ "USR2" \in signals[q]
    BY <1>2
  <2>3. \A q \in Servers : notify[q] = "report" => "USR2" \notin signals'[q]
    BY <1>2 DEF ProcInv, OneRestart, NilOnRestart
  <2> QED
    BY <2>1, <2>2, <2>3 DEF ProcInv, OneRestart
<1>6. LostAtEnd'
  <2>1. \A q \in Servers : main[q] = "exited" => main'[q] = "exited"
    OBVIOUS
  <2> QED
    BY <2>1, LostStays
<1>7. RoomInErrs'
  <2>1. \A q \in Servers : q \in Reported => q \in Reported'
    BY <1>2 DEF Reported
  <2>2. Unsent
    BY <2>1 DEF Unsent
  <2> QED
    BY <2>2, RoomKeeps
<1> QED
  BY <1>3, <1>4, <1>5, <1>6, <1>7 DEF ProcInv

\* A user sends a signal to a process that may be ready for it or not.
LEMMA UserSignals == DrainInv /\ ProcInv /\ (\E p \in Servers : UserTerm(p) \/ UserRestart(p)) => DrainInv' /\ ProcInv'
<1> SUFFICES ASSUME DrainInv, ProcInv, NEW p \in Servers, UserTerm(p) \/ UserRestart(p)
             PROVE  DrainInv' /\ ProcInv'
  OBVIOUS
<1>1. PICK sig \in {"TERM", "USR2"} :
          /\ Deliver(p, sig) /\ Alive(p) /\ broken' = broken
          /\ sig = "TERM" => restarted' = restarted /\ terminated' = terminated \cup {p}
          /\ sig = "USR2" => p \notin restarted /\ restarted' = restarted \cup {p} /\ terminated' = terminated
  BY DEF UserTerm, UserRestart, MaySignal
<1>2. terminated' \subseteq Servers /\ broken' \in BOOLEAN /\ restarted' \in {restarted, restarted \cup {p}}
  BY <1>1 DEF ProcInv, ProcType
<1>3. CASE Registered(p) /\ signals' = [signals EXCEPT ![p] = @ \cup {sig}]
           /\ UNCHANGED <<svars, main, orphan, notify, errs, done, result>>
  <2>1. DrainInv' /\ Onward
    BY <1>3, SameOnward DEF svars
  <2>2. main' \in [Servers -> {"none", "boot", "listen", "spawn", "kill", "select", "returned", "exited"}]
    BY <1>3 DEF ProcInv, ProcType
  <2> QED
    BY <1>1, <1>2, <1>3, <2>1, <2>2, ProcSignal
<1>4. CASE main' = [main EXCEPT ![p] = "exited"] /\ Ends(p)
  <2>1. /\ main' \in [Servers -> {"none", "boot", "listen", "spawn", "kill", "select", "returned", "exited"}]
        /\ main'[p] = "exited" /\ \A q \in Servers : q # p => main'[q] = main[q]
    BY <1>4 DEF ProcInv, ProcType
  <2> QED
    BY <1>1, <1>2, <1>4, <2>1, DrainEnds, ProcEnds
<1> QED
  BY <1>1, <1>3, <1>4 DEF Deliver

\* The child tells its parent to exit.
LEMMA KillsParent == ASSUME DrainInv, ProcInv, NEW p \in Servers, KillParent(p) PROVE DrainInv' /\ ProcInv'
<1>1. p - 1 \in Servers /\ p - 1 # p
  BY GenerationsAssumption DEF KillParent, HasParent
<1>2. Alive(p - 1) /\ main[p] = "kill" /\ UNCHANGED <<restarted, terminated, broken>>
  BY DEF KillParent, asked
<1>3. terminated' \subseteq Servers /\ broken' \in BOOLEAN
  BY <1>2 DEF ProcInv, ProcType
<1>4. CASE /\ signals' = [signals EXCEPT ![p - 1] = @ \cup {"TERM"}]
           /\ main' = [main EXCEPT ![p] = "select"]
           /\ UNCHANGED <<svars, orphan, notify, errs, done, result>>
  <2>1. DrainInv' /\ Onward
    BY <1>4, SameOnward DEF svars
  <2>2. /\ main' \in [Servers -> {"none", "boot", "listen", "spawn", "kill", "select", "returned", "exited"}]
        /\ \A q \in Servers : main'[q] = main[q] \/ (main[q] = "kill" /\ main'[q] = "select")
    BY <1>2, <1>4 DEF ProcInv, ProcType
  <2>3. UNCHANGED <<orphan, notify, errs, done, result, broken>> /\ restarted' = restarted
    BY <1>2, <1>4
  <2> QED
    BY <1>1, <1>2, <1>3, <1>4, <2>1, <2>2, <2>3, ProcSignal
<1>5. CASE main' = [main EXCEPT ![p] = "select", ![p - 1] = "exited"] /\ Ends(p - 1)
  <2>1. /\ main' \in [Servers -> {"none", "boot", "listen", "spawn", "kill", "select", "returned", "exited"}]
        /\ main'[p - 1] = "exited"
        /\ \A q \in Servers : q # p - 1 => main'[q] = main[q] \/ (main[q] = "kill" /\ main'[q] = "select")
    BY <1>1, <1>2, <1>5 DEF ProcInv, ProcType
  <2> QED
    BY <1>1, <1>2, <1>3, <1>5, <2>1, DrainEnds, ProcEnds
<1> QED
  BY <1>4, <1>5 DEF KillParent

\* The program exits.
LEMMA Exits == ASSUME DrainInv, ProcInv, NEW p \in Servers, Exit(p) PROVE DrainInv' /\ ProcInv'
<1>1. /\ main' \in [Servers -> {"none", "boot", "listen", "spawn", "kill", "select", "returned", "exited"}]
      /\ main'[p] = "exited" /\ \A q \in Servers : q # p => main'[q] = main[q]
      /\ Alive(p) /\ Ends(p)
      /\ UNCHANGED <<restarted, terminated, broken>>
  BY DEF Exit, MainTo, Alive, asked, ProcInv, ProcType
<1>2. terminated' \subseteq Servers /\ broken' \in BOOLEAN
  BY <1>1 DEF ProcInv, ProcType
<1> QED
  BY <1>1, <1>2, DrainEnds, ProcEnds

\* The other steps of the processes leave the servers to themselves.
LEMMA ProcSteps ==
    ASSUME DrainInv, ProcInv, NEW p \in Servers,
           \/ Boot(p) \/ Listen(p) \/ ListenFails(p) \/ Go(p) \/ KillNobody(p) \/ KillFails(p)
           \/ SelectErr(p) \/ SelectDone(p)
           \/ Register(p) \/ TakeTerm(p) \/ QuitEnds(p) \/ CloseDone(p) \/ TakeRestart(p) \/ Report(p)
           \/ RestartFails(p)
    PROVE  DrainInv' /\ ProcInv'
<1>1. /\ UNCHANGED <<serve, quit, quitErr, conn, by>>
      /\ UNCHANGED listener \/ \E s : listener' = [listener EXCEPT ![s] = "open"]
  BY DEF svars, Boot, Listen, ListenFails, Go, KillNobody, KillFails, SelectErr, SelectDone,
         Register, TakeTerm, QuitEnds, CloseDone, TakeRestart, Report, RestartFails
<1>2. DrainInv' /\ Onward
  BY <1>1, SameOnward
<1> QED
  BY <1>2, ProcMain, ProcSelectErr, ProcSelectDone, ProcRegister, ProcTakeRestart, ProcQuitErr, ProcQuitEnds,
     ProcReport, ProcRestartFails

\* Every step of one server keeps the invariant.
LEMMA ServerSteps ==
    ASSUME DrainInv, ProcInv, NEW p \in Servers,
           ServerStep(p) \/ QuittingStep(p) \/ Quit(p) \/ ServeError(p)
    PROVE  DrainInv' /\ ProcInv'
<1>1. ServeBegin(p) \/ ServeStep(p) \/ AcceptFails(p) \/ QuitClose(p) \/ QuitStep(p)
  BY DEF ServerStep, QuittingStep, Quit, ServeError
<1>2. DrainInv' /\ Onward
  BY <1>1, ServerOnward
<1>3. UNCHANGED pvars \/ ServeError(p)
  BY DEF ServerStep, QuittingStep, Quit
<1> QED
  BY <1>2, <1>3, ProcSame, ProcServeError

-----------------------------------------------------------------------------
(* The theorems.                                                            *)

LEMMA StepKeeps == ServerInv /\ [Next]_vars => ServerInv'
<1> SUFFICES ASSUME DrainInv, ProcInv, [Next]_vars PROVE DrainInv' /\ ProcInv'
  BY DEF ServerInv
<1>1. ASSUME NEW p \in Servers, MainStep(p) \/ NotifyStep(p) PROVE DrainInv' /\ ProcInv'
  BY <1>1, ProcSteps, ServerSteps, KillsParent, Exits DEF MainStep, NotifyStep
<1>2. ASSUME NEW p \in Servers, ServerStep(p) \/ QuittingStep(p) PROVE DrainInv' /\ ProcInv'
  BY <1>2, ServerSteps
<1>3. CASE Environment
  <2>1. ASSUME NEW p \in Servers, ListenFails(p) \/ ServeError(p) \/ RestartFails(p) PROVE DrainInv' /\ ProcInv'
    BY <2>1, ProcSteps, ServerSteps
  <2>2. ASSUME NEW c \in Conns, Connect(c) \/ HandlerDone(c), UNCHANGED pvars PROVE DrainInv' /\ ProcInv'
    BY <2>2, ConnOnward, ProcSame
  <2> QED
    BY <1>3, <2>1, <2>2, UserSignals DEF Environment
<1>4. CASE UNCHANGED vars
  <2>1. DrainInv' /\ Onward /\ UNCHANGED pvars
    BY <1>4, SameOnward DEF vars, svars
  <2> QED
    BY <2>1, ProcSame
<1> QED
  BY <1>1, <1>2, <1>3, <1>4 DEF Next

\* The invariant holds at the start.
LEMMA InitHolds == Init => ServerInv
<1> SUFFICES ASSUME Init PROVE DrainInv /\ ProcInv
  BY DEF ServerInv
<1>1. DrainInv
  BY DrainInit DEF Init
<1>2. ProcType
  <2>1. <<>> \in Seq({"nil", "error"})
    BY EmptySeq
  <2> QED
    BY <2>1 DEF Init, ProcType
<1>3. \A p \in Servers : main[p] # "returned" /\ notify[p] = "no" /\ signals[p] = {} /\ errs[p] = <<>> /\ ~done[p]
  BY DEF Init
<1>4. DoneAfterQuit /\ NilOnRestart
  BY <1>3 DEF DoneAfterQuit, NilOnRestart
<1>5. OneRestart
  <2>1. \A p \in Servers : p + 1 # 1
    BY GenerationsAssumption
  <2> QED
    BY <1>3, <2>1 DEF OneRestart, Init
<1>6. LostAtEnd
  BY DEF Init, SInit, LostAtEnd
<1>7. RoomInErrs
  <2>1. ASSUME NEW p \in Servers PROVE Len(errs[p]) = 0
    BY <1>3
  <2>2. ASSUME NEW p \in Servers PROVE 0 <= Sends(p)
    BY DEF Sends
  <2> QED
    BY <2>1, <2>2 DEF RoomInErrs
<1> QED
  BY <1>1, <1>2, <1>4, <1>5, <1>6, <1>7 DEF ProcInv

\* The inductive invariant of the servers and of the processes that run them,
\* whenever signals arrive and whatever fails.
THEOREM ServerInvariant == Spec => []ServerInv
BY InitHolds, StepKeeps, PTL DEF Spec

\* Types; at most three errors are ever sent to errs, so no sender waits for
\* room and the model may leave its capacity out.
THEOREM TypesCorrect == Spec => []TypeOK
<1>1. ServerInv => TypeOK
  <2> SUFFICES ASSUME ServerInv PROVE TypeOK
    OBVIOUS
  <2>1. ASSUME NEW p \in Servers PROVE Len(errs[p]) <= 3
    <3>1. Len(errs[p]) \in Nat /\ Len(errs[p]) <= Sends(p)
      BY LenProperties DEF ServerInv, ProcInv, ProcType, RoomInErrs
    <3>2. Sends(p) \in 0 .. 3
      BY DEF Sends
    <3> QED
      BY <3>1, <3>2
  <2> QED
    BY <2>1 DEF ServerInv, DrainInv, ProcInv, ProcType, TypeOK
<1> QED
  BY <1>1, ServerInvariant, PTL

\* For any number of processes and connections and signals at any time: Quit
\* without an error leaves no accepted connection without its handler's end,
\* and Serve returns nil only when the handlers have returned, Quit gave up on
\* them, or the process was restarted.
THEOREM NilIsDrained == Spec => []NilMeansDrained
<1>1. ServerInv => NilMeansDrained
  <2> SUFFICES ASSUME ServerInv PROVE NilMeansDrained
    OBVIOUS
  <2>1. QuitDrains
    BY DEF ServerInv, DrainInv
  <2>2. ASSUME NEW p \in Servers, main[p] = "returned", result[p] = "nil", p \notin restarted, ~quitErr[p],
               NEW c \in Conns, by[c] = p
        PROVE  conn[c] = "done"
    <3>1. quit[p] = "returned"
      BY <2>2 DEF ServerInv, ProcInv, NilOnRestart, DoneAfterQuit
    <3>2. conn[c] \notin {"accepted", "handling"}
      BY <2>1, <2>2, <3>1 DEF QuitDrains
    <3>3. conn[c] \notin {"new", "queued"} /\ by[c] # None
      BY <2>2, ServersAssumption DEF ServerInv, DrainInv, HasServer
    <3>4. conn[c] # "lost"
      BY <2>2, <3>3 DEF ServerInv, ProcInv, LostAtEnd
    <3> QED
      BY <3>2, <3>3, <3>4 DEF ServerInv, DrainInv, STypeOK
  <2> QED
    BY <2>1, <2>2 DEF NilMeansDrained
<1> QED
  BY <1>1, ServerInvariant, PTL

================================================================================
