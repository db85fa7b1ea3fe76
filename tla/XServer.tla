-------------------------------- MODULE XServer --------------------------------
(***************************************************************************)
(* go-xserver/xserver.go and go-xtcpapi/tcp.go: a process that serves one   *)
(* address, exits on SIGTERM or SIGINT and restarts on SIGUSR2.  To restart *)
(* it starts a child that inherits the listening socket; the child sends    *)
(* the parent SIGTERM when it has started its server.  The program exits    *)
(* when Serve returns.                                                      *)
(*                                                                          *)
(* Processes are numbered in the order in which they are started; each one  *)
(* is the server of the same number in module TcpServer.                    *)
(***************************************************************************)
EXTENDS TcpServer

CONSTANTS Generations,  \* bound: processes, each starts one child at most
          EarlySignals  \* may users signal a process that is still starting?

ASSUME GenerationsAssumption == /\ Generations \in Nat \ {0}
                                /\ Servers = 1 .. Generations
                                /\ EarlySignals \in BOOLEAN

VARIABLES main,       \* Servers -> step of Serve in the main goroutine
          orphan,     \* Servers -> ppid is 1: the parent was gone at the start
          notify,     \* Servers -> step of notify
          signals,    \* Servers -> signals pending in sigch
          errs,       \* Servers -> the error channel: "nil" or "error"
          done,       \* Servers -> the done channel is closed
          result,     \* Servers -> what Serve returned
          restarted,  \* history: processes that were asked to restart
          terminated, \* history: processes a user sent SIGTERM
          broken      \* history: some call of the system has failed

asked == <<restarted, terminated>>
pvars == <<main, orphan, notify, signals, errs, done, result, asked, broken>>
vars == <<svars, pvars>>

Alive(p) == main[p] \notin {"none", "exited"}
MainTo(p, from, to) == main[p] = from /\ main' = [main EXCEPT ![p] = to]
NotifyTo(p, from, to) == notify[p] = from /\ notify' = [notify EXCEPT ![p] = to]
Send(p, err) == errs' = [errs EXCEPT ![p] = Append(@, err)]

Init == /\ SInit
        /\ main = [p \in Servers |-> IF p = 1 THEN "listen" ELSE "none"]
        /\ orphan = [p \in Servers |-> FALSE]
        /\ notify = [p \in Servers |-> "no"]
        /\ signals = [p \in Servers |-> {}]
        /\ errs = [p \in Servers |-> <<>>]
        /\ done = [p \in Servers |-> FALSE]
        /\ result = [p \in Servers |-> None]
        /\ restarted = {} /\ terminated = {} /\ broken = FALSE

-----------------------------------------------------------------------------
(* Processes and signals.                                                   *)

\* The process p ends: its memory is gone, its descriptor of the socket and
\* its connections are closed.
Ends(p) == /\ listener' = [listener EXCEPT ![p] = IF @ = "open" THEN "closed" ELSE @]
           /\ conn' = [c \in Conns |-> IF by[c] = p /\ conn[c] \in {"accepted", "handling"}
                                       THEN "lost" ELSE Backlog(Others(p))[c]]
           /\ serve' = [serve EXCEPT ![p] = "no"]
           /\ quit' = [quit EXCEPT ![p] = "no"]
           /\ quitErr' = [quitErr EXCEPT ![p] = FALSE]
           /\ orphan' = [orphan EXCEPT ![p] = FALSE]
           /\ notify' = [notify EXCEPT ![p] = "no"]
           /\ signals' = [signals EXCEPT ![p] = {}]
           /\ errs' = [errs EXCEPT ![p] = <<>>]
           /\ done' = [done EXCEPT ![p] = FALSE]
           /\ result' = [result EXCEPT ![p] = None]
           /\ UNCHANGED by

\* sigch receives signals from signal.Notify to signal.Stop.
Registered(p) == notify[p] \notin {"no", "start", "quit", "close", "ended"}

\* A signal arrives: it is put into sigch, or kills the process.
Deliver(p, sig) ==
    \/ /\ Registered(p)
       /\ signals' = [signals EXCEPT ![p] = @ \cup {sig}]
       /\ UNCHANGED <<svars, main, orphan, notify, errs, done, result>>
    \/ /\ ~Registered(p)
       /\ main' = [main EXCEPT ![p] = "exited"]
       /\ Ends(p)

MaySignal(p) == Alive(p) /\ (EarlySignals \/ (FieldsSet(p) /\ Registered(p)))

UserTerm(p) == /\ MaySignal(p)
               /\ p \notin terminated
               /\ terminated' = terminated \cup {p}
               /\ Deliver(p, "TERM")
               /\ UNCHANGED <<restarted, broken>>

UserRestart(p) == /\ MaySignal(p)
                  /\ p < Generations
                  /\ p \notin restarted
                  /\ restarted' = restarted \cup {p}
                  /\ Deliver(p, "USR2")
                  /\ UNCHANGED <<terminated, broken>>

-----------------------------------------------------------------------------
(* Serve, in the main goroutine.                                            *)

\* The variables of the package: ppid is 1 if the parent has gone.
Boot(p) == /\ MainTo(p, "boot", "listen")
           /\ orphan' = [orphan EXCEPT ![p] = ~Alive(p - 1)]
           /\ UNCHANGED <<svars, notify, signals, errs, done, result, asked, broken>>

\* tcp.Listen: the inherited listener of that address, or a new one.
Listen(p) == /\ MainTo(p, "listen", "spawn")
             /\ listener' = [listener EXCEPT ![p] = "open"]
             /\ UNCHANGED <<serve, quit, quitErr, conn, by>>
             /\ UNCHANGED <<orphan, notify, signals, errs, done, result, asked, broken>>

Return(p, from, err) == /\ MainTo(p, from, "returned")
                        /\ result' = [result EXCEPT ![p] = err]

ListenFails(p) == /\ Return(p, "listen", "error")
                  /\ broken' = TRUE
                  /\ UNCHANGED <<svars, orphan, notify, signals, errs, done, asked>>

\* go notify(...), go serve(...)
Go(p) == /\ MainTo(p, "spawn", "kill")
         /\ NotifyTo(p, "no", "start")
         /\ UNCHANGED <<svars, orphan, signals, errs, done, result, asked, broken>>

HasParent(p) == p > 1 /\ ~orphan[p]

KillNobody(p) == /\ ~HasParent(p)
                 /\ MainTo(p, "kill", "select")
                 /\ UNCHANGED <<svars, orphan, notify, signals, errs, done, result, asked, broken>>

\* syscall.Kill(ppid, SIGTERM)
KillParent(p) == /\ HasParent(p) /\ Alive(p - 1)
                 /\ main[p] = "kill"
                 /\ \/ /\ Registered(p - 1)
                       /\ signals' = [signals EXCEPT ![p - 1] = @ \cup {"TERM"}]
                       /\ main' = [main EXCEPT ![p] = "select"]
                       /\ UNCHANGED <<svars, orphan, notify, errs, done, result>>
                    \/ /\ ~Registered(p - 1)
                       /\ main' = [main EXCEPT ![p] = "select", ![p - 1] = "exited"]
                       /\ Ends(p - 1)
                 /\ UNCHANGED <<asked, broken>>

\* The parent has gone meanwhile: Serve returns the error.
KillFails(p) == /\ HasParent(p) /\ ~Alive(p - 1)
                /\ Return(p, "kill", "error")
                /\ UNCHANGED <<svars, orphan, notify, signals, errs, done, asked, broken>>

\* case err := <-errs
SelectErr(p) == /\ errs[p] # <<>>
                /\ Return(p, "select", Head(errs[p]))
                /\ errs' = [errs EXCEPT ![p] = Tail(@)]
                /\ UNCHANGED <<svars, orphan, notify, signals, done, asked, broken>>

\* case <-done
SelectDone(p) == /\ done[p]
                 /\ Return(p, "select", "nil")
                 /\ UNCHANGED <<svars, orphan, notify, signals, errs, done, asked, broken>>

\* The program exits.
Exit(p) == /\ MainTo(p, "returned", "exited")
           /\ Ends(p)
           /\ UNCHANGED <<asked, broken>>

-----------------------------------------------------------------------------
(* The serve goroutine.                                                     *)

Started(p) == notify[p] # "no"

\* An error of the server's Serve is sent to errs.
ServeError(p) == /\ AcceptFails(p)
                 /\ Send(p, "error")
                 /\ broken' = TRUE
                 /\ UNCHANGED <<main, orphan, notify, signals, done, result, asked>>

-----------------------------------------------------------------------------
(* The notify goroutine.                                                    *)

\* signal.Notify
Register(p) == /\ NotifyTo(p, "start", "wait")
               /\ UNCHANGED <<svars, main, orphan, signals, errs, done, result, asked, broken>>

\* SIGTERM or SIGINT: signal.Stop, call Quit.
TakeTerm(p) == /\ NotifyTo(p, "wait", "quit")
               /\ "TERM" \in signals[p]
               /\ signals' = [signals EXCEPT ![p] = @ \ {"TERM"}]
               /\ UNCHANGED <<svars, main, orphan, errs, done, result, asked, broken>>

Quit(p) == /\ notify[p] = "quit"
           /\ QuitClose(p)
           /\ UNCHANGED pvars

\* An error of Quit is sent to errs; wg.Wait returns.
QuitEnds(p) == /\ NotifyTo(p, "quit", "close")
               /\ quit[p] = "returned"
               /\ errs' = IF quitErr[p] THEN [errs EXCEPT ![p] = Append(@, "error")] ELSE errs
               /\ UNCHANGED <<svars, main, orphan, signals, done, result, asked, broken>>

\* close(done)
CloseDone(p) == /\ NotifyTo(p, "close", "ended")
                /\ done' = [done EXCEPT ![p] = TRUE]
                /\ UNCHANGED <<svars, main, orphan, signals, errs, result, asked, broken>>

\* SIGUSR2: tcp.StartProcess gives the child a descriptor of the socket.
TakeRestart(p) == /\ NotifyTo(p, "wait", "report")
                  /\ "USR2" \in signals[p]
                  /\ signals' = [signals EXCEPT ![p] = @ \ {"USR2"}]
                  /\ main' = [main EXCEPT ![p + 1] = "boot"]
                  /\ listener' = [listener EXCEPT ![p + 1] = "open"]
                  /\ UNCHANGED <<serve, quit, quitErr, conn, by>>
                  /\ UNCHANGED <<orphan, errs, done, result, asked, broken>>

\* errs <- nil
Report(p) == /\ NotifyTo(p, "report", "wait")
             /\ Send(p, "nil")
             /\ UNCHANGED <<svars, main, orphan, signals, done, result, asked, broken>>

\* tcp.StartProcess fails: errs <- err, end without signal.Stop.
RestartFails(p) == /\ NotifyTo(p, "wait", "failed")
                   /\ "USR2" \in signals[p]
                   /\ signals' = [signals EXCEPT ![p] = @ \ {"USR2"}]
                   /\ Send(p, "error")
                   /\ broken' = TRUE
                   /\ UNCHANGED <<svars, main, orphan, done, result, asked>>

-----------------------------------------------------------------------------
MainStep(p) == /\ Alive(p)
               /\ \/ Boot(p) \/ Listen(p) \/ Go(p) \/ KillNobody(p) \/ KillParent(p) \/ KillFails(p)
                  \/ SelectErr(p) \/ SelectDone(p) \/ Exit(p)
NotifyStep(p) == /\ Alive(p)
                 /\ \/ Register(p) \/ TakeTerm(p) \/ Quit(p) \/ QuitEnds(p) \/ CloseDone(p)
                    \/ TakeRestart(p) \/ Report(p)
ServerStep(p) == /\ Alive(p)
                 /\ \/ Started(p) /\ ServeBegin(p)
                    \/ ServeStep(p)
                 /\ UNCHANGED pvars
QuittingStep(p) == Alive(p) /\ QuitStep(p) /\ UNCHANGED pvars

\* What may happen or not: failing calls, clients, handlers that return.
Environment == \/ \E p \in Servers : Alive(p) /\ (ListenFails(p) \/ ServeError(p) \/ RestartFails(p))
               \/ \E p \in Servers : UserTerm(p) \/ UserRestart(p)
               \/ \E c \in Conns : (Connect(c) \/ HandlerDone(c)) /\ UNCHANGED pvars

Next == \/ \E p \in Servers : MainStep(p) \/ NotifyStep(p) \/ ServerStep(p) \/ QuittingStep(p)
        \/ Environment

\* Goroutines run and the timeout of Quit expires; handlers may run for ever.
Fairness == \A p \in Servers : /\ WF_vars(MainStep(p)) /\ WF_vars(NotifyStep(p))
                               /\ WF_vars(ServerStep(p)) /\ WF_vars(QuittingStep(p))

Spec == Init /\ [][Next]_vars /\ Fairness

-----------------------------------------------------------------------------
(* Properties.                                                              *)

\* Type invariant; the channel errs, of capacity 3 for one server, is never
\* full when something is sent.
TypeOK == /\ STypeOK
          /\ main \in [Servers -> {"none", "boot", "listen", "spawn", "kill", "select",
                                   "returned", "exited"}]
          /\ orphan \in [Servers -> BOOLEAN]
          /\ notify \in [Servers -> {"no", "start", "wait", "quit", "close", "report", "ended", "failed"}]
          /\ signals \in [Servers -> SUBSET {"TERM", "USR2"}]
          /\ errs \in [Servers -> Seq({"nil", "error"})]
          /\ \A p \in Servers : Len(errs[p]) <= 3
          /\ done \in [Servers -> BOOLEAN]
          /\ result \in [Servers -> {"nil", "error", None}]
          /\ restarted \subseteq Servers /\ terminated \subseteq Servers /\ broken \in BOOLEAN

\* A process that was not asked to restart returns nil from Serve only when
\* the handlers of its connections have returned or Quit gave up on them, and
\* Quit of its server waits for them (QuitDrains).
NilMeansDrained ==
    /\ QuitDrains
    /\ \A p \in Servers : main[p] = "returned" /\ result[p] = "nil" /\ p \notin restarted /\ ~quitErr[p] =>
        \A c \in Conns : by[c] = p => conn[c] = "done"

\* SIGTERM ends the process, though handlers may never return and a restart
\* may be under way.
TermExits == \A p \in Servers : p \in terminated ~> main[p] = "exited"

\* xserver.go:33 "SIGTERM and SIGINT are used to exit, SIGUSR2 to restart."
\* A program that was never sent SIGTERM by a user, and in which no call of
\* the system failed, then goes on running after a restart.
RestartServes ==
    terminated = {} /\ ~broken => \E p \in Servers : main[p] \notin {"none", "returned", "exited"}

=============================================================================
