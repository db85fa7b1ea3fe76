-------------------------------- MODULE XPid --------------------------------
(***************************************************************************)
(* go-xpid: processes that write their id to one file by way of a temporary *)
(* file and a rename, any step of which may fail, and after any of which    *)
(* the process may be killed.  A file is what has been written to it.       *)
(* Set ignores that its temporary file could not be removed.                *)
(***************************************************************************)
EXTENDS Naturals, FiniteSets

CONSTANTS Pids, Nothing

ASSUME PidAssumption == Nothing \notin Pids

VARIABLES pidfile,  \* content of the file, or Nothing
          temp,     \* process -> the temporary file it made last, or Nothing
          pidPc     \* process -> where its Set is

pidVars == <<pidfile, temp, pidPc>>

\* Contents of a file: created, a part of the id, the whole of it.
\* History: stuck says that the file could not be removed.
Empty == [whose |-> Nothing, whole |-> FALSE, stuck |-> FALSE]
Content(p, w) == [whose |-> p, whole |-> w, stuck |-> FALSE]
Stuck(file) == [file EXCEPT !.stuck = TRUE]

PidInit == /\ pidfile = Nothing
           /\ temp = [p \in Pids |-> Nothing]
           /\ pidPc = [p \in Pids |-> "idle"]

Goto(p, at) == pidPc' = [pidPc EXCEPT ![p] = at]

\* ioutil.TempFile makes a file that no other process has.
TempFile(p) == /\ pidPc[p] = "idle"
               /\ temp' = [temp EXCEPT ![p] = Empty]
               /\ Goto(p, "chmod")
               /\ UNCHANGED pidfile

Chmod(p) == /\ pidPc[p] = "chmod"
            /\ Goto(p, "print")
            /\ UNCHANGED <<pidfile, temp>>

\* fmt.Fprintf writes the id; a full disk may cut it short.
Fprintf(p) == /\ pidPc[p] = "print"
              /\ temp' = [temp EXCEPT ![p] = Content(p, TRUE)]
              /\ Goto(p, "close")
              /\ UNCHANGED pidfile

\* Mutant of FprintfShort: the error of Fprintf is not looked at.
FprintfShortUnseen(p) == /\ pidPc[p] = "print"
                         /\ temp' = [temp EXCEPT ![p] = Content(p, FALSE)]
                         /\ Goto(p, "close")
                         /\ UNCHANGED pidfile

FprintfShort(p) == /\ pidPc[p] = "print"
                   /\ temp' = [temp EXCEPT ![p] = Content(p, FALSE)]
                   /\ Goto(p, "remove")
                   /\ UNCHANGED pidfile

CloseTemp(p) == /\ pidPc[p] = "close"
                /\ Goto(p, "rename")
                /\ UNCHANGED <<pidfile, temp>>

Rename(p) == /\ pidPc[p] = "rename"
             /\ pidfile' = temp[p]
             /\ temp' = [temp EXCEPT ![p] = Nothing]
             /\ Goto(p, "ok")

\* Chmod, Fprintf, Close or Rename fails before it has changed anything.
Fail(p) == /\ pidPc[p] \in {"chmod", "print", "close", "rename"}
           /\ Goto(p, "remove")
           /\ UNCHANGED <<pidfile, temp>>

\* The deferred function removes the temporary file, or does not succeed.
Remove_(p) == /\ pidPc[p] = "remove"
              /\ \E left \in {Nothing, Stuck(temp[p])} : temp' = [temp EXCEPT ![p] = left]
              /\ Goto(p, "failed")
              /\ UNCHANGED pidfile

\* The process dies, or goes on to call Set again.
Crash(p) == /\ pidPc[p] # "dead"
            /\ Goto(p, "dead")
            /\ UNCHANGED <<pidfile, temp>>

Again(p) == /\ pidPc[p] \in {"ok", "failed"}
            /\ Goto(p, "idle")
            /\ UNCHANGED <<pidfile, temp>>

Step(p) == \/ TempFile(p) \/ Chmod(p) \/ Fprintf(p) \/ FprintfShort(p) \/ CloseTemp(p)
           \/ Rename(p) \/ Fail(p) \/ Remove_(p) \/ Crash(p) \/ Again(p)

PidNext == \E p \in Pids : Step(p)

PidSpec == PidInit /\ [][PidNext]_pidVars

-----------------------------------------------------------------------------
(* Properties.                                                              *)

\* Get always reads a whole id, once one has been written, whichever writers
\* fail or die on the way, and a temporary file outlives a call of Set only
\* when the process died in it or the file could not be removed.
PidWhole ==
    /\ pidfile # Nothing => pidfile.whole
    /\ \A p \in Pids : pidPc[p] \in {"idle", "ok", "failed"} =>
           temp[p] = Nothing \/ temp[p].stuck

=============================================================================
