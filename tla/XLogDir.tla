------------------------------- MODULE XLogDir -------------------------------
(***************************************************************************)
(* go-xlog/xlog.go: which loggers of a process use which directory.  New    *)
(* binds its directory in dirMap before it checks anything else; its        *)
(* deferred function unbinds it again on any error, also on the error that  *)
(* the directory was bound already.  Close unbinds when flush has exited.   *)
(***************************************************************************)
EXTENDS Naturals

CONSTANTS Loggers,  \* bound: loggers that exist at the same time
          Dirs      \* directories

VARIABLES dirMap,   \* the directories that are bound
          step,     \* Loggers -> "none", "bound", "failing", "open", "closing"
          dir,      \* Loggers -> its directory
          refused   \* history: directories that a New found bound

vars == <<dirMap, step, dir, refused>>

Init == /\ dirMap = {}
        /\ step = [l \in Loggers |-> "none"]
        /\ dir \in [Loggers -> Dirs]
        /\ refused = {}

Goto(l, s) == step' = [step EXCEPT ![l] = s]

\* bindDir succeeds.
Bind(l, d) == /\ step[l] = "none"
              /\ d \notin dirMap
              /\ dirMap' = dirMap \cup {d}
              /\ dir' = [dir EXCEPT ![l] = d]
              /\ Goto(l, "bound")
              /\ UNCHANGED refused

\* bindDir finds the directory occupied.
BindRefused(l, d) == /\ step[l] = "none"
                     /\ d \in dirMap
                     /\ dir' = [dir EXCEPT ![l] = d]
                     /\ refused' = refused \cup {d}
                     /\ Goto(l, "failing")
                     /\ UNCHANGED dirMap

\* The directory cannot be made or written, or a field of XConfig is invalid.
CheckFails(l) == /\ step[l] = "bound"
                 /\ Goto(l, "failing")
                 /\ UNCHANGED <<dirMap, dir, refused>>

\* All checks pass: the flush goroutine is started.
Opened(l) == /\ step[l] = "bound"
             /\ Goto(l, "open")
             /\ UNCHANGED <<dirMap, dir, refused>>

\* The deferred function of New: unbindDir(xl.dir).
NewFails(l) == /\ step[l] = "failing"
               /\ dirMap' = dirMap \ {dir[l]}
               /\ Goto(l, "none")
               /\ UNCHANGED <<dir, refused>>

\* Close waits for the flush goroutine (module XLogPipe).
CloseBegin(l) == /\ step[l] = "open"
                 /\ Goto(l, "closing")
                 /\ UNCHANGED <<dirMap, dir, refused>>

CloseEnd(l) == /\ step[l] = "closing"
               /\ dirMap' = dirMap \ {dir[l]}
               /\ Goto(l, "none")
               /\ UNCHANGED <<dir, refused>>

Next == \E l \in Loggers : \/ \E d \in Dirs : Bind(l, d) \/ BindRefused(l, d)
                           \/ CheckFails(l) \/ Opened(l) \/ NewFails(l)
                           \/ CloseBegin(l) \/ CloseEnd(l)

Spec == Init /\ [][Next]_vars

-----------------------------------------------------------------------------
(* Properties.                                                              *)

\* Type invariant of the registry.
TypeOK == /\ dirMap \subseteq Dirs
          /\ step \in [Loggers -> {"none", "bound", "failing", "open", "closing"}]
          /\ dir \in [Loggers -> Dirs]
          /\ refused \subseteq Dirs

InUse(l) == step[l] \in {"open", "closing"}

\* No binding is left behind: a directory is bound only while a logger uses
\* it or a New or Close is about to unbind it, so a later New can have it.
NoStaleBinding == \A d \in dirMap : \E l \in Loggers : step[l] # "none" /\ dir[l] = d

\* As long as no New was refused, failing checks and closes of other loggers
\* never unbind a directory in use, and it has one logger.
SoundWithoutRefusal ==
    \A l, m \in Loggers :
        /\ InUse(l) /\ dir[l] \notin refused => dir[l] \in dirMap
        /\ InUse(l) /\ InUse(m) /\ dir[l] = dir[m] /\ dir[l] \notin refused => l = m

\* xlog.go:44 "One application shouldn't create two 'XLogger' on the same
\* directory, 'dirMap' is used to prevent this case from happening."
OneLoggerPerDir ==
    \A l, m \in Loggers : step[l] = "open" /\ step[m] = "open" /\ dir[l] = dir[m] => l = m

=============================================================================
