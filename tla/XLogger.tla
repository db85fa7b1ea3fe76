-------------------------------- MODULE XLogger --------------------------------
(***************************************************************************)
(* go-xlog/xlog.go: a whole logger.  The flush goroutine takes records from *)
(* the pipe (module XLogPipe) and writes them to the files of its directory *)
(* (module XLogFiles), where writing may fail at every call.  The process   *)
(* may die at any moment, or close its logger; then another logger starts   *)
(* on the files that are there, with an empty pipe.                         *)
(***************************************************************************)
EXTENDS XLogPipe, XLogFiles

allVars == <<vars, fvars>>

LoggerInit == Init /\ FInit

\* xl.write(b) of a record from bc.
DiskWrite == FlushWrite /\ WriteOk
DiskFail == FlushFail /\ WriteErr

\* bc is closed and empty: xl.f.Close(), close(xl.errorChan)
DiskEnd == FlushEnd /\ CloseFile

\* The process or the logger ends, another logger is created.
Restart == NewPipe /\ NewLogger

FlushGoroutine == \/ FlushStep /\ UNCHANGED fvars
                  \/ DiskWrite \/ DiskFail \/ DiskEnd

LoggerNext == \/ Call /\ UNCHANGED fvars
              \/ FlushGoroutine
              \/ Restart
              \/ FTick /\ UNCHANGED vars

\* As for the pipe; nothing makes a process die or time pass.
LoggerFairness == /\ \A p \in Procs : SF_vars(WriteEnd(p) /\ UNCHANGED fvars)
                  /\ WF_vars(FlushGoroutine)
                  /\ WF_vars(CloseEnd /\ UNCHANGED fvars)

LoggerSpec == LoggerInit /\ [][LoggerNext]_allVars /\ LoggerFairness

=============================================================================
