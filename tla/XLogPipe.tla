------------------------------- MODULE XLogPipe -------------------------------
(***************************************************************************)
(* go-xlog/xlog.go: the pipe between the goroutines that call Write and the *)
(* flush goroutine that writes to disk.  Records go one way through the     *)
(* buffered channel bc, errors come back through errorChan, and Close waits *)
(* on exitChan until flush has emptied bc.  Whether writing a record to     *)
(* disk succeeds is open here; module XLogger puts the files of module       *)
(* XLogFiles under the pipe.                                                *)
(***************************************************************************)
EXTENDS Naturals, Sequences, SequencesExt

CONSTANTS Procs,    \* goroutines that call Write
          Records,  \* bound: the records written, each once
          BcCap,    \* capacity of bc, 128 in New
          ErrCap,   \* capacity of errorChan, 8 in New
          None      \* no record

ASSUME CapsAssumption == BcCap \in Nat \ {0} /\ ErrCap \in Nat \ {0}
ASSUME NoneAssumption == None \notin Records

VARIABLES bc, bcClosed,          \* the record channel
          errorChan, errClosed,  \* the error channel; an error is named by its record
          exited,                \* exitChan is closed
          writing,               \* Procs -> record of the Write in progress
          flush,                 \* step of the flush goroutine
          b,                     \* the record flush works on
          close,                 \* Close: "no", "wait" or "done"
          accepted,              \* history: records Write returned success for
          handled,               \* history: records flush tried to write
          failed                 \* history: records that could not be written

channels == <<bc, bcClosed, errorChan, errClosed, exited>>
history == <<accepted, handled, failed>>
vars == <<channels, writing, flush, b, close, history>>

Init == /\ bc = <<>> /\ bcClosed = FALSE
        /\ errorChan = <<>> /\ errClosed = FALSE
        /\ exited = FALSE
        /\ writing = [p \in Procs |-> None]
        /\ flush = "range"
        /\ b = None
        /\ close = "no"
        /\ accepted = <<>> /\ handled = <<>> /\ failed = {}

-----------------------------------------------------------------------------
(* Write.                                                                   *)

Used == {writing[p] : p \in Procs} \cup ToSet(accepted)

\* Write is called and comes to its select.
WriteBegin(p, r) == /\ writing[p] = None
                    /\ r \notin Used
                    /\ writing' = [writing EXCEPT ![p] = r]
                    /\ UNCHANGED <<channels, flush, b, close, history>>

WriteReturn(p) == /\ writing[p] # None
                  /\ writing' = [writing EXCEPT ![p] = None]

\* The send case: success.
WriteSend(p) == /\ WriteReturn(p)
                /\ ~bcClosed
                /\ Len(bc) < BcCap
                /\ bc' = Append(bc, writing[p])
                /\ accepted' = Append(accepted, writing[p])
                /\ UNCHANGED <<bcClosed, errorChan, errClosed, exited, flush, b, close, handled, failed>>

\* The send case on a closed channel panics: recovered, ErrClosed.
WritePanic(p) == /\ WriteReturn(p)
                 /\ bcClosed
                 /\ UNCHANGED <<channels, flush, b, close, history>>

\* The receive case: the error of an earlier record, this one is dropped.
WriteError(p) == /\ WriteReturn(p)
                 /\ errorChan # <<>>
                 /\ errorChan' = Tail(errorChan)
                 /\ UNCHANGED <<bc, bcClosed, errClosed, exited, flush, b, close, history>>

\* The receive case on the closed, empty channel: ErrClosed.
WriteErrClosed(p) == /\ WriteReturn(p)
                     /\ errorChan = <<>>
                     /\ errClosed
                     /\ UNCHANGED <<channels, flush, b, close, history>>

-----------------------------------------------------------------------------
(* The flush goroutine.                                                     *)

At(step) == flush = step

\* for b = range xl.bc
FlushRecv == /\ At("range")
             /\ bc # <<>>
             /\ b' = Head(bc)
             /\ bc' = Tail(bc)
             /\ flush' = "write"
             /\ UNCHANGED <<bcClosed, errorChan, errClosed, exited, writing, close, history>>

\* xl.write(b) succeeds.
FlushWrite == /\ At("write")
              /\ handled' = Append(handled, b)
              /\ b' = None
              /\ flush' = "range"
              /\ UNCHANGED <<channels, writing, close, accepted, failed>>

\* xl.write(b) returns an error.
FlushFail == /\ At("write")
             /\ handled' = Append(handled, b)
             /\ failed' = failed \cup {b}
             /\ flush' = "report"
             /\ UNCHANGED <<channels, writing, b, close, accepted>>

\* Put the error into errorChan and go on.
SendError == /\ Len(errorChan) < ErrCap
             /\ errorChan' = Append(errorChan, b)
             /\ b' = None
             /\ flush' = "range"
             /\ UNCHANGED <<bc, bcClosed, errClosed, exited, writing, close, history>>

ReportSend == At("report") /\ SendError

\* Mutant of ReportFull: the new error is sent without discarding one.
ReportFullWaits == /\ At("report")
                   /\ Len(errorChan) >= ErrCap
                   /\ flush' = "force"
                   /\ UNCHANGED <<channels, writing, b, close, history>>

\* errorChan is full.
ReportFull == /\ At("report")
              /\ Len(errorChan) >= ErrCap
              /\ flush' = "discard"
              /\ UNCHANGED <<channels, writing, b, close, history>>

\* Discard the oldest error.
Discard == /\ At("discard")
           /\ errorChan # <<>>
           /\ errorChan' = Tail(errorChan)
           /\ flush' = "force"
           /\ UNCHANGED <<bc, bcClosed, errClosed, exited, writing, b, close, history>>

\* Callers of Write have read all errors meanwhile: nothing.
DiscardNothing == /\ At("discard")
                  /\ errorChan = <<>>
                  /\ b' = None
                  /\ flush' = "range"
                  /\ UNCHANGED <<channels, writing, close, history>>

\* xl.errorChan <- err, which waits for room.
ForceSend == At("force") /\ SendError

\* Mutant of FlushEnd: flush stops at the close, with records left in bc.
FlushEndEarly == /\ At("range")
                 /\ bcClosed
                 /\ errClosed' = TRUE
                 /\ flush' = "end"
                 /\ UNCHANGED <<bc, bcClosed, errorChan, exited, writing, b, close, history>>

\* bc is closed and empty: close the file and errorChan.
FlushEnd == /\ At("range")
            /\ bc = <<>>
            /\ bcClosed
            /\ errClosed' = TRUE
            /\ flush' = "end"
            /\ UNCHANGED <<bc, bcClosed, errorChan, exited, writing, b, close, history>>

\* close(xl.exitChan)
FlushExit == /\ At("end")
             /\ exited' = TRUE
             /\ flush' = "exited"
             /\ UNCHANGED <<bc, bcClosed, errorChan, errClosed, writing, b, close, history>>

-----------------------------------------------------------------------------
(* Close; a second call panics on close(xl.bc) and returns ErrClosed.       *)

\* close(xl.bc)
CloseBegin == /\ close = "no"
              /\ bcClosed' = TRUE
              /\ close' = "wait"
              /\ UNCHANGED <<bc, errorChan, errClosed, exited, writing, flush, b, history>>

\* <-xl.exitChan, then the directory is unbound (module XLogDir).
CloseEnd == /\ close = "wait"
            /\ exited
            /\ close' = "done"
            /\ UNCHANGED <<channels, writing, flush, b, history>>

\* A new logger: New makes the channels and starts flush.
NewPipe == /\ bc' = <<>> /\ bcClosed' = FALSE
           /\ errorChan' = <<>> /\ errClosed' = FALSE
           /\ exited' = FALSE
           /\ writing' = [p \in Procs |-> None]
           /\ flush' = "range"
           /\ b' = None
           /\ close' = "no"
           /\ accepted' = <<>> /\ handled' = <<>> /\ failed' = {}

-----------------------------------------------------------------------------
WriteEnd(p) == WriteSend(p) \/ WritePanic(p) \/ WriteError(p) \/ WriteErrClosed(p)

\* The steps of flush that do not touch the disk.
FlushStep == \/ FlushRecv \/ ReportSend \/ ReportFull \/ Discard \/ DiscardNothing
             \/ ForceSend \/ FlushExit
Flush == FlushStep \/ FlushWrite \/ FlushFail \/ FlushEnd

\* The steps of the callers.
Call == \/ \E p \in Procs : (\E r \in Records : WriteBegin(p, r)) \/ WriteEnd(p)
        \/ CloseBegin \/ CloseEnd

Next == Call \/ Flush

\* Runnable goroutines run, and a goroutine blocked on a channel is served in
\* turn (Go's channels queue blocked senders).
Fairness == /\ \A p \in Procs : SF_vars(WriteEnd(p))
            /\ WF_vars(Flush)
            /\ WF_vars(CloseEnd)

Spec == Init /\ [][Next]_vars /\ Fairness

-----------------------------------------------------------------------------
(* Properties.                                                              *)

\* Type invariant of the pipe.
TypeOK == /\ bc \in Seq(Records) /\ Len(bc) <= BcCap
          /\ errorChan \in Seq(Records) /\ Len(errorChan) <= ErrCap
          /\ bcClosed \in BOOLEAN /\ errClosed \in BOOLEAN /\ exited \in BOOLEAN
          /\ writing \in [Procs -> Records \cup {None}]
          /\ flush \in {"range", "write", "report", "discard", "force", "end", "exited"}
          /\ b \in Records \cup {None}
          /\ close \in {"no", "wait", "done"}
          /\ accepted \in Seq(Records) /\ handled \in Seq(Records)
          /\ failed \subseteq Records

\* When Close returns, flush has tried to write every record that Write
\* accepted, in the order in which they were accepted: none is left in bc,
\* however the calls of Write race with Close.
CloseFlushesAll == close = "done" => handled = accepted

\* Every Write and Close returns, whatever fails on the disk and whenever the
\* logger is closed: the flush goroutine, its callers and Close never wait for
\* one another in a circle.  (A process that dies ends its calls as well.)
CallsReturn == /\ \A p \in Procs : writing[p] # None ~> writing[p] = None
               /\ close = "wait" ~> close # "wait"

=============================================================================
