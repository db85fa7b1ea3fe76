----------------------------- MODULE XLoggerProofs -----------------------------
(***************************************************************************)
(* Theorems about a whole logger (XLogger): the pipe and the files, for any *)
(* number of goroutines and records, any capacities of the channels and any *)
(* limits on the files.                                                     *)
(***************************************************************************)
EXTENDS XLogger, SequenceTheorems, WellFoundedInduction, TLAPS

-----------------------------------------------------------------------------
(* The pipe.                                                                *)

\* The record flush has taken from bc and not yet tried to write.
InHand == IF flush = "write" THEN <<b>> ELSE <<>>

\* A record that Write accepted is handled, in flush's hand or in bc, in the
\* order in which it was accepted; after flush ended bc stays empty and closed.
PipeInv ==
    /\ TypeOK
    /\ flush \in {"write", "report", "discard", "force"} => b \in Records
    /\ accepted = handled \o (InHand \o bc)
    /\ flush \in {"end", "exited"} => bcClosed /\ bc = <<>>
    /\ exited => flush = "exited"
    /\ close = "done" => exited

\* The inductive invariant of the pipe gives the property.
LEMMA PipeInvGives == PipeInv => CloseFlushesAll
<1>1. SUFFICES ASSUME PipeInv, close = "done" PROVE handled = accepted
  BY DEF CloseFlushesAll
<1>2. flush = "exited" /\ bc = <<>> /\ InHand = <<>>
  BY <1>1 DEF PipeInv, InHand
<1>3. handled \in Seq(Records) /\ <<>> \in Seq(Records)
  BY <1>1 DEF PipeInv, TypeOK
<1> QED
  BY <1>1, <1>2, <1>3, ConcatEmptySeq DEF PipeInv

\* A new pipe is as it should be.
LEMMA PipeInit == Init => PipeInv
<1> SUFFICES ASSUME Init PROVE PipeInv
  OBVIOUS
<1>1. TypeOK
  <2>1. \A S : <<>> \in Seq(S) /\ Len(<<>>) = 0
    BY EmptySeq
  <2>2. BcCap >= 0 /\ ErrCap >= 0
    BY CapsAssumption
  <2> QED
    BY <2>1, <2>2 DEF Init, TypeOK
<1>2. InHand = <<>> /\ <<>> \o (<<>> \o <<>>) = <<>>
  BY DEF Init, InHand
<1> QED
  BY <1>1, <1>2 DEF Init, PipeInv

\* A new logger: nothing accepted, nothing handled.
LEMMA PipeNew == NewPipe => PipeInv'
<1> SUFFICES ASSUME NewPipe PROVE PipeInv'
  OBVIOUS
<1>1. TypeOK'
  <2>1. \A S : <<>> \in Seq(S) /\ Len(<<>>) = 0
    BY EmptySeq
  <2>2. BcCap >= 0 /\ ErrCap >= 0
    BY CapsAssumption
  <2> QED
    BY <2>1, <2>2 DEF NewPipe, TypeOK
<1>2. InHand' = <<>> /\ <<>> \o (<<>> \o <<>>) = <<>>
  BY DEF NewPipe, InHand
<1> QED
  BY <1>1, <1>2 DEF NewPipe, PipeInv

\* A record that is sent comes last.
LEMMA SentLast ==
    ASSUME NEW h \in Seq(Records), NEW s \in Seq(Records), NEW q \in Seq(Records), NEW r \in Records
    PROVE  Append(h \o (s \o q), r) = h \o (s \o Append(q, r))
<1>1. <<r>> \in Seq(Records) /\ s \o q \in Seq(Records) /\ h \o (s \o q) \in Seq(Records)
  BY ConcatProperties
<1>2. Append(h \o (s \o q), r) = (h \o (s \o q)) \o <<r>>
  BY <1>1, AppendIsConcat
<1>3. (h \o (s \o q)) \o <<r>> = h \o ((s \o q) \o <<r>>)
  BY <1>1, ConcatAssociative, SMTT(30)
<1>4. (s \o q) \o <<r>> = s \o (q \o <<r>>)
  BY <1>1, ConcatAssociative, SMTT(30)
<1>5. Append(q, r) = q \o <<r>>
  BY AppendIsConcat
<1> QED
  BY <1>2, <1>3, <1>4, <1>5

\* Flush takes the oldest record into its hand, and handles it there.
LEMMA Moved ==
    ASSUME NEW h \in Seq(Records), NEW q \in Seq(Records), NEW r \in Records
    PROVE  /\ q # <<>> => h \o (<<>> \o q) = h \o (<<Head(q)>> \o Tail(q))
           /\ h \o (<<r>> \o q) = Append(h, r) \o (<<>> \o q)
<1>1. ASSUME q # <<>> PROVE <<Head(q)>> \o Tail(q) = q
  BY <1>1
<1>2. <<>> \o q = q
  BY ConcatEmptySeq
<1>3. (h \o <<r>>) \o q = h \o (<<r>> \o q)
  BY ConcatAssociative
<1>4. Append(h, r) = h \o <<r>>
  BY AppendIsConcat
<1> QED
  BY <1>1, <1>2, <1>3, <1>4

\* The record that p sends comes after those handled, in hand and in bc.
LEMMA SentAfter ==
    ASSUME handled \in Seq(Records), bc \in Seq(Records), InHand \in Seq(Records),
           NEW p, writing[p] \in Records
    PROVE  Append(handled \o (InHand \o bc), writing[p]) = handled \o (InHand \o Append(bc, writing[p]))
<1> DEFINE h == handled
           s == InHand
           q == bc
           r == writing[p]
<1>1. h \in Seq(Records) /\ s \in Seq(Records) /\ q \in Seq(Records) /\ r \in Records
  OBVIOUS
<1> HIDE DEF h, s, q, r
<1>2. \A t \in Records : Append(h \o (s \o q), t) = h \o (s \o Append(q, t))
  BY ONLY <1>1, SentLast
<1>3. Append(h \o (s \o q), r) = h \o (s \o Append(q, r))
  BY <1>1, <1>2
<1> QED
  BY <1>3 DEF h, s, q, r

\* The steps that leave bc, the record in hand and the histories of records alone.
LEMMA PipeIdle ==
    ASSUME PipeInv, TypeOK', UNCHANGED <<bc, accepted, handled>>, InHand' = InHand,
           flush' \in {"write", "report", "discard", "force"} => b' \in Records,
           flush' \in {"end", "exited"} => bcClosed' /\ bc' = <<>>,
           exited' => flush' = "exited",
           close' = "done" => exited'
    PROVE  PipeInv'
BY DEF PipeInv

\* The types of what a channel becomes.
LEMMA ChannelTypes ==
    ASSUME NEW q \in Seq(Records), NEW r \in Records
    PROVE  /\ Append(q, r) \in Seq(Records) /\ Len(Append(q, r)) = Len(q) + 1
           /\ q # <<>> => /\ Tail(q) \in Seq(Records) /\ Len(Tail(q)) = Len(q) - 1
                          /\ Head(q) \in Records
           /\ Len(q) \in Nat
BY AppendProperties, HeadTailProperties, LenProperties

\* Steps of Write and Close.
LEMMA PipeCall == PipeInv /\ Call => PipeInv'
<1> SUFFICES ASSUME PipeInv, Call PROVE PipeInv'
  OBVIOUS
<1> USE DEF PipeInv
<1>1. ASSUME NEW p \in Procs, NEW r \in Records, WriteBegin(p, r) PROVE PipeInv'
  <2>1. TypeOK' /\ InHand' = InHand
    BY <1>1 DEF WriteBegin, TypeOK, channels, history, InHand
  <2> QED
    BY <1>1, <2>1, PipeIdle DEF WriteBegin, channels, history
<1>2. ASSUME NEW p \in Procs, WriteSend(p) PROVE PipeInv'
  <2>1. writing[p] \in Records /\ writing' \in [Procs -> Records \cup {None}]
    BY <1>2 DEF WriteSend, WriteReturn, TypeOK
  <2>2. bc' \in Seq(Records) /\ Len(bc') <= BcCap /\ accepted' \in Seq(Records)
    BY <1>2, <2>1, ChannelTypes, CapsAssumption DEF WriteSend, TypeOK
  <2>3. TypeOK'
    BY <1>2, <2>1, <2>2 DEF WriteSend, TypeOK
  <2>4. InHand' = InHand /\ InHand \in Seq(Records)
    BY <1>2 DEF WriteSend, InHand, TypeOK
  <2>5. accepted' = handled' \o (InHand' \o bc')
    <3>1. handled \in Seq(Records) /\ bc \in Seq(Records)
      BY DEF TypeOK
    <3>2. InHand \in Seq(Records) /\ writing[p] \in Records
      BY <2>1, <2>4
    <3>3. Append(handled \o (InHand \o bc), writing[p]) = handled \o (InHand \o Append(bc, writing[p]))
      BY <3>1, <3>2, SentAfter
    <3> QED
      BY <1>2, <2>4, <3>3 DEF WriteSend
  <2>6. /\ flush' \in {"write", "report", "discard", "force"} => b' \in Records
        /\ flush' \notin {"end", "exited"}
        /\ exited' => flush' = "exited"
        /\ close' = "done" => exited'
    BY <1>2 DEF WriteSend
  <2> QED
    BY <2>3, <2>5, <2>6
<1>3. ASSUME NEW p \in Procs, WritePanic(p) \/ WriteErrClosed(p) PROVE PipeInv'
  <2>1. TypeOK' /\ InHand' = InHand
    <3>1. writing' \in [Procs -> Records \cup {None}]
      BY <1>3 DEF WritePanic, WriteErrClosed, WriteReturn, TypeOK
    <3> QED
      BY <1>3, <3>1 DEF WritePanic, WriteErrClosed, TypeOK, channels, history, InHand
  <2> QED
    BY <1>3, <2>1, PipeIdle DEF WritePanic, WriteErrClosed, channels, history
<1>4. ASSUME NEW p \in Procs, WriteError(p) PROVE PipeInv'
  <2>1. writing' \in [Procs -> Records \cup {None}]
    BY <1>4 DEF WriteError, WriteReturn, TypeOK
  <2>2. errorChan' \in Seq(Records) /\ Len(errorChan') <= ErrCap
    BY <1>4, HeadTailProperties, LenProperties, CapsAssumption DEF WriteError, TypeOK
  <2>3. TypeOK' /\ InHand' = InHand
    BY <1>4, <2>1, <2>2 DEF WriteError, TypeOK, history, InHand
  <2> QED
    BY <1>4, <2>3, PipeIdle DEF WriteError, history
<1>5. ASSUME CloseBegin PROVE PipeInv'
  <2>1. TypeOK' /\ InHand' = InHand
    BY <1>5 DEF CloseBegin, TypeOK, history, InHand
  <2> QED
    BY <1>5, <2>1, PipeIdle DEF CloseBegin, history
<1>6. ASSUME CloseEnd PROVE PipeInv'
  <2>1. TypeOK' /\ InHand' = InHand
    BY <1>6 DEF CloseEnd, TypeOK, channels, history, InHand
  <2> QED
    BY <1>6, <2>1, PipeIdle DEF CloseEnd, channels, history
<1> QED
  BY <1>1, <1>2, <1>3, <1>4, <1>5, <1>6 DEF Call, WriteEnd

\* Steps of flush.
LEMMA PipeFlush == PipeInv /\ Flush => PipeInv'
<1> SUFFICES ASSUME PipeInv, Flush PROVE PipeInv'
  OBVIOUS
<1> USE DEF PipeInv
<1>1. ASSUME FlushRecv PROVE PipeInv'
  <2>1. bc' \in Seq(Records) /\ Len(bc') <= BcCap /\ b' \in Records
    BY <1>1, ChannelTypes, HeadTailProperties, LenProperties, CapsAssumption DEF FlushRecv, TypeOK
  <2>2. TypeOK'
    BY <1>1, <2>1 DEF FlushRecv, TypeOK, history
  <2>3. InHand = <<>> /\ InHand' = <<Head(bc)>>
    BY <1>1 DEF FlushRecv, InHand, At
  <2>4. handled \o (InHand \o bc) = handled' \o (InHand' \o bc')
    BY <1>1, <2>1, <2>3, Moved DEF FlushRecv, TypeOK, history
  <2> QED
    BY <1>1, <2>1, <2>2, <2>4 DEF FlushRecv, At, history
<1>2. ASSUME FlushWrite \/ FlushFail PROVE PipeInv'
  <2>1. b \in Records /\ handled' = Append(handled, b)
    BY <1>2 DEF FlushWrite, FlushFail, At
  <2>2. TypeOK'
    BY <1>2, <2>1, AppendProperties DEF FlushWrite, FlushFail, TypeOK, channels
  <2>3. InHand = <<b>> /\ InHand' = <<>>
    BY <1>2 DEF FlushWrite, FlushFail, InHand, At
  <2>4. accepted' = handled' \o (InHand' \o bc')
    <3>1. handled \in Seq(Records) /\ bc \in Seq(Records)
      BY DEF TypeOK
    <3>2. handled \o (<<b>> \o bc) = Append(handled, b) \o (<<>> \o bc)
      BY <2>1, <3>1, Moved
    <3>3. accepted = handled \o (<<b>> \o bc)
      BY <2>3
    <3>4. accepted' = accepted /\ bc' = bc
      BY <1>2 DEF FlushWrite, FlushFail, channels
    <3> QED
      BY <2>1, <2>3, <3>2, <3>3, <3>4
  <2> QED
    BY <1>2, <2>1, <2>2, <2>4 DEF FlushWrite, FlushFail, At, channels
<1>3. ASSUME ReportSend \/ ForceSend PROVE PipeInv'
  <2>1. b \in Records /\ SendError /\ flush # "write"
    BY <1>3 DEF ReportSend, ForceSend, At
  <2>2. errorChan' \in Seq(Records) /\ Len(errorChan') <= ErrCap
    BY <2>1, ChannelTypes, CapsAssumption DEF SendError, TypeOK
  <2>3. TypeOK' /\ InHand' = InHand
    BY <2>1, <2>2 DEF SendError, TypeOK, history, InHand
  <2> QED
    BY <2>1, <1>3, <2>3, PipeIdle DEF ReportSend, ForceSend, SendError, At, history
<1>4. ASSUME ReportFull PROVE PipeInv'
  <2>1. TypeOK' /\ InHand' = InHand
    BY <1>4 DEF ReportFull, TypeOK, channels, history, InHand, At
  <2> QED
    BY <1>4, <2>1, PipeIdle DEF ReportFull, At, channels, history
<1>5. ASSUME Discard PROVE PipeInv'
  <2>1. errorChan' \in Seq(Records) /\ Len(errorChan') <= ErrCap
    BY <1>5, HeadTailProperties, LenProperties, CapsAssumption DEF Discard, TypeOK
  <2>2. TypeOK' /\ InHand' = InHand
    BY <1>5, <2>1 DEF Discard, TypeOK, history, InHand, At
  <2> QED
    BY <1>5, <2>2, PipeIdle DEF Discard, At, history
<1>6. ASSUME DiscardNothing PROVE PipeInv'
  <2>1. TypeOK' /\ InHand' = InHand
    BY <1>6 DEF DiscardNothing, TypeOK, channels, history, InHand, At
  <2> QED
    BY <1>6, <2>1, PipeIdle DEF DiscardNothing, At, channels, history
<1>7. ASSUME FlushEnd PROVE PipeInv'
  <2>1. TypeOK' /\ InHand' = InHand
    BY <1>7 DEF FlushEnd, TypeOK, history, InHand, At
  <2> QED
    BY <1>7, <2>1, PipeIdle DEF FlushEnd, At, history
<1>8. ASSUME FlushExit PROVE PipeInv'
  <2>1. TypeOK' /\ InHand' = InHand
    BY <1>8 DEF FlushExit, TypeOK, history, InHand, At
  <2> QED
    BY <1>8, <2>1, PipeIdle DEF FlushExit, At, history
<1> QED
  BY <1>1, <1>2, <1>3, <1>4, <1>5, <1>6, <1>7, <1>8 DEF Flush, FlushStep

\* The inductive invariant of the pipe: every record that Write accepted is
\* handled, in flush's hand or in bc, in the order of the calls, whatever the
\* disk does and wherever the process dies.
THEOREM PipeInvariant == LoggerSpec => []PipeInv
<1>1. LoggerInit => PipeInv
  BY PipeInit DEF LoggerInit
<1>2. PipeInv /\ [LoggerNext]_allVars => PipeInv'
  <2> SUFFICES ASSUME PipeInv, [LoggerNext]_allVars PROVE PipeInv'
    OBVIOUS
  <2>1. CASE Call
    BY <2>1, PipeCall
  <2>2. CASE Flush
    BY <2>2, PipeFlush
  <2>3. CASE NewPipe
    BY <2>3, PipeNew
  <2>4. CASE UNCHANGED vars
    BY <2>4 DEF vars, channels, history, PipeInv, TypeOK, InHand
  <2> QED
    BY <2>1, <2>2, <2>3, <2>4 DEF LoggerNext, FlushGoroutine, Flush, DiskWrite, DiskFail, DiskEnd, Restart, allVars
<1> QED
  BY <1>1, <1>2, PTL DEF LoggerSpec

\* When Close returns, flush has tried to write every record that Write
\* accepted, in order, for any number of goroutines and records, any
\* capacities and any failures of the disk.
THEOREM CloseFlushes == LoggerSpec => []CloseFlushesAll
BY PipeInvariant, PipeInvGives, PTL

-----------------------------------------------------------------------------
(* The files.                                                               *)

Log == [size : Nat, age : 0 .. MaxAge, stuck : BOOLEAN]

\* The files are sorted; FilesBounded says when the count of the newest file's
\* bytes is right and the number and size are within the limits.
FilesInv == FTypeOK /\ FilesBounded /\ Sorted(files)

\* There is a longest record.
LEMMA LongestIs == Longest \in Nat \ {0} /\ \A n \in Lengths : n <= Longest
<1>1. PICK longest \in Lengths : \A n \in Lengths : n <= longest
  BY LimitsAssumption
<1>2. \A n \in Lengths : longest >= n
  BY <1>1, LimitsAssumption
<1>3. Longest \in Lengths /\ \A n \in Lengths : Longest >= n
  BY <1>1, <1>2 DEF Longest, Max
<1> QED
  BY <1>3, LimitsAssumption

\* A set of natural numbers has a least member.
LEMMA Least ==
    ASSUME NEW T \in SUBSET Nat, T # {}
    PROVE  Min(T) \in T /\ \A x \in T : Min(T) <= x
<1>1. PICK least \in T : \A y \in T : ~ (<<y, least>> \in OpToRel(<, Nat))
  BY WFMin, NatLessThanWellFounded
<1>2. ASSUME NEW y \in T PROVE ~ (y < least)
  <2>1. <<y, least>> \in Nat \X Nat /\ <<y, least>> \notin OpToRel(<, Nat)
    BY <1>1
  <2> QED
    BY <2>1 DEF OpToRel
<1>3. ASSUME NEW y \in T PROVE least <= y
  <2>1. y \in Nat /\ least \in Nat /\ ~ (y < least)
    BY <1>1, <1>2
  <2> QED
    BY <2>1
<1> QED
  BY <1>1, <1>3 DEF Min

\* What CleanUp is to remove: all but the number of files it is given, and all
\* files that have reached the age limit, as the files are sorted.
LEMMA RemovedIs ==
    ASSUME NEW fs \in Seq(Log), NEW amb \in Int, MaxBackups > 0 => amb >= 0
    PROVE  /\ Removed(fs, amb) \in 0 .. Len(fs)
           /\ MaxBackups > 0 => Len(fs) - Removed(fs, amb) <= amb
           /\ Sorted(fs) /\ MaxAge > 0 =>
                  \A k \in Removed(fs, amb) + 1 .. Len(fs) : fs[k].age < MaxAge
<1> DEFINE i == IF MaxBackups > 0 /\ Len(fs) > amb THEN Len(fs) - amb ELSE 0
           young == {k \in i + 1 .. Len(fs) : fs[k].age < MaxAge}
<1>1. Len(fs) \in Nat /\ MaxBackups \in Nat /\ MaxAge \in Nat
  BY LimitsAssumption, LenProperties
<1>2. i \in 0 .. Len(fs) /\ (MaxBackups > 0 => Len(fs) - i <= amb)
  BY <1>1
<1>3. Removed(fs, amb) = IF MaxAge = 0 THEN i ELSE IF young = {} THEN Len(fs) ELSE Min(young) - 1
  BY DEF Removed
<1>4. young \in SUBSET (i + 1 .. Len(fs)) /\ young \in SUBSET Nat
  BY <1>1, <1>2
<1> HIDE DEF i
<1>5. CASE MaxAge = 0
  BY <1>1, <1>2, <1>3, <1>5
<1>6. CASE MaxAge # 0 /\ young = {}
  <2>1. Removed(fs, amb) = Len(fs)
    BY <1>3, <1>6
  <2> QED
    BY <2>1, <1>1, <1>2
<1>7. CASE MaxAge # 0 /\ young # {}
  <2>1. Min(young) \in young
    BY <1>4, <1>7, Least
  <2>2. Min(young) \in i + 1 .. Len(fs) /\ fs[Min(young)].age < MaxAge
    BY <2>1
  <2>3. Removed(fs, amb) = Min(young) - 1
    BY <1>3, <1>7
  <2> HIDE DEF young
  <2>4. Removed(fs, amb) \in i .. Len(fs) - 1
    BY <2>2, <2>3, <1>1, <1>2
  <2>5. ASSUME Sorted(fs), NEW k \in Removed(fs, amb) + 1 .. Len(fs) PROVE fs[k].age < MaxAge
    <3>1. k \in Min(young) .. Len(fs) /\ Min(young) \in DOMAIN fs /\ k \in DOMAIN fs
      BY <2>2, <2>3, <2>5, <1>1, <1>2, LenProperties
    <3>2. fs[k] \in Log /\ fs[Min(young)] \in Log
      BY <3>1, LenProperties
    <3>3. fs[k].age \in Nat /\ fs[Min(young)].age \in Nat
      BY <3>2, <1>1, SMTT(30) DEF Log
    <3>4. fs[k].age <= fs[Min(young)].age
      <4>1. CASE k = Min(young)
        BY <4>1, <3>3
      <4>2. CASE k # Min(young)
        <5>1. Min(young) < k
          BY <3>1, <4>2, <1>1, <1>2, <2>2
        <5> QED
          BY <3>1, <5>1, <2>5 DEF Sorted
      <4> QED
        BY <4>1, <4>2
    <3> QED
      BY <3>4, <3>3, <2>2, <1>1
  <2> QED
    BY <2>4, <2>5, <1>1, <1>2
<1> QED
  BY <1>5, <1>6, <1>7

\* The files that cleanup leaves: those it could not remove come first.
LEMMA CleanedUp ==
    ASSUME NEW fs \in Seq(Log), NEW amb \in Int, MaxBackups > 0 => amb >= 0, NEW left \in cleanup(fs, amb)
    PROVE  /\ left \in Seq(Log)
           /\ MaxBackups > 0 => \A k \in 1 .. Len(left) - amb : left[k].stuck
           /\ Sorted(fs) => /\ Sorted(left)
                            /\ MaxAge > 0 => \A k \in DOMAIN left : left[k].age = MaxAge => left[k].stuck
<1>1. PICK gone : gone = Removed(fs, amb)
  OBVIOUS
<1>2. /\ gone \in 0 .. Len(fs) /\ (MaxBackups > 0 => Len(fs) - gone <= amb)
      /\ Sorted(fs) /\ MaxAge > 0 => \A k \in gone + 1 .. Len(fs) : fs[k].age < MaxAge
  BY <1>1, RemovedIs
<1>3. PICK len \in Nat : len = Len(fs) /\ DOMAIN fs = 1 .. len /\ gone \in 0 .. len
  BY <1>2, LenProperties
<1>4. PICK h \in Failing(gone) : left = Left(fs, gone, h)
  BY <1>1 DEF cleanup
<1>5. PICK m \in 0 .. StuckBound : h \in [1 .. m -> 1 .. gone]
  BY <1>4 DEF Failing
<1>6. \A j, k \in 1 .. m : j < k => h[j] < h[k]
  BY <1>4, <1>5 DEF Failing
<1> DEFINE kept == [k \in 1 .. m |-> [fs[h[k]] EXCEPT !.stuck = TRUE]]
           rest == SubSeq(fs, gone + 1, Len(fs))
<1>7. left = kept \o rest
  BY <1>4, <1>5 DEF Left
<1>8. m \in Nat
  BY <1>5, LimitsAssumption
<1>9. ASSUME NEW k \in 1 .. m
      PROVE  /\ h[k] \in 1 .. gone /\ h[k] \in 1 .. len
             /\ kept[k] \in Log /\ kept[k].age = fs[h[k]].age /\ kept[k].stuck = TRUE
  <2>1. h[k] \in 1 .. gone /\ h[k] \in 1 .. len
    BY <1>3, <1>5, <1>9
  <2>2. fs[h[k]] \in Log
    BY <2>1, <1>3, ElementOfSeq
  <2>3. kept[k] = [fs[h[k]] EXCEPT !.stuck = TRUE]
    OBVIOUS
  <2> HIDE DEF kept
  <2> QED
    BY <2>1, <2>2, <2>3 DEF Log
<1>10. kept \in Seq(Log) /\ Len(kept) = m
  <2>1. DOMAIN kept = 1 .. m /\ kept = [k \in 1 .. m |-> kept[k]]
    OBVIOUS
  <2>2. \A k \in 1 .. m : kept[k] \in Log
    BY <1>9
  <2> HIDE DEF kept
  <2>3. kept \in [1 .. m -> Log]
    BY <2>1, <2>2
  <2>4. kept \in Seq(Log)
    BY <2>3, <1>8, SeqDef
  <2>5. DOMAIN kept = 1 .. Len(kept) /\ Len(kept) \in Nat
    BY <2>4, LenProperties
  <2> QED
    BY <2>1, <2>4, <2>5, <1>8
<1>11. \A k \in gone + 1 .. len : fs[k] \in Log
  BY <1>2, <1>3, ElementOfSeq
<1>12. /\ rest \in Seq(Log) /\ Len(rest) = len - gone
       /\ \A k \in 1 .. len - gone : rest[k] = fs[gone + k]
  <2>1. gone + 1 \in Int /\ Len(fs) \in Int
    BY <1>2, <1>3
  <2>2. /\ rest \in Seq(Log)
        /\ Len(rest) = IF gone + 1 <= Len(fs) THEN Len(fs) - (gone + 1) + 1 ELSE 0
        /\ \A k \in 1 .. Len(fs) - (gone + 1) + 1 : rest[k] = fs[gone + 1 + k - 1]
    BY <2>1, <1>3, <1>11, SubSeqProperties, SMTT(30)
  <2>3. PICK g \in Nat : g = gone /\ g <= len
    BY <1>3
  <2>4. /\ len - (g + 1) + 1 = len - g
        /\ (IF g + 1 <= len THEN len - (g + 1) + 1 ELSE 0) = len - g
        /\ \A k \in 1 .. len - g : g + 1 + k - 1 = g + k
    BY <2>3
  <2> HIDE DEF rest
  <2> QED
    BY <2>2, <2>3, <2>4, <1>3
<1> HIDE DEF kept, rest
<1>13. PICK l \in Nat : l = len - gone
  <2>1. len - gone \in Nat
    BY <1>3
  <2> QED
    BY <2>1
<1>14. /\ left \in Seq(Log) /\ Len(left) = m + l
       /\ \A k \in 1 .. m + l : left[k] = IF k <= m THEN kept[k] ELSE rest[k - m]
  <2>1. /\ kept \o rest \in Seq(Log) /\ Len(kept \o rest) = Len(kept) + Len(rest)
        /\ \A k \in 1 .. Len(kept) + Len(rest) :
              (kept \o rest)[k] = IF k <= Len(kept) THEN kept[k] ELSE rest[k - Len(kept)]
    BY <1>10, <1>12, ConcatProperties
  <2>2. Len(kept) = m /\ Len(rest) = l
    BY <1>10, <1>12, <1>13
  <2> QED
    BY <2>1, <2>2, <1>7, Zenon
<1>15. DOMAIN left = 1 .. m + l
  BY <1>8, <1>13, <1>14, LenProperties
<1>16. ASSUME NEW k \in 1 .. m PROVE left[k].stuck = TRUE /\ left[k].age = fs[h[k]].age
  <2>1. k \in 1 .. m + l /\ k <= m
    BY <1>8, <1>13
  <2>2. left[k] = kept[k]
    BY <2>1, <1>14
  <2> QED
    BY <2>2, <1>9
<1>17. ASSUME NEW k \in m + 1 .. m + l PROVE left[k] = fs[gone + (k - m)] /\ gone + (k - m) \in gone + 1 .. len
  <2>1. k \in 1 .. m + l /\ ~(k <= m) /\ k - m \in 1 .. l
    BY <1>8, <1>13
  <2> QED
    BY <2>1, <1>3, <1>12, <1>13, <1>14
<1>18. ASSUME MaxBackups > 0, NEW k \in 1 .. Len(left) - amb PROVE left[k].stuck
  <2>1. l <= amb
    BY <1>2, <1>3, <1>13, <1>18
  <2>2. k \in 1 .. m
    BY <2>1, <1>8, <1>13, <1>14
  <2> QED
    BY <2>2, <1>16
<1>19. ASSUME Sorted(fs) PROVE Sorted(left)
  <2> SUFFICES ASSUME NEW i \in 1 .. m + l, NEW j \in 1 .. m + l, i < j
               PROVE  left[j].age <= left[i].age
    BY <1>15 DEF Sorted
  <2> DEFINE Place(k) == IF k <= m THEN h[k] ELSE gone + (k - m)
  <2>1. \A k \in 1 .. m + l : Place(k) \in 1 .. len /\ left[k].age = fs[Place(k)].age
    <3> SUFFICES ASSUME NEW k \in 1 .. m + l PROVE Place(k) \in 1 .. len /\ left[k].age = fs[Place(k)].age
      OBVIOUS
    <3>1. CASE k <= m
      <4>1. k \in 1 .. m
        BY <3>1, <1>8, <1>13
      <4>2. Place(k) = h[k]
        BY <3>1
      <4> QED
        BY <4>1, <4>2, <1>9, <1>16
    <3>2. CASE ~(k <= m)
      <4>1. k \in m + 1 .. m + l
        BY <3>2, <1>8, <1>13
      <4>2. Place(k) = gone + (k - m)
        BY <3>2
      <4>3. \A g \in gone + 1 .. len : g \in 1 .. len
        BY <1>3
      <4> QED
        BY <4>1, <4>2, <4>3, <1>17
    <3> QED
      BY <3>1, <3>2
  <2>2. Place(i) < Place(j)
    <3>1. CASE j <= m
      BY <3>1, <1>6, <1>8
    <3>2. CASE i <= m /\ ~(j <= m)
      <4>1. h[i] \in 1 .. gone /\ gone + (j - m) > gone
        <5>1. i \in 1 .. m /\ j - m > 0 /\ j - m \in Int
          BY <3>2, <1>8, <1>13
        <5>2. h[i] \in 1 .. gone
          BY <5>1, <1>9
        <5>3. \A d \in Int : d > 0 => gone + d > gone
          BY <1>3
        <5> QED
          BY <5>1, <5>2, <5>3
      <4> QED
        BY <3>2, <4>1, <1>3, <1>13
    <3>3. CASE ~(i <= m)
      BY <3>3, <1>3, <1>8, <1>13
    <3> QED
      BY <3>1, <3>2, <3>3, <1>8, <1>13
  <2> HIDE DEF Place
  <2> QED
    BY <2>1, <2>2, <1>3, <1>19 DEF Sorted
<1>20. ASSUME Sorted(fs), MaxAge > 0, NEW k \in DOMAIN left, left[k].age = MaxAge PROVE left[k].stuck
  <2>1. CASE k \in 1 .. m
    BY <2>1, <1>16
  <2>2. CASE k \in m + 1 .. m + l
    <3>1. left[k].age < MaxAge
      BY <2>2, <1>2, <1>3, <1>17, <1>20
    <3> QED
      BY <3>1, <1>20, LimitsAssumption
  <2> QED
    BY <2>1, <2>2, <1>8, <1>13, <1>15
<1> QED
  BY <1>14, <1>18, <1>19, <1>20

\* A new file is the newest one.
LEMMA CreatedIs ==
    ASSUME NEW fs \in Seq(Log)
    PROVE  /\ Created(fs) \in Seq(Log) /\ Len(Created(fs)) = Len(fs) + 1
           /\ Last(Created(fs)) = [size |-> 0, age |-> 0, stuck |-> FALSE]
           /\ \A k \in 1 .. Len(fs) : Created(fs)[k] = fs[k]
           /\ Sorted(fs) => Sorted(Created(fs))
<1> DEFINE new == [size |-> 0, age |-> 0, stuck |-> FALSE]
<1>1. new \in Log
  BY LimitsAssumption DEF Log
<1>2. /\ Created(fs) \in Seq(Log) /\ Len(Created(fs)) = Len(fs) + 1
      /\ \A k \in 1 .. Len(fs) : Created(fs)[k] = fs[k]
      /\ Created(fs)[Len(fs) + 1] = new
  BY <1>1, AppendProperties DEF Created
<1>3. Len(fs) \in Nat /\ DOMAIN fs = 1 .. Len(fs) /\ DOMAIN Created(fs) = 1 .. Len(fs) + 1
  BY <1>2, LenProperties
<1>4. ASSUME Sorted(fs) PROVE Sorted(Created(fs))
  <2> SUFFICES ASSUME NEW i \in 1 .. Len(fs) + 1, NEW j \in 1 .. Len(fs) + 1, i < j
               PROVE  Created(fs)[j].age <= Created(fs)[i].age
    BY <1>3 DEF Sorted
  <2>1. CASE j = Len(fs) + 1
    <3>1. Created(fs)[j].age = 0
      BY <2>1, <1>2
    <3>2. Created(fs)[i] \in Log
      BY <1>2, <1>3, ElementOfSeq
    <3>3. Created(fs)[i].age \in Nat
      BY <3>2, LimitsAssumption DEF Log
    <3> QED
      BY <3>1, <3>3
  <2>2. CASE j # Len(fs) + 1
    <3>1. i \in 1 .. Len(fs) /\ j \in 1 .. Len(fs)
      BY <2>2, <1>3
    <3> QED
      BY <3>1, <1>2, <1>3, <1>4 DEF Sorted
  <2> QED
    BY <2>1, <2>2
<1> QED
  BY <1>2, <1>4 DEF Last

\* A write makes the newest file larger and changes nothing else.
LEMMA GrownIs ==
    ASSUME NEW fs \in Seq(Log), fs # <<>>, NEW n \in Nat
    PROVE  /\ Grown(fs, n) \in Seq(Log) /\ Len(Grown(fs, n)) = Len(fs) /\ Grown(fs, n) # <<>>
           /\ Last(Grown(fs, n)).size = Last(fs).size + n
           /\ \A k \in 1 .. Len(fs) : Grown(fs, n)[k].age = fs[k].age /\ Grown(fs, n)[k].stuck = fs[k].stuck
           /\ Sorted(fs) => Sorted(Grown(fs, n))
<1> DEFINE new == [fs[Len(fs)] EXCEPT !.size = @ + n]
<1>1. Len(fs) \in 1 .. Len(fs) /\ DOMAIN fs = 1 .. Len(fs) /\ Len(fs) \in Nat
  BY LenProperties, EmptySeq
<1>2. fs[Len(fs)] \in Log
  BY <1>1, ElementOfSeq
<1>3. /\ new \in Log /\ new.size = fs[Len(fs)].size + n
      /\ new.age = fs[Len(fs)].age /\ new.stuck = fs[Len(fs)].stuck
  <2>1. PICK x \in Log : x = fs[Len(fs)]
    BY <1>2
  <2>2. x.size + n \in Nat
    BY DEF Log
  <2>3. new = [x EXCEPT !.size = x.size + n]
    BY <2>1
  <2> HIDE DEF new
  <2>4. new \in Log /\ new.size = x.size + n /\ new.age = x.age /\ new.stuck = x.stuck
    BY <2>2, <2>3 DEF Log
  <2> QED
    BY <2>1, <2>4
<1>4. Grown(fs, n) = [fs EXCEPT ![Len(fs)] = new]
  BY <1>1, <1>2 DEF Grown
<1> HIDE DEF new
<1>5. /\ Grown(fs, n) \in Seq(Log) /\ Len(Grown(fs, n)) = Len(fs)
      /\ \A k \in 1 .. Len(fs) : Grown(fs, n)[k] = IF k = Len(fs) THEN new ELSE fs[k]
  BY <1>1, <1>3, <1>4, ExceptSeq
<1>6. \A k \in 1 .. Len(fs) : Grown(fs, n)[k].age = fs[k].age /\ Grown(fs, n)[k].stuck = fs[k].stuck
  BY <1>3, <1>5
<1>7. Grown(fs, n) # <<>> /\ DOMAIN Grown(fs, n) = 1 .. Len(fs)
  <2>1. DOMAIN Grown(fs, n) = 1 .. Len(Grown(fs, n))
    BY <1>5, LenProperties
  <2>2. Len(Grown(fs, n)) = Len(fs)
    BY <1>5
  <2>3. Len(fs) # 0 /\ Len(<<>>) = 0
    BY <1>1
  <2>4. Grown(fs, n) # <<>>
    BY <2>2, <2>3
  <2> QED
    BY <2>1, <2>2, <2>4
<1>8. Sorted(fs) => Sorted(Grown(fs, n))
  BY <1>1, <1>6, <1>7 DEF Sorted
<1> QED
  BY <1>1, <1>3, <1>5, <1>6, <1>7, <1>8 DEF Last

\* What write works on.
LEMMA CurrentIs ==
    ASSUME FilesInv, NEW cur \in Currents
    PROVE  /\ cur.files \in Seq(Log) /\ Sorted(cur.files)
           /\ cur.f \in {"nil", "open", "closed"} /\ cur.Size \in Nat
           /\ cur.f = "open" =>
                  /\ MaxBackups > 0 => \A k \in 1 .. Len(cur.files) - MaxBackups : cur.files[k].stuck
                  /\ cur.files # <<>> /\ cur.Size = Last(cur.files).size
<1>1. files \in Seq(Log) /\ f \in {"nil", "open", "closed"} /\ Size \in Nat /\ Sorted(files)
  BY DEF FilesInv, FTypeOK, Log
<1>2. CASE f # "nil"
  <2>1. cur = [files |-> files, f |-> f, Size |-> Size]
    BY <1>2 DEF Currents
  <2>2. cur.files = files /\ cur.f = f /\ cur.Size = Size
    BY <2>1
  <2> QED
    BY <2>2, <1>1, <1>2 DEF FilesInv, FilesBounded
<1>3. CASE f = "nil"
  <2>1. PICK fs \in cleanup(files, MaxBackups) : cur = Opened(fs)
    BY <1>3 DEF Currents
  <2>2. /\ fs \in Seq(Log) /\ Sorted(fs)
        /\ MaxBackups > 0 => \A k \in 1 .. Len(fs) - MaxBackups : fs[k].stuck
    BY <1>1, <2>1, CleanedUp, LimitsAssumption
  <2>3. /\ cur.files = fs
        /\ cur.f = IF fs = <<>> THEN "nil" ELSE "open"
        /\ cur.Size = IF fs = <<>> THEN 0 ELSE Last(fs).size
    BY <2>1 DEF Opened
  <2>4. ASSUME fs # <<>> PROVE Last(fs).size \in Nat
    <3>1. Len(fs) \in 1 .. Len(fs)
      BY <2>2, <2>4, EmptySeq
    <3>2. fs[Len(fs)] \in Log
      BY <2>2, <3>1, ElementOfSeq
    <3> QED
      BY <3>2 DEF Last, Log
  <2> QED
    BY <2>2, <2>3, <2>4
<1> QED
  BY <1>2, <1>3

\* The state after a write, whole or partial.
LEMMA AppendKeeps ==
    ASSUME FilesInv, NEW n \in 0 .. Longest, WriteAppend(n)
    PROVE  FilesInv'
<1>1. PICK cur \in Currents : /\ ~Full(cur) /\ cur.f = "open"
                              /\ Becomes(Grown(cur.files, n), "open", cur.Size + n)
  BY DEF WriteAppend
<1>2. /\ cur.files \in Seq(Log) /\ Sorted(cur.files) /\ cur.Size \in Nat
      /\ MaxBackups > 0 => \A k \in 1 .. Len(cur.files) - MaxBackups : cur.files[k].stuck
      /\ cur.files # <<>> /\ cur.Size = Last(cur.files).size
      /\ MaxSize > 0 => cur.Size < MaxSize
      /\ files' = Grown(cur.files, n) /\ f' = "open" /\ Size' = cur.Size + n
  BY <1>1, CurrentIs, LimitsAssumption DEF Full, Becomes
<1>3. n \in Nat /\ n <= Longest /\ MaxSize \in Nat /\ MaxBackups \in Nat /\ Longest \in Nat
  BY LongestIs, LimitsAssumption
<1>4. /\ files' \in Seq(Log) /\ Len(files') = Len(cur.files) /\ files' # <<>>
      /\ Last(files').size = Last(cur.files).size + n
      /\ \A k \in 1 .. Len(cur.files) : files'[k].stuck = cur.files[k].stuck
      /\ Sorted(files')
  BY <1>2, <1>3, GrownIs
<1>5. FTypeOK'
  BY <1>2, <1>3, <1>4, SMTT(30) DEF FTypeOK, Log
<1>6. ASSUME MaxBackups > 0, NEW k \in 1 .. Len(files') - MaxBackups PROVE files'[k].stuck
  <2>1. Len(cur.files) \in Nat
    BY <1>2, LenProperties
  <2>2. k \in 1 .. Len(cur.files) - MaxBackups /\ k \in 1 .. Len(cur.files)
    BY <2>1, <1>3, <1>4, <1>6
  <2> QED
    BY <2>2, <1>2, <1>4, <1>6
<1>7. FilesBounded'
  BY <1>2, <1>3, <1>4, <1>6 DEF FilesBounded
<1> QED
  BY <1>4, <1>5, <1>7 DEF FilesInv, Sorted

\* A rotation keeps the files sorted and within the limits.
LEMMA RotateKeeps ==
    ASSUME FilesInv, NEW n \in 0 .. Longest, WriteRotate(n)
    PROVE  /\ FilesInv'
           /\ MaxAge > 0 => \A k \in DOMAIN files' : files'[k].age = MaxAge => files'[k].stuck
<1>0. PICK cur \in Currents :
         \E fs \in cleanup(cur.files, MaxBackups - 1) : Becomes(Grown(Created(fs), n), "open", n)
  BY DEF WriteRotate
<1>1. PICK fs \in cleanup(cur.files, MaxBackups - 1) : Becomes(Grown(Created(fs), n), "open", n)
  BY <1>0
<1> DEFINE new == Created(fs)
<1>2. files' = Grown(new, n) /\ f' = "open" /\ Size' = n
  BY <1>1 DEF Becomes
<1>3. MaxBackups - 1 \in Int /\ (MaxBackups > 0 => MaxBackups - 1 >= 0)
  BY LimitsAssumption
<1>4. /\ fs \in Seq(Log) /\ Sorted(fs)
      /\ MaxBackups > 0 => \A k \in 1 .. Len(fs) - (MaxBackups - 1) : fs[k].stuck
      /\ MaxAge > 0 => \A k \in DOMAIN fs : fs[k].age = MaxAge => fs[k].stuck
  <2>1. cur.files \in Seq(Log) /\ Sorted(cur.files)
    BY CurrentIs
  <2> QED
    BY <2>1, <1>1, <1>3, CleanedUp
<1>5. /\ new \in Seq(Log) /\ Len(new) = Len(fs) + 1 /\ Last(new) = [size |-> 0, age |-> 0, stuck |-> FALSE]
      /\ \A k \in 1 .. Len(fs) : new[k] = fs[k]
      /\ Sorted(new)
  BY <1>4, CreatedIs
<1> HIDE DEF new
<1>6. Len(fs) \in Nat /\ DOMAIN fs = 1 .. Len(fs) /\ new # <<>>
  BY <1>4, <1>5, LenProperties
<1>7. n \in Nat /\ n <= Longest /\ MaxSize \in Nat /\ MaxAge \in Nat /\ MaxBackups \in Nat /\ Longest \in Nat \ {0}
  BY LongestIs, LimitsAssumption
<1>8. /\ files' \in Seq(Log) /\ Len(files') = Len(new) /\ files' # <<>>
      /\ Last(files').size = Last(new).size + n
      /\ \A k \in 1 .. Len(new) : files'[k].age = new[k].age /\ files'[k].stuck = new[k].stuck
      /\ Sorted(files')
  BY <1>2, <1>5, <1>6, <1>7, GrownIs
<1>9. FTypeOK'
  BY <1>2, <1>7, <1>8 DEF FTypeOK, Log
<1>10. Last(files').size = n
  BY <1>5, <1>7, <1>8
<1>11. ASSUME NEW k \in 1 .. Len(fs) PROVE files'[k].age = fs[k].age /\ files'[k].stuck = fs[k].stuck
  BY <1>5, <1>6, <1>8
<1>12. ASSUME MaxBackups > 0, NEW k \in 1 .. Len(files') - MaxBackups PROVE files'[k].stuck
  <2>1. k \in 1 .. Len(fs) - (MaxBackups - 1) /\ k \in 1 .. Len(fs)
    BY <1>5, <1>6, <1>7, <1>8, <1>12
  <2> QED
    BY <2>1, <1>4, <1>11, <1>12
<1>13. FilesBounded'
  BY <1>2, <1>7, <1>8, <1>10, <1>12 DEF FilesBounded
<1>14. ASSUME MaxAge > 0, NEW k \in DOMAIN files', files'[k].age = MaxAge PROVE files'[k].stuck
  <2>1. k \in 1 .. Len(fs) + 1
    BY <1>5, <1>8, LenProperties
  <2>2. CASE k = Len(fs) + 1
    <3>1. files'[k].age = 0
      BY <2>2, <1>5, <1>6, <1>8 DEF Last
    <3> QED
      BY <3>1, <1>14
  <2>3. CASE k # Len(fs) + 1
    BY <2>1, <2>3, <1>4, <1>6, <1>11, <1>14
  <2> QED
    BY <2>2, <2>3
<1>15. FilesInv'
  BY <1>8, <1>9, <1>13 DEF FilesInv, Sorted
<1> QED
  BY <1>14, <1>15

\* A write that fails.
LEMMA ErrKeeps == FilesInv /\ WriteErr => FilesInv'
<1> SUFFICES ASSUME FilesInv, WriteErr PROVE FilesInv'
  OBVIOUS
<1>1. files \in Seq(Log) /\ Size \in Nat /\ Sorted(files)
  BY DEF FilesInv, FTypeOK, Log
<1>2. CASE OpenFails
  <2>1. files' \in Seq(Log) /\ Sorted(files')
    BY <1>1, <1>2, CleanedUp, LimitsAssumption DEF OpenFails
  <2> QED
    BY <1>1, <1>2, <2>1 DEF OpenFails, FilesInv, FTypeOK, FilesBounded, Log, Sorted
<1>3. CASE RotateFails
  <2>1. PICK cur \in Currents : files' = cur.files /\ f' \in {"nil", "closed"} /\ Size' = cur.Size
    BY <1>3 DEF RotateFails, Becomes
  <2>2. cur.files \in Seq(Log) /\ Sorted(cur.files) /\ cur.Size \in Nat
    BY CurrentIs
  <2> QED
    BY <2>1, <2>2 DEF FilesInv, FTypeOK, FilesBounded, Log, Sorted
<1>4. CASE CreateFails
  <2>1. MaxBackups - 1 \in Int /\ (MaxBackups > 0 => MaxBackups - 1 >= 0)
    BY LimitsAssumption
  <2>2. PICK cur \in Currents : \E fs \in cleanup(cur.files, MaxBackups - 1) : Becomes(fs, "nil", 0)
    BY <1>4 DEF CreateFails
  <2>3. PICK fs \in cleanup(cur.files, MaxBackups - 1) : files' = fs /\ f' = "nil" /\ Size' = 0
    BY <2>2 DEF Becomes
  <2>4. cur.files \in Seq(Log) /\ Sorted(cur.files)
    BY CurrentIs
  <2>5. files' \in Seq(Log) /\ Sorted(files')
    BY <2>1, <2>3, <2>4, CleanedUp
  <2> QED
    BY <2>3, <2>5 DEF FilesInv, FTypeOK, FilesBounded, Log, Sorted
<1>5. CASE \E n \in Partial : WriteAppend(n) \/ WriteRotate(n)
  <2>1. Partial \subseteq 0 .. Longest
    BY LongestIs, LimitsAssumption DEF Partial
  <2> QED
    BY <1>5, <2>1, AppendKeeps, RotateKeeps
<1> QED
  BY <1>2, <1>3, <1>4, <1>5 DEF WriteErr

\* A write that succeeds.
LEMMA OkKeeps == FilesInv /\ WriteOk => FilesInv'
<1>1. Lengths \subseteq 0 .. Longest
  BY LongestIs, LimitsAssumption
<1> QED
  BY <1>1, AppendKeeps, RotateKeeps DEF WriteOk

\* Time passes for all files.
LEMMA TickKeeps == FilesInv /\ FTick => FilesInv'
<1> SUFFICES ASSUME FilesInv, FTick PROVE FilesInv'
  OBVIOUS
<1>1. files \in Seq(Log) /\ Sorted(files)
  BY DEF FilesInv, FTypeOK, Log
<1>2. Len(files) \in Nat /\ DOMAIN files = 1 .. Len(files)
  BY <1>1, LenProperties
<1>3. MaxAge \in Nat
  BY LimitsAssumption
<1>4. ASSUME NEW k \in 1 .. Len(files)
      PROVE  /\ files[k] \in Log /\ Older(files[k]) \in Log
             /\ Older(files[k]).size = files[k].size /\ Older(files[k]).stuck = files[k].stuck
             /\ Older(files[k]).age = IF files[k].age < MaxAge THEN files[k].age + 1 ELSE files[k].age
  <2>1. files[k] \in Log
    BY <1>1, ElementOfSeq
  <2> QED
    BY <2>1, <1>3 DEF Older, Log
<1>5. files' = [k \in 1 .. Len(files) |-> Older(files[k])] /\ f' = f /\ Size' = Size
  BY <1>2 DEF FTick
<1>6. files' \in Seq(Log) /\ Len(files') = Len(files) /\ DOMAIN files' = 1 .. Len(files)
  BY <1>2, <1>4, <1>5
<1>7. ASSUME NEW i \in 1 .. Len(files), NEW j \in 1 .. Len(files), i < j
      PROVE  files'[j].age <= files'[i].age
  <2>1. files[j].age <= files[i].age /\ files[i].age \in 0 .. MaxAge /\ files[j].age \in 0 .. MaxAge
    BY <1>1, <1>2, <1>4, <1>7 DEF Sorted, Log
  <2> QED
    BY <2>1, <1>3, <1>4, <1>5
<1>8. Sorted(files')
  BY <1>6, <1>7 DEF Sorted
<1>9. ASSUME files # <<>> PROVE files' # <<>> /\ Last(files').size = Last(files).size
  <2>1. Len(files) \in 1 .. Len(files)
    BY <1>1, <1>9, EmptySeq
  <2> QED
    BY <2>1, <1>4, <1>5, <1>6 DEF Last
<1>10. FTypeOK'
  BY <1>5, <1>6 DEF FilesInv, FTypeOK, Log
<1>11. ASSUME f = "open", MaxBackups > 0, NEW k \in 1 .. Len(files) - MaxBackups PROVE files'[k].stuck
  <2>1. k \in 1 .. Len(files) /\ files[k].stuck
    BY <1>2, <1>11, LimitsAssumption DEF FilesInv, FilesBounded
  <2> QED
    BY <2>1, <1>4, <1>5
<1>12. FilesBounded'
  BY <1>5, <1>6, <1>9, <1>11 DEF FilesInv, FilesBounded
<1> QED
  BY <1>8, <1>10, <1>12 DEF FilesInv, Sorted

\* The inductive invariant of the files: the order, and while a file is open
\* its true size and the limits, whichever calls fail and wherever loggers end.
THEOREM FilesInvariant == LoggerSpec => []FilesInv
<1>1. LoggerInit => FilesInv
  <2> SUFFICES ASSUME FInit PROVE FilesInv
    BY DEF LoggerInit
  <2>1. Files \subseteq Log
    BY LimitsAssumption DEF Files, Log
  <2>2. files \in Seq(Log) /\ Sorted(files)
    BY <2>1, LimitsAssumption, SeqMonotonic DEF FInit
  <2> QED
    BY <2>2 DEF FInit, FilesInv, FTypeOK, FilesBounded, Log
<1>2. FilesInv /\ [LoggerNext]_allVars => FilesInv'
  <2> SUFFICES ASSUME FilesInv, [LoggerNext]_allVars PROVE FilesInv'
    OBVIOUS
  <2>1. CASE UNCHANGED fvars
    BY <2>1 DEF fvars, FilesInv, FTypeOK, FilesBounded, Sorted
  <2>2. CASE CloseFile
    BY <2>2 DEF CloseFile, FilesInv, FTypeOK, FilesBounded, Sorted
  <2>3. CASE NewLogger
    BY <2>3 DEF NewLogger, FilesInv, FTypeOK, FilesBounded, Sorted
  <2> QED
    BY <2>1, <2>2, <2>3, OkKeeps, ErrKeeps, TickKeeps
    DEF LoggerNext, FlushGoroutine, DiskWrite, DiskFail, DiskEnd, Restart, allVars
<1> QED
  BY <1>1, <1>2, PTL DEF LoggerSpec

\* README.md:10 for all limits, lengths of records and directories found, and
\* whichever calls fail, the removal of files included: while a file is open
\* all but the newest MaxBackups files are ones that could not be removed, the
\* logger's count of the newest file's bytes is right, and the file passes
\* MaxSize by less than a record.
THEOREM FilesWithinLimits == LoggerSpec => []FilesBounded
<1>1. FilesInv => FilesBounded
  BY DEF FilesInv
<1> QED
  BY <1>1, FilesInvariant, PTL

\* README.md:13 for all limits and directories found: a rotation leaves no
\* file that has reached MaxAge but those it could not remove.
THEOREM RotationDeletesOld == LoggerSpec => RotationExpires
<1> DEFINE Expires == (\E n \in Lengths : WriteRotate(n)) /\ MaxAge > 0
                          => \A k \in DOMAIN files' : files'[k].age = MaxAge => files'[k].stuck
<1>1. FilesInv => [Expires]_fvars
  <2>1. Lengths \subseteq 0 .. Longest
    BY LongestIs, LimitsAssumption
  <2> QED
    BY <2>1, RotateKeeps
<1>2. LoggerSpec => [][Expires]_fvars
  BY <1>1, FilesInvariant, PTL
<1> QED
  BY <1>2 DEF RotationExpires

================================================================================
