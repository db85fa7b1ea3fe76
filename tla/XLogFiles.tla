------------------------------ MODULE XLogFiles ------------------------------
(***************************************************************************)
(* go-xlog/xlog.go: the log files of one directory and what the flush       *)
(* goroutine does with them for each record: open the newest file, rotate   *)
(* to a new one when it is full, delete the oldest ones.  Listing, opening, *)
(* creating, closing, writing and removing a file may fail; CleanUp ignores *)
(* that a file could not be removed and tries again the next time.  The     *)
(* clock that names the files does not go back.  Module XLogger says which  *)
(* record is written and when.                                              *)
(***************************************************************************)
EXTENDS Integers, Sequences, SequencesExt, FiniteSetsExt

CONSTANTS MaxSize,     \* xl.ms; 0: no limit
          MaxBackups,  \* xl.mb; 0: no limit
          MaxAge,      \* xl.ma, in ticks; 0: no limit
          Lengths,     \* the lengths of records
          Before,      \* the directories the first logger may find
          SizeBound,   \* bound: no record is appended to a file this large
          StuckBound   \* bound: no more removals fail in one CleanUp

\* A log file has a size and an age, in ticks, not counted beyond MaxAge.
\* History: stuck says that the last attempt to remove it failed.
Files == [size : 0 .. SizeBound, age : 0 .. MaxAge, stuck : BOOLEAN]

\* The order of fiq.Sort: by the time of creation.
Sorted(fs) == \A i, j \in DOMAIN fs : i < j => fs[j].age <= fs[i].age

ASSUME LimitsAssumption == /\ MaxSize \in Nat /\ MaxBackups \in Nat /\ MaxAge \in Nat
                           /\ SizeBound \in Nat /\ StuckBound \in Nat
                           /\ Lengths \subseteq Nat \ {0}
                           /\ \E longest \in Lengths : \A n \in Lengths : n <= longest
                           /\ Before \subseteq Seq(Files)
                           /\ \A fs \in Before : Sorted(fs)

VARIABLES files,  \* the log files, oldest first, as fiq.Sort orders them
          f,      \* xl.f: "nil", "open" or "closed"
          Size    \* xl.f.Size, the logger's count for the file it writes

fvars == <<files, f, Size>>

FInit == /\ files \in Before
        /\ f = "nil"
        /\ Size = 0

-----------------------------------------------------------------------------
(* Operators.                                                               *)

\* Mutant of Removed: a file that has reached the age limit is young.
RemovedLate(fs, amb) ==
    LET i == IF MaxBackups > 0 /\ Len(fs) > amb THEN Len(fs) - amb ELSE 0
        young == {k \in i + 1 .. Len(fs) : fs[k].age <= MaxAge}
    IN  IF MaxAge = 0 THEN i
        ELSE IF young = {} THEN Len(fs) ELSE Min(young) - 1

\* CleanUp: how many of the oldest files to remove, first by number, then
\* by age.
Removed(fs, amb) ==
    LET i == IF MaxBackups > 0 /\ Len(fs) > amb THEN Len(fs) - amb ELSE 0
        young == {k \in i + 1 .. Len(fs) : fs[k].age < MaxAge}
    IN  IF MaxAge = 0 THEN i
        ELSE IF young = {} THEN Len(fs) ELSE Min(young) - 1

\* The ways to choose files of which removal fails, oldest first.
Failing(gone) == {h \in UNION {[1 .. m -> 1 .. gone] : m \in 0 .. StuckBound} :
                     \A j, k \in DOMAIN h : j < k => h[j] < h[k]}

\* The files left when those at the places h of the first gone are not removed.
Left(fs, gone, h) == [k \in DOMAIN h |-> [fs[h[k]] EXCEPT !.stuck = TRUE]] \o SubSeq(fs, gone + 1, Len(fs))

\* What cleanup can leave.
cleanup(fs, amb) == {Left(fs, Removed(fs, amb), h) : h \in Failing(Removed(fs, amb))}

\* Mutant of Opened: the bytes already in the file are not counted.
OpenedAtZero(fs) == [files |-> fs,
                     f     |-> IF fs = <<>> THEN "nil" ELSE "open",
                     Size  |-> 0]

\* The first branch of write has cleaned up and opens the newest of the files
\* left, if any.  Tells the files, the state of xl.f and its Size.
Opened(fs) == [files |-> fs,
               f     |-> IF fs = <<>> THEN "nil" ELSE "open",
               Size  |-> IF fs = <<>> THEN 0 ELSE Last(fs).size]

\* What write may work on after its first branch.
Currents == IF f = "nil" THEN {Opened(fs) : fs \in cleanup(files, MaxBackups)}
            ELSE {[files |-> files, f |-> f, Size |-> Size]}

Full(cur) == cur.f = "nil" \/ (MaxSize > 0 /\ cur.Size >= MaxSize)

\* createFile
Created(fs) == Append(fs, [size |-> 0, age |-> 0, stuck |-> FALSE])

\* Append n bytes to the newest of the files fs.
Grown(fs, n) == [fs EXCEPT ![Len(fs)].size = @ + n]

-----------------------------------------------------------------------------
(* write(b), for a record of which f.Write writes n bytes.                  *)

Becomes(fs, state, size) == files' = fs /\ f' = state /\ Size' = size

\* The file has room: append to it.
WriteAppend(n) == \E cur \in Currents :
                     /\ ~Full(cur)
                     /\ cur.f = "open" /\ cur.Size < SizeBound
                     /\ Becomes(Grown(cur.files, n), "open", cur.Size + n)

\* The file is full or there is none: close it, clean up, create, append.
WriteRotate(n) == \E cur \in Currents :
                     /\ Full(cur)
                     /\ cur.f # "closed"
                     /\ \E fs \in cleanup(cur.files, MaxBackups - 1) :
                           Becomes(Grown(Created(fs), n), "open", n)

\* createFileInfoQueue or os.OpenFile fails in the first branch.
OpenFails == /\ f = "nil"
             /\ files' = files \/ files' \in cleanup(files, MaxBackups)
             /\ UNCHANGED <<f, Size>>

\* Closing the full file fails, or createFileInfoQueue fails after it was
\* closed: xl.f is left closed and not nil.
RotateFails == \E cur \in Currents :
                  /\ Full(cur)
                  /\ Becomes(cur.files, IF cur.f = "nil" THEN "nil" ELSE "closed", cur.Size)

\* Creating the new file fails: xl.f becomes nil.
CreateFails == \E cur \in Currents :
                  /\ Full(cur)
                  /\ cur.f # "closed"
                  /\ \E fs \in cleanup(cur.files, MaxBackups - 1) : Becomes(fs, "nil", 0)

\* xl.write(b) returns no error: the whole record is in the newest file.
WriteOk == \E n \in Lengths : WriteAppend(n) \/ WriteRotate(n)

\* The bytes of a record that are written when f.Write returns an error.
Partial == UNION {0 .. len - 1 : len \in Lengths}

\* xl.write(b) returns an error.
WriteErr == \/ OpenFails \/ RotateFails \/ CreateFails
            \/ \E n \in Partial : WriteAppend(n) \/ WriteRotate(n)

\* flush ends: it closes the file it has.
CloseFile == /\ f' = IF f = "nil" THEN "nil" ELSE "closed"
             /\ UNCHANGED <<files, Size>>

\* A new logger has no file yet.
NewLogger == /\ f' = "nil"
             /\ Size' = 0
             /\ UNCHANGED files

Older(file) == [file EXCEPT !.age = IF @ < MaxAge THEN @ + 1 ELSE @]

\* Time passes.
FTick == /\ files' = [k \in DOMAIN files |-> Older(files[k])]
         /\ UNCHANGED <<f, Size>>

FNext == WriteOk \/ WriteErr \/ CloseFile \/ NewLogger \/ FTick

FSpec == FInit /\ [][FNext]_fvars

-----------------------------------------------------------------------------
(* Properties.                                                              *)

Longest == Max(Lengths)

\* Type invariant of the directory.
FTypeOK == /\ files \in Seq([size : Nat, age : 0 .. MaxAge, stuck : BOOLEAN])
           /\ f \in {"nil", "open", "closed"}
           /\ Size \in Nat

\* README.md:10 "the number of log files in it reaches this value at most":
\* from the first record that is written on, whatever the logger found in the
\* directory and whichever calls fail, every file but the newest MaxBackups is
\* one that could not be removed when that was last tried.  The logger's count
\* of the bytes of the newest file stays right, so rotation is never late, and
\* a file passes the size limit by less than the record that was written last.
FilesBounded ==
    f = "open" =>
        /\ MaxBackups > 0 => \A k \in 1 .. Len(files) - MaxBackups : files[k].stuck
        /\ files # <<>> /\ Size = Last(files).size
        /\ MaxSize > 0 => Last(files).size < MaxSize + Longest

\* README.md:13 "when the age of a log file exceeds this threshold, it will be
\* deleted": rotation leaves no such file but those it could not remove.
RotationExpires ==
    [][(\E n \in Lengths : WriteRotate(n)) /\ MaxAge > 0
          => \A k \in DOMAIN files' : files'[k].age = MaxAge => files'[k].stuck]_fvars

=============================================================================
