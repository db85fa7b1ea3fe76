------------------------------ MODULE MCXLogger ------------------------------
(* Model-checking instance of XLogger: the directories that the first logger *)
(* may find, from none to one with more and larger files than the limits.    *)
(* Every file can be removed (part "Pipe"), or removal may fail and there is  *)
(* one writer with fewer records (part "Files").                              *)
EXTENDS XLogger

CONSTANTS Lone,       \* part "Files": the writer
          FewRecords  \* and its records

VARIABLES part

File(size, age) == [size |-> size, age |-> age, stuck |-> FALSE]

MCBefore == {<<>>,
             <<File(1, 1)>>,
             <<File(0, 1), File(4, 1), File(2, 0), File(1, 0)>>}

Instance == IF part = "Pipe" THEN \A k \in DOMAIN files : ~files[k].stuck
            ELSE \A p \in Procs : writing[p] \in IF p = Lone THEN FewRecords \cup {None} ELSE {None}

MCInit == LoggerInit /\ part \in {"Pipe", "Files"}
MCNext == UNCHANGED part /\ LoggerNext /\ Instance'

\* A step is never held back for good: removal can succeed.
MCSpec == MCInit /\ [][MCNext]_<<part, allVars>> /\ LoggerFairness

=============================================================================
