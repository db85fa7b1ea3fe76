------------------------------ MODULE ConnLedger ------------------------------
(***************************************************************************)
(* What a connection pool promises, without its channel, its wrappers or    *)
(* its locks: a ledger with one entry per connection.  A connection is      *)
(* dialed by one holder, is passed on only through the idle set, is never   *)
(* held by two holders, and once released is gone for good.  A holder (an   *)
(* XConn) holds at most one connection in its life.                         *)
(***************************************************************************)
EXTENDS Naturals, FiniteSets

CONSTANTS Conns,     \* the connections the factory may create
          Holders,   \* the wrappers handed to users
          Capacity   \* the capacity of the pool

VARIABLES entry,     \* Conns -> Holders, "undialed", "idle" or "released"
          open,      \* the pool has not been closed
          served     \* the holders that were given a connection

lvars == <<entry, open, served>>

Idle == {c \in Conns : entry[c] = "idle"}

LInit == /\ entry = [c \in Conns |-> "undialed"]
         /\ open = TRUE
         /\ served = {}

\* A new connection is dialed for a new holder.
Dial(c, h) == /\ entry[c] = "undialed"
              /\ h \notin served
              /\ entry' = [entry EXCEPT ![c] = h]
              /\ served' = served \cup {h}
              /\ UNCHANGED open

\* An idle connection is given to a new holder.
Lend(c, h) == /\ entry[c] = "idle"
              /\ h \notin served
              /\ entry' = [entry EXCEPT ![c] = h]
              /\ served' = served \cup {h}
              /\ UNCHANGED open

\* A holder gives its connection back; only an open pool with room takes it.
GiveBack(c) == /\ entry[c] \in Holders
               /\ open
               /\ Cardinality(Idle) < Capacity
               /\ entry' = [entry EXCEPT ![c] = "idle"]
               /\ UNCHANGED <<open, served>>

\* A held connection is closed for good, at any time.
Discard(c) == /\ entry[c] \in Holders
              /\ entry' = [entry EXCEPT ![c] = "released"]
              /\ UNCHANGED <<open, served>>

\* Idle connections are closed only by closing the pool.
Drop(c) == /\ entry[c] = "idle"
           /\ ~open
           /\ entry' = [entry EXCEPT ![c] = "released"]
           /\ UNCHANGED <<open, served>>

Shut == /\ open
        /\ open' = FALSE
        /\ UNCHANGED <<entry, served>>

LNext == \/ Shut
         \/ \E c \in Conns : \/ GiveBack(c) \/ Discard(c) \/ Drop(c)
                             \/ \E h \in Holders : Dial(c, h) \/ Lend(c, h)

\* The pool is a ledger whose idle connections are released after Shut.
LSpec == LInit /\ [][LNext]_lvars

=============================================================================
