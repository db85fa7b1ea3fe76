----------------------------- MODULE XKwFilter -----------------------------
(***************************************************************************)
(* go-xkwfilter: an Aho-Corasick filter that replaces keywords in a stream  *)
(* by a mask.  A state of the automaton is the prefix of a keyword that     *)
(* leads to it (the code numbers them); the empty sequence is the origin.   *)
(* One step is one turn of Filter's loop.                                   *)
(***************************************************************************)
EXTENDS Naturals, Sequences, SequencesExt

CONSTANTS Dictionaries,  \* sequences of keywords to create a filter with
          Texts          \* byte streams to filter

VARIABLES kws,      \* the keywords, in the order given to New
          text,     \* the stream
          pos,      \* bytes read
          status,   \* "none", "ready", "run", "done", "failed" or "panicked"
          s, olds,  \* state of the automaton and the one before it
          buf,      \* bytes held back
          mi,       \* how many of them a keyword covers
          flag,     \* the last thing written is a mask
          out       \* what has been written, a mask being one item

vars == <<kws, text, pos, status, s, olds, buf, mi, flag, out>>

Dead == <<"-1">>     \* state -1; no keyword begins with the byte "-1"
Mask == "***"

Keywords == ToSet(kws) \ {<<>>}
States == UNION {Prefixes(k) : k \in Keywords} \cup {<<>>}

\* The bytes of the keywords in the order in which New numbers them.
Bytes == FoldLeft(LAMBDA seen, c : IF Contains(seen, c) THEN seen ELSE Append(seen, c),
                  <<>>, FlattenSeq(kws))

\* transfer, over the table tm: a byte of no keyword kills every state but
\* the origin, and the origin stays on any byte that begins no keyword.
transfer(q, c) == IF Append(q, c) \in States THEN Append(q, c)
                  ELSE IF q = <<>> THEN <<>> ELSE Dead

\* New fails to build tm when a keyword is a prefix of an earlier one (enter
\* runs past its end) or when there is no keyword (tm[0] does not exist).
Panics(k) == \/ \A i \in 1 .. Len(k) : k[i] = <<>>
             \/ \E i, j \in 1 .. Len(k) : i < j /\ k[j] # <<>> /\ IsPrefix(k[j], k[i])

\* Mutant of fm: every state fails over to the origin.
fmOrigin(q) == <<>>

\* fm, as constructFm computes it: its variable r walks back from the parent
\* of q, and is not reset between the children of one parent.
RECURSIVE fm(_)
fm(q) ==
    IF Len(q) <= 1 THEN <<>>
    ELSE LET kids == SelectSeq(Bytes, LAMBDA c : Append(Front(q), c) \in States)
             RECURSIVE follow(_, _), walk(_)
             follow(r, c) == IF transfer(r, c) # Dead THEN r ELSE follow(fm(r), c)
             walk(k) == IF k = 0 THEN Front(q) ELSE follow(fm(walk(k - 1)), kids[k])
             nth == CHOOSE k \in 1 .. Len(kids) : kids[k] = Last(q)
         IN transfer(walk(nth), Last(q))

-----------------------------------------------------------------------------
Init == /\ kws = <<>> /\ text = <<>>
        /\ pos = 0
        /\ status = "none"
        /\ s = <<>> /\ olds = <<>>
        /\ buf = <<>> /\ mi = 0
        /\ flag = FALSE
        /\ out = <<>>

\* New(mask, k...).
New(k) == /\ status = "none"
          /\ kws' = k
          /\ status' = IF Panics(k) THEN "panicked" ELSE "ready"
          /\ UNCHANGED <<text, pos, s, olds, buf, mi, flag, out>>

\* Filter is called once: its variables are its own, and it changes nothing
\* that another call would see.
Filter(t) == /\ status = "ready"
             /\ text' = t /\ status' = "run"
             /\ UNCHANGED <<kws, pos, s, olds, buf, mi, flag, out>>

\* Read a byte with state q and go on, or end at EOF: Filter returns what it
\* has written, and what is held back is lost.
Read(q) ==
    IF pos = Len(text)
    THEN status' = "done" /\ UNCHANGED <<pos, s, olds>>
    ELSE /\ pos' = pos + 1
         /\ s' = transfer(q, text[pos + 1])
         /\ olds' = q
         /\ UNCHANGED status

\* The first turn, in the state that the code calls Prepare.
Prepare == /\ status = "run"
           /\ pos = 0
           /\ Read(<<>>)
           /\ UNCHANGED <<kws, text, buf, mi, flag, out>>

\* s = -1: fall back to the failure state of the state before.
Fall == /\ status = "run"
        /\ s = Dead
        /\ s' = fm(olds) /\ olds' = Dead
        /\ UNCHANGED <<kws, text, pos, status, buf, mi, flag, out>>

\* s = 0 and olds = 0: the byte belongs to no keyword.
Pass == /\ status = "run" /\ pos > 0
        /\ s = <<>> /\ olds = <<>>
        /\ out' = Append(out, text[pos])
        /\ flag' = FALSE
        /\ Read(<<>>)
        /\ UNCHANGED <<kws, text, buf, mi>>

\* s > 0 and olds >= 0: hold the byte back.
Hold == /\ status = "run"
        /\ s \notin {Dead, <<>>} /\ olds # Dead
        /\ buf' = Append(buf, text[pos])
        /\ mi' = IF s \in Keywords THEN Len(buf) + 1 ELSE mi
        /\ Read(s)
        /\ UNCHANGED <<kws, text, flag, out>>

\* s >= 0 and olds = -1: write what the failure state does not need, unless a
\* keyword reaches into it, and take the same byte again.
Flush ==
    LET i == Len(buf) - Len(s)
        masked == mi > 0 /\ ~flag
        plain == SubSeq(buf, mi + 1, i)
    IN /\ status = "run"
       /\ s # Dead /\ olds = Dead
       /\ IF i >= mi
          THEN /\ out' = out \o (IF masked THEN <<Mask>> ELSE <<>>) \o plain
               /\ flag' = IF plain # <<>> THEN FALSE ELSE flag \/ masked
               /\ mi' = 0
               /\ buf' = SubSeq(buf, i + 1, Len(buf))
          ELSE UNCHANGED <<out, flag, mi, buf>>
       /\ s' = transfer(s, text[pos]) /\ olds' = s
       /\ UNCHANGED <<kws, text, pos, status>>

\* A write fails: Filter returns the error.
WriteFails == /\ status = "run"
              /\ \/ pos > 0 /\ s = <<>> /\ olds = <<>>
                 \/ s # Dead /\ olds = Dead /\ Len(buf) - Len(s) >= mi
              /\ status' = "failed"
              /\ UNCHANGED <<kws, text, pos, s, olds, buf, mi, flag, out>>

Next == \/ \E k \in Dictionaries : New(k)
        \/ \E t \in Texts : Filter(t)
        \/ Prepare \/ Fall \/ Pass \/ Hold \/ Flush \/ WriteFails

Spec == Init /\ [][Next]_vars

-----------------------------------------------------------------------------
(* Properties.                                                              *)

\* The places of the text that an occurrence of a keyword covers.
Covered == UNION {i .. i + Len(k) - 1 : <<i, k>> \in
                    {<<i, k>> \in (1 .. Len(text)) \X Keywords :
                        i + Len(k) - 1 <= Len(text) /\ SubSeq(text, i, i + Len(k) - 1) = k}}

\* The text with every run of the bytes at the places C replaced by one mask.
MaskedBy(C) == LET item(i) == IF i \notin C THEN <<text[i]>>
                              ELSE IF i - 1 \in C THEN <<>> ELSE <<Mask>>
               IN FlattenSeq([i \in 1 .. Len(text) |-> item(i)])

\* Keywords that contain, overlap or adjoin one another share a mask.
Masked == MaskedBy(Covered)

\* A keyword ends in a state in which the filter does not know of it: inside
\* the beginning of another keyword.
Nested == \E q \in States \ Keywords, k \in Keywords : IsSuffix(k, q)

\* A state other than the origin goes on with two bytes.
Forked == \E q \in States \ {<<>>}, c, d \in ToSet(Bytes) :
             c # d /\ {Append(q, c), Append(q, d)} \subseteq States

\* Every keyword in the stream is masked and every other byte is written
\* (README.md: a keyword that stands alone is replaced by the mask).
FilterMasks == status = "done" => out = Masked

\* When the stream ends outside any keyword, so that nothing is held back:
\* no byte is lost, doubled or moved, and none is masked but those of
\* keywords, whatever the dictionary.  Every byte of every keyword is masked
\* when no keyword lies inside the beginning of another (Flush writes such a
\* one unmasked when the other does not go on) and no two keywords part after
\* a common beginning (FilterMasks is about what happens then).
EndedFilterMasks ==
    status = "done" /\ buf = <<>> =>
        /\ \E C \in SUBSET Covered : out = MaskedBy(C)
        /\ ~Nested /\ ~Forked => out = Masked

=============================================================================
