----------------------------- MODULE CleanPath -----------------------------
(***************************************************************************)
(* go-xrouter/path.go: the canonical form of a request path.  The code      *)
(* writes to a buffer that it allocates only when the result differs from   *)
(* a prefix of the path; here the result is a sequence of its own.          *)
(***************************************************************************)
EXTENDS Naturals, Sequences, SequencesExt, FiniteSetsExt

\* Step back over the last element of out, of which the root stays.
backtrack(out) ==
    SubSeq(out, 1, Max({1} \cup {i \in 1 .. Len(out) - 1 : out[i + 1] = "/"}))

\* Mutant of loop: two dots at the end of an element count as the parent.
RECURSIVE loopDots(_, _, _, _)
loopDots(p, r, out, trailing) ==
    LET n == Len(p)
        at(i, c) == i <= n /\ p[i] = c
        ends(i) == i = n + 1 \/ at(i, "/")
        end == Min({i \in r .. n + 1 : ends(i)})
        name == SubSeq(p, r, end - 1)
    IN CASE r = n + 1 -> IF trailing /\ Len(out) > 1 THEN Append(out, "/") ELSE out
         [] at(r, "/") -> loopDots(p, r + 1, out, trailing)
         [] at(r, ".") /\ r = n -> loopDots(p, r + 1, out, TRUE)
         [] at(r, ".") /\ at(r + 1, "/") -> loopDots(p, r + 1, out, trailing)
         [] at(r, ".") /\ at(r + 1, ".") -> loopDots(p, r + 2, backtrack(out), trailing)
         [] OTHER -> loopDots(p, end, (IF Len(out) > 1 THEN Append(out, "/") ELSE out) \o name, trailing)

\* The loop of CleanPath, from position r of p on.
RECURSIVE loop(_, _, _, _)
loop(p, r, out, trailing) ==
    LET n == Len(p)
        at(i, c) == i <= n /\ p[i] = c
        ends(i) == i = n + 1 \/ at(i, "/")
        end == Min({i \in r .. n + 1 : ends(i)})
        name == SubSeq(p, r, end - 1)
    IN CASE r = n + 1 -> IF trailing /\ Len(out) > 1 THEN Append(out, "/") ELSE out
         [] at(r, "/") -> loop(p, r + 1, out, trailing)
         [] at(r, ".") /\ r = n -> loop(p, r + 1, out, TRUE)
         [] at(r, ".") /\ at(r + 1, "/") -> loop(p, r + 1, out, trailing)
         [] at(r, ".") /\ at(r + 1, ".") /\ ends(r + 2) -> loop(p, r + 2, backtrack(out), trailing)
         [] OTHER -> loop(p, end, (IF Len(out) > 1 THEN Append(out, "/") ELSE out) \o name, trailing)

Clean(p) ==
    IF p = <<>> THEN <<"/">>
    ELSE loop(p, IF p[1] = "/" THEN 2 ELSE 1, <<"/">>, Len(p) > 2 /\ Last(p) = "/")

-----------------------------------------------------------------------------
(* What a clean path is.                                                    *)

\* The elements of a path, between its slashes.
Elements(p) ==
    LET cuts == SelectSeq([i \in 1 .. Len(p) + 1 |-> i], LAMBDA i : i > Len(p) \/ p[i] = "/")
    IN [i \in 1 .. Len(cuts) - 1 |-> SubSeq(p, cuts[i] + 1, cuts[i + 1] - 1)]

\* The names that stay when empty elements and dots are dropped and two dots
\* take away the name before them.
Names(p) ==
    FoldLeft(LAMBDA names, e : CASE e \in {<<>>, <<".">>} -> names
                                 [] e = <<".", ".">> -> IF names = <<>> THEN names ELSE Front(names)
                                 [] OTHER -> Append(names, e),
             <<>>, Elements(p))

\* path.go:10 "CleanPath is the URL version of path.Clean": the root, the names
\* with a slash between them, and the slash that the path ended in.
CleanIs(p) ==
    LET joined == FlattenSeq([i \in DOMAIN Names(p) |-> <<"/">> \o Names(p)[i]])
        slash == Last(Elements(p)) \in {<<>>, <<".">>}
    IN IF joined = <<>> THEN <<"/">> ELSE IF slash THEN Append(joined, "/") ELSE joined

=============================================================================
