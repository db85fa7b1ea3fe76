----------------------------- MODULE RouteTree -----------------------------
(***************************************************************************)
(* go-xrouter/tree.go: the radix tree of the HTTP router.  A path is a      *)
(* sequence of characters, because what the tree does turns on common       *)
(* prefixes; a handle is named by the path it was registered with.          *)
(* Operations that change a node return the changed node with their error.  *)
(***************************************************************************)
EXTENDS Naturals, Sequences, SequencesExt, FiniteSetsExt

CONSTANT Alphabet  \* the characters that paths use, in the order of their bytes

NoHandle == <<>>   \* nil

node == [path |-> <<>>, maxParams |-> 0, index |-> "", nt |-> "static",
         priority |-> 0, children |-> <<>>, handle |-> NoHandle]

Done(n) == [err |-> FALSE, n |-> n]
Failed(n) == [err |-> TRUE, n |-> n]

From(path, i) == SubSeq(path, i, Len(path))

\* The first place after the first one that holds a character of chars, or 0.
IndexAny(path, chars) ==
    LET at == {i \in 2 .. Len(path) : path[i] \in chars}
    IN IF at = {} THEN 0 ELSE Min(at)

lcp(a, b) == Max({i \in 0 .. Len(a) : i <= Len(b) /\ \A j \in 1 .. i : a[j] = b[j]})

-----------------------------------------------------------------------------
(* Adding a route.                                                          *)

\* A new node for the path, with a child for what follows its wildcard or
\* precedes its first one.  The node of a failed construct is thrown away.
RECURSIVE construct(_, _)
construct(path, h) ==
    LET end == IndexAny(path, {":", "*", "/"})
        wild == IndexAny(path, {":", "*"})
        head(nt, i) == [node EXCEPT !.nt = nt, !.path = SubSeq(path, 1, i), !.priority = 1,
                                    !.index = IF nt = "static" THEN path[1] ELSE "",
                                    !.maxParams = IF nt = "static" THEN 0 ELSE 1]
        child(i) == construct(From(path, i + 1), h)
        grow(nt, i) == IF i = Len(path) THEN Done([head(nt, i) EXCEPT !.handle = h])
                       ELSE IF child(i).err THEN Failed(node)
                       ELSE Done([head(nt, i) EXCEPT !.children = <<child(i).n>>,
                                                     !.maxParams = @ + child(i).n.maxParams])
    IN CASE path[1] = ":" /\ end = 0 /\ Len(path) > 1 -> grow("param", Len(path))
         [] path[1] = ":" /\ end > 2 /\ path[end] = "/" -> grow("param", end)
         [] path[1] = "*" /\ end = 0 /\ Len(path) > 1 -> grow("all", Len(path))
         [] path[1] \notin {":", "*"} -> grow("static", IF wild = 0 THEN Len(path) ELSE wild - 1)
         [] OTHER -> Failed(node)

\* Mutant of split: the new parent keeps the handle of the whole path.
splitKeeps(n, i, h) ==
    LET child == [n EXCEPT !.path = From(@, i + 1), !.index = n.path[i + 1],
                           !.nt = IF @ = "param" THEN "static" ELSE @,
                           !.maxParams = IF n.nt = "param" THEN @ - 1 ELSE @]
    IN [n EXCEPT !.path = SubSeq(@, 1, i), !.children = <<child>>,
                 !.handle = IF h = NoHandle THEN @ ELSE h,
                 !.priority = IF h = NoHandle THEN @ ELSE @ + 1]

\* Cut n's path after i characters: the rest goes to a child of its own.
split(n, i, h) ==
    LET child == [n EXCEPT !.path = From(@, i + 1), !.index = n.path[i + 1],
                           !.nt = IF @ = "param" THEN "static" ELSE @,
                           !.maxParams = IF n.nt = "param" THEN @ - 1 ELSE @]
    IN [n EXCEPT !.path = SubSeq(@, 1, i), !.children = <<child>>, !.handle = h,
                 !.priority = IF h = NoHandle THEN @ ELSE @ + 1]

\* Undo split, when the add that needed it fails.
combine(n) ==
    LET child == n.children[1]
    IN [n EXCEPT !.path = @ \o child.path, !.children = child.children, !.handle = child.handle,
                 !.priority = IF n.handle = NoHandle THEN @ ELSE @ - 1]

\* Join n with its only child, or take over the slash the child begins with.
concat(n) ==
    LET child == n.children[1]
    IN CASE child.nt = "static" /\ (n.nt = "static" \/ (n.nt = "param" /\ child.path = <<"/">>)) ->
              [n EXCEPT !.path = @ \o child.path, !.children = child.children,
                        !.handle = child.handle]
         [] child.nt = "static" /\ n.nt = "param" /\ child.index = "/" /\ child.path # <<"/">> ->
              [n EXCEPT !.path = Append(@, "/"),
                        !.children = <<[child EXCEPT !.path = Tail(@), !.index = child.path[2]]>>]
         [] OTHER -> n

\* Children by falling priority, then by index.
resort(children) ==
    LET Byte(c) == CHOOSE i \in 1 .. Len(Alphabet) : Alphabet[i] = c
        Less(a, b) == \/ a.priority > b.priority
                      \/ /\ a.priority = b.priority
                         /\ a.index # "" /\ b.index # ""
                         /\ Byte(a.index) < Byte(b.index)
    IN SortSeq(children, Less)

\* The child for the next character, or 0: a wildcard child takes them all.
childAt(n, c) ==
    LET fit == {k \in 1 .. Len(n.children) : n.children[k].nt # "static" \/ n.children[k].index = c}
    IN IF fit = {} THEN 0 ELSE Min(fit)

RECURSIVE add(_, _, _)

\* Go on below n with what follows the first i characters.  A wildcard beside
\* static children is sent to the first of them, which refuses it.
next(n, i, path, h) ==
    LET rest == From(path, i + 1)
        k == IF rest[1] \in {":", "*"} /\ n.children # <<>> /\ n.children[1].nt = "static"
             THEN 1 ELSE childAt(n, rest[1])
        r == IF k = 0 THEN construct(rest, h) ELSE add(n.children[k], rest, h)
        children == IF k = 0 THEN Append(n.children, r.n) ELSE [n.children EXCEPT ![k] = r.n]
        params == IF n.nt = "static" THEN r.n.maxParams ELSE r.n.maxParams + 1
    IN IF r.err
       THEN Failed(IF k = 0 THEN n ELSE [n EXCEPT !.children = children])
       ELSE Done([n EXCEPT !.children = resort(children), !.priority = @ + 1,
                           !.maxParams = Max({@, params})])

\* Mutant of recover: a failed add leaves the node split.
recoverNot(r) == r

\* The deferred combine of a split.
recover(r) == IF r.err THEN Failed(combine(r.n)) ELSE r

\* Join a slash that split left over with its only child.
joinSlash(n) ==
    LET child == n.children[1]
    IN IF child.handle = NoHandle /\ Len(child.children) = 1
       THEN [n EXCEPT !.children = <<concat(child)>>] ELSE n

\* Register handle h; what is left of its path starts at node n.  Below the
\* root a static node shares a character with the path or meets a wildcard,
\* because children are found by their first character.
add(n, path, h) ==
    LET i == lcp(path, n.path)
        used == i = Len(path)
        whole == i = Len(n.path)
    IN CASE n.path = <<>> -> construct(path, h)
         [] n.path # <<>> /\ n.nt # "all" /\ whole /\ ~used -> next(n, i, path, h)
         [] n.path # <<>> /\ n.nt # "all" /\ whole /\ used /\ n.handle = NoHandle ->
              Done([n EXCEPT !.handle = h, !.priority = @ + 1])
         [] n.nt = "static" /\ ~whole /\ used -> Done(split(n, i, h))
         [] n.nt = "static" /\ ~whole /\ ~used /\ i > 0 ->
              recover(next(split(n, i, NoHandle), i, path, h))
         [] n.nt = "param" /\ i = Len(n.path) - 1 /\ Last(n.path) = "/" -> Done(joinSlash(split(n, i, h)))
         [] OTHER -> Failed(n)

-----------------------------------------------------------------------------
(* Removing a route.                                                        *)

setMaxParams(nt, children) ==
    Max({0} \cup {children[k].maxParams : k \in 1 .. Len(children)})
        + (IF nt = "static" THEN 0 ELSE 1)

\* Remove the route; err says that it is not registered.
RECURSIVE remove(_, _)
remove(n, path) ==
    LET i == lcp(n.path, path)
        whole == i = Len(n.path)
        rest == From(path, i + 1)
        fit == {k \in 1 .. Len(n.children) : n.children[k].path[1] = rest[1]}
        k == Min(fit)
        r == remove(n.children[k], rest)
        children == IF r.n.priority = 0 THEN RemoveAt(n.children, k)
                    ELSE [n.children EXCEPT ![k] = r.n]
        bare == [n EXCEPT !.priority = @ - 1, !.handle = NoHandle]
        less == [n EXCEPT !.priority = @ - 1, !.children = resort(children),
                          !.maxParams = setMaxParams(n.nt, children)]
        join(m) == IF Len(m.children) = 1 /\ m.handle = NoHandle THEN concat(m) ELSE m
        wipe(m) == IF m.priority = 0 THEN [m EXCEPT !.path = <<>>, !.index = ""] ELSE m
    IN CASE whole /\ rest = <<>> /\ n.handle # NoHandle -> Done(wipe(join(bare)))
         [] whole /\ rest # <<>> /\ fit # {} -> IF r.err THEN Failed(n) ELSE Done(wipe(join(less)))
         [] OTHER -> Failed(n)

-----------------------------------------------------------------------------
(* Looking a path up.                                                       *)

existSlashChild(n) ==
    \E k \in 1 .. Len(n.children) : n.children[k].path = <<"/">> /\ n.children[k].handle # NoHandle

\* Mutant of canTSR: no slash is ever taken away.
canTSRAdds(n, parent, path, i) ==
    IF \/ n.handle # NoHandle /\ i = Len(path) /\ i = Len(n.path) - 1 /\ n.path[i + 1] = "/"
       \/ i = Len(n.path) /\ existSlashChild(n)
       \/ n.nt = "param" /\ n.handle # NoHandle /\ Last(n.path) = "/"
       \/ n.nt = "param" /\ existSlashChild(n)
    THEN "addSlash" ELSE "notRedirect"

\* Would the path be found with a slash added to its end or taken from it?
\* The lookup stopped at node n, i characters into what was left of the path.
canTSR(n, parent, path, i) ==
    LET slash == path # <<>> /\ Last(path) = "/"
        found(m) == m.handle # NoHandle
    IN CASE ~slash /\ n.nt = "static" ->
              IF \/ found(n) /\ i = Len(path) /\ i = Len(n.path) - 1 /\ n.path[i + 1] = "/"
                 \/ i = Len(n.path) /\ existSlashChild(n)
              THEN "addSlash" ELSE "notRedirect"
         [] ~slash /\ n.nt = "param" ->
              IF (found(n) /\ Last(n.path) = "/") \/ existSlashChild(n)
              THEN "addSlash" ELSE "notRedirect"
         [] slash /\ n.nt = "static" ->
              IF \/ i = Len(path) - 1 /\ i = Len(n.path) /\ found(n)
                 \/ i = Len(path) - 1 /\ i = 0 /\ found(parent)
                 \/ i = Len(path) /\ path = <<"/">> /\ found(parent)
              THEN "removeSlash" ELSE "notRedirect"
         [] slash /\ n.nt = "param" ->
              IF i = Len(path) - 1 /\ found(n) THEN "removeSlash" ELSE "notRedirect"
         [] OTHER -> "notRedirect"

\* The outcome of a lookup: handle, wildcard values and redirection.
Hit(h, xps) == [h |-> h, xps |-> xps, tsr |-> "notRedirect"]
Miss(tsr) == [h |-> NoHandle, xps |-> <<>>, tsr |-> tsr]

\* Look up what is left of the path at node n.  (The values collected by a
\* lookup that fails are dropped.)
RECURSIVE get(_, _, _, _)
get(n, parent, path, xps) ==
    LET slashed == n.nt = "param" /\ Last(n.path) = "/"
        seg == Max({i \in 0 .. Len(path) : \A j \in 1 .. i : path[j] # "/"})
        i == CASE n.nt = "static" -> lcp(path, n.path)
               [] n.nt = "param" -> IF slashed /\ seg > 0 /\ seg < Len(path) THEN seg + 1 ELSE seg
               [] n.nt = "all" -> Len(path)
        key == SubSeq(n.path, 2, IF slashed THEN Len(n.path) - 1 ELSE Len(n.path))
        value == SubSeq(path, 1, IF n.nt = "all" THEN Len(path) ELSE seg)
        found == IF n.nt = "static" \/ value = <<>> THEN xps
                 ELSE Append(xps, [key |-> key, value |-> value])
        unslashed == slashed /\ seg > 0 /\ seg = Len(path)
        passed == ~unslashed /\ (n.nt # "static" \/ i = Len(n.path))
        k == childAt(n, path[i + 1])
    IN CASE passed /\ i < Len(path) /\ k # 0 -> get(n.children[k], n, From(path, i + 1), found)
         [] passed /\ i = Len(path) /\ n.handle # NoHandle -> Hit(n.handle, found)
         [] OTHER -> Miss(canTSR(n, parent, path, i))

-----------------------------------------------------------------------------
(* What the source itself checks of a node: node.check.                     *)

RECURSIVE check(_)
check(n) ==
    LET kids == 1 .. Len(n.children)
        sum == FoldLeft(LAMBDA s, c : s + c.priority, 0, n.children)
    IN /\ \A k \in kids \ {1} : n.children[k].priority <= n.children[k - 1].priority
       /\ n.priority = sum + (IF n.handle = NoHandle THEN 0 ELSE 1)
       /\ n.maxParams = setMaxParams(n.nt, n.children)
       /\ n.path # <<>> /\ n.nt = "static" => n.index = n.path[1]
       /\ \A k \in kids : check(n.children[k])

=============================================================================
