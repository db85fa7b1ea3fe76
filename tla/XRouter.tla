------------------------------ MODULE XRouter ------------------------------
(***************************************************************************)
(* go-xrouter/xrouter.go over RouteTree and CleanPath: one tree with its    *)
(* lock per HTTP method, routes registered and removed at run time, and a   *)
(* request that takes the locks one after the other: the lookup, the lookup *)
(* of the cleaned path, and one lookup per other method for the Allow       *)
(* header.  Routes may change between any two of them.                      *)
(***************************************************************************)
EXTENDS RouteTree, CleanPath, FiniteSets

CONSTANTS Methods,       \* methods that have a tree
          Routes,        \* Methods -> routes that may be registered
          Probes,        \* paths that the properties look up
          Requests,      \* requests: records of a method and a path
          RedirectTrailingSlash, RedirectFixedPath,
          HandleOptions, HandleMethodNotAllowed  \* XConfig

VARIABLES trees,   \* Methods -> root node
          routes,  \* history: Methods -> registered paths
          call     \* the request in progress, or its answer

vars == <<trees, routes, call>>

Root == <<"/">>

\* One lookup under the read lock of a tree; an empty tree finds nothing.
Get(tree, path) == IF tree.path = <<>> THEN Miss("notRedirect") ELSE get(tree, node, path, <<>>)

-----------------------------------------------------------------------------
(* What a route means: the wildcard values with which it matches a path.  A *)
(* parameter takes a segment of the path.  When that is empty, the get of   *)
(* the code passes the parameter over, together with the slash after it     *)
(* unless another of the routes ends with the parameter.                    *)

Segment(p) == Max({i \in 0 .. Len(p) : \A j \in 1 .. i : p[j] # "/"})

\* The rest of the route against the rest of the path.
RECURSIVE MatchesFrom(_, _, _, _)
MatchesFrom(route, i, path, registered) ==
    LET rest == From(route, i)
        last == i - 1 + Segment(rest)       \* where a parameter's name ends
        value(j, k) == <<[key |-> SubSeq(route, i + 1, j), value |-> SubSeq(path, 1, k)]>>
        seg == Segment(path)
    IN CASE rest = <<>> -> IF path = <<>> THEN {<<>>} ELSE {}
         [] rest # <<>> /\ path = <<>> -> {}
         [] rest # <<>> /\ path # <<>> /\ rest[1] = "*" -> {value(Len(route), Len(path))}
         [] rest # <<>> /\ path # <<>> /\ rest[1] = ":" /\ seg > 0 ->
              {value(last, seg) \o m : m \in MatchesFrom(route, last + 1, From(path, seg + 1), registered)}
         [] rest # <<>> /\ path # <<>> /\ rest[1] = ":" /\ seg = 0 ->
              MatchesFrom(route, IF SubSeq(route, 1, last) \in registered THEN last + 1 ELSE last + 2,
                          path, registered)
         [] OTHER -> IF path[1] = rest[1] THEN MatchesFrom(route, i + 1, Tail(path), registered) ELSE {}

Matches(route, path, registered) == MatchesFrom(route, 1, path, registered)

\* The routes of a method that match a path, with the values they give.
Hits(method, path) ==
    UNION {{[h |-> r, xps |-> x, tsr |-> "notRedirect"] : x \in Matches(r, path, routes[method])} :
              r \in routes[method]}

-----------------------------------------------------------------------------
\* Answers, and where a request is.
Idle == [pc |-> "idle"]
Answer(kind, at) == call' = [pc |-> "answered", kind |-> kind, at |-> at,
                            method |-> call.method, kept |-> call.kept]

Init == /\ trees = [m \in Methods |-> node]
        /\ routes = [m \in Methods |-> {}]
        /\ call = Idle

\* The methods, of a set, under which the path of the request in progress is
\* routed.
Routed(S, routed, path) == {m \in S : \E r \in routed[m] : Matches(r, path, routed[m]) # {}}

\* history: the methods under which it has been routed since it began.
Kept(routed) == IF call.pc \in {"idle", "answered"} THEN call
                ELSE [call EXCEPT !.kept = Routed(@, routed, call.url)]

\* XRouter.Handle with a path that begins with a slash: tree.add.
Handle(m, path) ==
    LET r == add(trees[m], path, path)
    IN /\ trees' = [trees EXCEPT ![m] = r.n]
       /\ routes' = IF r.err THEN routes ELSE [routes EXCEPT ![m] = @ \cup {path}]
       /\ call' = Kept(routes')

\* XRouter.Remove: tree.remove.
Remove_(m, path) ==
    LET r == remove(trees[m], path)
    IN /\ trees' = [trees EXCEPT ![m] = r.n]
       /\ routes' = IF r.err THEN routes ELSE [routes EXCEPT ![m] = @ \ {path}]
       /\ call' = Kept(routes')

\* A request arrives.
Begin(q) == /\ call.pc \in {"idle", "answered"}
            /\ call' = [pc |-> IF q.method \in Methods THEN "get" ELSE "others",
                        method |-> q.method, url |-> q.path, path |-> q.path, hasFixed |-> FALSE,
                        allow |-> {}, todo |-> Methods \ {q.method},
                        kept |-> Routed(Methods, routes, q.path)]
            /\ UNCHANGED <<trees, routes>>

redirectPath(path, tsr) == CASE tsr = "addSlash" -> Append(path, "/")
                             [] tsr = "removeSlash" -> Front(path)
                             [] OTHER -> path

\* The lookup of ServeHTTP, and its outcomes in the order of the code.
Lookup ==
    LET r == Get(trees[call.method], call.path)
        found == r.h # NoHandle
        slash == RedirectTrailingSlash /\ r.tsr # "notRedirect"
        elsewhere == call.method # "CONNECT" /\ call.path # Root
        fixed == Clean(call.path)
        fixable == RedirectFixedPath /\ ~call.hasFixed /\ fixed # call.path
    IN /\ call.pc = "get"
       /\ \/ /\ found /\ ~call.hasFixed
             /\ Answer("handle", r.h)
          \/ /\ ~(found /\ ~call.hasFixed) /\ elsewhere /\ (slash \/ found)
             /\ Answer("redirect", redirectPath(call.path, r.tsr))
          \/ /\ ~found /\ elsewhere /\ ~slash /\ fixable
             /\ call' = [call EXCEPT !.path = fixed, !.hasFixed = TRUE]
          \/ /\ ~(found /\ ~call.hasFixed)
             /\ elsewhere => ~found /\ ~slash /\ ~fixable
             /\ call' = [call EXCEPT !.pc = "others"]
       /\ UNCHANGED <<trees, routes>>

\* Is the Allow header asked for?
asked == IF call.method = "OPTIONS" THEN HandleOptions ELSE HandleMethodNotAllowed

\* Mutant of Other: the header keeps only the last method.
OtherAlone(m) ==
    LET r == Get(trees[m], call.url)
        slash == RedirectTrailingSlash /\ r.tsr # "notRedirect"
        allowed == IF call.method = "OPTIONS" /\ call.url = <<"*">> THEN trees[m].path # <<>>
                   ELSE r.h # NoHandle \/ slash
    IN /\ call.pc = "others" /\ asked
       /\ m \in call.todo
       /\ call' = [call EXCEPT !.todo = @ \ {m},
                               !.allow = IF allowed THEN {m} ELSE @]
       /\ UNCHANGED <<trees, routes>>

\* One method of the loop of allowed, which ranges over a map: any order.
Other(m) ==
    LET r == Get(trees[m], call.url)
        slash == RedirectTrailingSlash /\ r.tsr # "notRedirect"
        allowed == IF call.method = "OPTIONS" /\ call.url = <<"*">> THEN trees[m].path # <<>>
                   ELSE r.h # NoHandle \/ slash
    IN /\ call.pc = "others" /\ asked
       /\ m \in call.todo
       /\ call' = [call EXCEPT !.todo = @ \ {m},
                               !.allow = IF allowed THEN @ \cup {m} ELSE @]
       /\ UNCHANGED <<trees, routes>>

\* The Allow header, with OPTIONS always in it, or a 404.
Finish == /\ call.pc = "others"
          /\ asked => call.todo = {}
          /\ IF call.allow = {} THEN Answer("notFound", {})
             ELSE Answer("allow", call.allow \cup {"OPTIONS"})
          /\ UNCHANGED <<trees, routes>>

Next == \/ \E m \in Methods : \E p \in Routes[m] : Handle(m, p) \/ Remove_(m, p)
        \/ \E q \in Requests : Begin(q)
        \/ Lookup
        \/ \E m \in Methods : Other(m)
        \/ Finish

Spec == Init /\ [][Next]_vars

-----------------------------------------------------------------------------
(* Properties.                                                              *)

\* A wildcard without a name, a second one in its segment, or a catch-all
\* that is not the end of the path.
Malformed(p) ==
    \E i \in 1 .. Len(p) :
        LET end == IndexAny(From(p, i), {":", "*", "/"})
        IN \/ p[i] = ":" /\ (end = 2 \/ i = Len(p) \/ (end > 0 /\ p[i + end - 1] # "/"))
           \/ p[i] = "*" /\ (end > 0 \/ i = Len(p))

\* The routes whose handles are below a node.
RECURSIVE Handles(_)
Handles(n) == {n.handle} \cup UNION {Handles(n.children[k]) : k \in 1 .. Len(n.children)}

\* No malformed route has been accepted, or none of it is left.
WellFormed(m) == \A p \in routes[m] \cup Handles(trees[m]) : ~Malformed(p)

\* The tree that a set of routes gives when none is ever removed.
Built(S) == FoldSet(LAMBDA p, n : add(n, p, p).n, node, S)

\* A tree depends on the routes it holds and on nothing else: not on the
\* order of calls, nor on removed routes, nor on adds that failed half way
\* and were undone (TestAddAndRemove, for every order).  And it passes the
\* source's own check of its nodes: priorities count the handles below and
\* order the children, maxParams and index are right.
Canonical ==
    \A m \in Methods : WellFormed(m) => trees[m] = Built(routes[m]) /\ check(trees[m])

\* A lookup finds the one registered route that matches the path, with the
\* values of its wildcards, or nothing when no route matches, whatever adds,
\* splits, joins and removals made the tree.  On a path with an empty segment
\* a route may be found that has a parameter there, which then has no value
\* (Matches); on every other path each wildcard has a value.
ServesRoutes ==
    \A m \in Methods, p \in Probes :
        LET r == Get(trees[m], p)
            wildcards(h) == {i \in 1 .. Len(h) : h[i] \in {":", "*"}}
        IN WellFormed(m) =>
              /\ Hits(m, p) = IF r.h = NoHandle THEN {} ELSE {Hit(r.h, r.xps)}
              /\ (\A i \in 2 .. Len(p) : p[i] = "/" => p[i - 1] # "/") =>
                    Len(r.xps) = Cardinality(wildcards(r.h))

\* Is place i of the path part of a wildcard?
InWildcard(p, i) == \E k \in 1 .. i : p[k] \in {":", "*"} /\ \A j \in k .. i : p[j] # "/"

\* Two routes conflict when they part at or inside a wildcard.
Conflict(p, q) ==
    LET d == lcp(p, q) + 1
        inside(r) == d <= Len(r) /\ InWildcard(r, d)
        past(r) == inside(r) /\ InWildcard(r, d - 1)
    IN IF d <= Len(p) /\ d <= Len(q) THEN inside(p) \/ inside(q) ELSE past(p) \/ past(q)

\* The path has a second wildcard in a segment, and either a route ends where
\* that begins, and no other one goes on there, or only such other ones do: add
\* comes to the node of the first wildcard and does not look for a second one.
Overlooked(p, S) ==
    \E k, i \in 1 .. Len(p) :
        /\ k < i /\ p[k] = ":" /\ p[i] \in {":", "*"}
        /\ \A j \in k + 1 .. i - 1 : p[j] \notin {":", "*", "/"}
        /\ LET before == SubSeq(p, 1, i - 1)
               goesOn == \E q \in S : IsPrefix(Append(before, "/"), q)
           IN IF before \in S THEN ~goesOn /\ ~Malformed(From(p, i)) ELSE goesOn

\* Handle refuses a well-formed route exactly when it is registered already
\* or in conflict with a registered one, and a malformed one unless the tree
\* makes it overlook a second wildcard: what is accepted depends on the routes
\* there are and not on the order in which routes came and went.
RefusesConflicts ==
    \A m \in Methods : WellFormed(m) => \A p \in Routes[m] :
        add(trees[m], p, p).err <=>
            IF Malformed(p) THEN ~Overlooked(p, routes[m])
            ELSE p \in routes[m] \/ \E q \in routes[m] : Conflict(p, q)

\* A path that is found only with a slash added to it, or taken from it, is
\* redirected there (XConfig.RedirectTrailingSlash), and no path is sent back
\* and forth between the two.
TrailingSlashFound ==
    \A m \in Methods, p \in Probes :
        LET tsr(q) == Get(trees[m], q).tsr
        IN WellFormed(m) /\ Last(p) # "/" =>
              /\ (Hits(m, p) = {} /\ Hits(m, Append(p, "/")) # {}) => tsr(p) = "addSlash"
              /\ (Hits(m, p) # {} /\ Hits(m, Append(p, "/")) = {}) => tsr(Append(p, "/")) = "removeSlash"
              /\ ~(tsr(p) = "addSlash" /\ tsr(Append(p, "/")) = "removeSlash")

\* While routes come and go between its lookups, a request whose path stays
\* routed under its method gets to a handle, and the Allow header names every
\* other method under which its path stays routed.
RoutedAnswered ==
    call.pc = "answered" =>
        /\ call.method \in call.kept => call.kind = "handle"
        /\ call.kind = "allow" => call.kept \subseteq call.at
        /\ call.kind = "notFound" /\ asked => call.kept = {}

=============================================================================
