----------------------------- MODULE MCLibraries -----------------------------
(* Model-checking instance of the libraries that stand by themselves: the HTTP *)
(* router (XRouter, RouteTree, CleanPath), the map of connection pools         *)
(* (XConnPools), the keyword filter (XKwFilter), the limiter (XLimit), the     *)
(* process id file (XPid) and the logger's configuration (XLogConfig).  A      *)
(* behaviour exercises one of them; the others stay in their initial states,   *)
(* so their states add up.                                                     *)
EXTENDS XConnPools, XLimit, XPid, XLogConfig, Sequences, TLC

CONSTANTS RedirectTrailingSlash, RedirectFixedPath,   \* XRouter
          HandleOptions, HandleMethodNotAllowed,
          Lone, FewAddrs, FewGets   \* bounds of XConnPools: see GetsBound

VARIABLES part,
          trees, routes, call,
          kws, text, pos, status, s, olds, buf, mi, flag, out,
          url  \* a path to clean, or <<>>

-----------------------------------------------------------------------------
(* Routes and requests: static splits, parameters with and without what       *)
(* follows them, catch-alls, conflicts between them, and malformed routes, of *)
(* which one is a parameter that runs on.                                     *)

MCAlphabet == <<"*", ".", "/", ":", "a", "b", "c", "x", "y">>

MCMethods == {"GET", "POST"}

P(a) == <<"/">> \o a

\* Routes below one parameter: it may run on or be followed by a catch-all.
RunOn == P(<<"a", "/", ":", "x", ":", "y">>)
CatchAll == P(<<"a", "/", ":", "x", "/", "*", "y">>)
ParamRoutes == {RunOn, CatchAll, P(<<"a">>), P(<<"a", "/", ":", "x">>),
                P(<<"a", "/", ":", "x", "/">>), P(<<"a", "/", ":", "x", "/", "b">>)}

MCRoutes == [GET |-> {P(<<>>), P(<<"a">>), P(<<"a", "/">>), P(<<"a", "/", ":", "x">>),
                      P(<<"a", "/", ":", "x", "/">>),
                      P(<<"a", "/", ":", "x", "/", "b">>), P(<<"a", "/", ":", "x", "/", "c">>),
                      P(<<"a", "/", ":", "y", "/", "b">>), P(<<"a", "/", "b">>),
                      RunOn, CatchAll,
                      P(<<"a", "c", "/", "*", "y">>), P(<<"a", "c", ":", "/", "b">>)},
             POST |-> {P(<<"a">>)}]

MCProbes == {P(<<>>), P(<<"a">>), P(<<"a", "/">>), P(<<"a", "b">>), P(<<"a", "c">>), P(<<"b">>),
             P(<<"a", "/", "b">>), P(<<"a", "/", "c">>), P(<<"a", "/", "c", "/">>),
             P(<<"a", "/", "c", "/", "b">>), P(<<"a", "/", "c", "/", "c">>),
             P(<<"a", "/", "c", "/", "b", "/">>), P(<<"a", "c", "/", "b">>),
             P(<<"/">>), P(<<"a", "/", "/">>), P(<<"a", "/", "/", "b">>), P(<<"a", "/", "/", "c">>)}

MCRequests == {[method |-> "GET", path |-> P(<<"a">>)],
               [method |-> "GET", path |-> P(<<".", "/", "a">>)],
               [method |-> "OPTIONS", path |-> P(<<"a">>)]}

\* The routes that are there while a request is served.
RequestRoutes == {P(<<>>), P(<<"a">>), P(<<"a", "/">>), P(<<"a", "/", "b">>), P(<<"a", "/", ":", "x">>),
                  P(<<"a", "/", ":", "x", "/", "b">>), P(<<"a", "c", "/", "*", "y">>)}

MCPaths == {P(p) : p \in UNION {[1 .. len -> {"/", ".", "a"}] : len \in 0 .. 6}}

\* Keywords that are alone, overlap, begin with or fail over to one another,
\* lie inside the beginning of another or part after a common beginning, an
\* empty one, and two dictionaries that New cannot build.
MCDictionaries ==
    {<<<<"a">>>>, <<<<"a", "b">>, <<>>>>, <<<<"a", "b">>, <<"b", "c">>>>,
     <<<<"a", "b">>, <<"a", "b", "c">>>>, <<<<"a", "a", "b">>>>,
     <<<<"a", "b", "a">>, <<"b", "b">>>>, <<<<"a", "a", "a">>, <<"a", "b">>>>,
     <<<<"a", "c">>, <<"c", "b", "a">>>>, <<<<"a", "b", "c", "a">>, <<"b", "c">>>>,
     <<<<"a", "b", "a">>, <<"a", "b", "c", "c">>, <<"b", "c", "a">>>>,
     <<>>, <<<<"a", "b">>, <<"a">>>>}

MCTexts == UNION {[1 .. len -> {"a", "b", "c"}] : len \in {0, 5}}

\* Sizes around the points where a hundredth decides, for each unit.
MCSizes == {unit * n + unit \div 100 + d :
               unit \in {1024, 1024 * 1024, 1024 * 1024 * 1024}, n \in {0, 1},
               d \in {0, 1, 2, 100, 1000, 10000, 100000, 1000000}}
\* The last age loses three times: a day, a week, then a month come close.
MCAges == {60 * 60 * 24 * n + d : n \in {0, 1, 7, 31, 370, 4000},
                                  d \in {59, 60, 119, 599, 3600, 6100}}
          \cup {60 * 774719}

-----------------------------------------------------------------------------
Router == INSTANCE XRouter WITH Alphabet <- MCAlphabet, Methods <- MCMethods, Routes <- MCRoutes,
                                Probes <- MCProbes, Requests <- MCRequests
Words == INSTANCE XKwFilter WITH Dictionaries <- MCDictionaries, Texts <- MCTexts

routerVars == <<trees, routes, call>>
wordVars == <<kws, text, pos, status, s, olds, buf, mi, flag, out>>
allVars == <<part, routerVars, vars, wordVars, limitVars, pidVars, configVars, url>>

Parts == {"XRouter", "XConnPools", "XKwFilter", "XLimit", "XPid", "XLogConfig", "CleanPath"}

\* Everything but the part x stands still.
Only(x) ==
    /\ part = x /\ UNCHANGED part
    /\ x # "XRouter" => UNCHANGED routerVars
    /\ x # "XConnPools" => UNCHANGED vars
    /\ x # "XKwFilter" => UNCHANGED wordVars
    /\ x # "XLimit" => UNCHANGED limitVars
    /\ x # "XPid" => UNCHANGED pidVars
    /\ x # "XLogConfig" => UNCHANGED configVars
    /\ x # "CleanPath" => UNCHANGED url

\* The two routes that are special come with those below the parameter, and
\* requests with those that decide about them.
RoutesBound == /\ \/ routes'["GET"] \subseteq ParamRoutes
                  \/ {RunOn, CatchAll} \cap routes'["GET"] = {}
               /\ call' = Router!Idle \/ routes'["GET"] \subseteq RequestRoutes

\* Several callers come to one address, where they meet; one that is alone
\* comes to all of them, and more often to one.
Alone == \A p \in Procs \ {Lone} : want'[p] = None
OneAddress == \A p \in Procs : want'[p] \in FewAddrs \cup {None}
GetsBound == /\ Alone \/ OneAddress
             /\ gets' <= FewGets \/ (Alone /\ OneAddress)

LibrariesInit == /\ part \in Parts
                 /\ Router!Init /\ Init /\ Words!Init /\ LimitInit /\ PidInit /\ ConfigInit
                 /\ url = <<>>

LibrariesNext == \/ Only("XRouter") /\ Router!Next /\ RoutesBound
                 \/ Only("XConnPools") /\ Next /\ GetsBound
                 \/ Only("XKwFilter") /\ Words!Next
                 \/ Only("XLimit") /\ LimitNext
                 \/ Only("XPid") /\ PidNext
                 \/ Only("XLogConfig") /\ ConfigNext
                 \/ Only("CleanPath") /\ url = <<>> /\ url' \in MCPaths

\* The fairness of each module, for the behaviours that exercise it.
LibrariesFairness ==
    /\ \A p \in Procs : SF_vars(part = "XConnPools" /\ GetStep(p))
    /\ SF_vars(part = "XConnPools" /\ CleanStep)
    /\ SF_vars(part = "XConnPools" /\ CleanExit)
    /\ WF_vars(part = "XConnPools" /\ CloseStep)

LibrariesSpec == LibrariesInit /\ [][LibrariesNext]_allVars /\ LibrariesFairness

-----------------------------------------------------------------------------
\* The properties of XRouter.  A request changes no tree, so the trees come in
\* all their states while there is none, and are looked at then.
AtRest == part = "XRouter" /\ call = Router!Idle
Canonical == AtRest => Router!Canonical
ServesRoutes == AtRest => Router!ServesRoutes
RefusesConflicts == AtRest => Router!RefusesConflicts
TrailingSlashFound == AtRest => Router!TrailingSlashFound
RoutedAnswered == part = "XRouter" => Router!RoutedAnswered

\* The property of the keyword filter.
EndedFilterMasks == Words!EndedFilterMasks

\* CleanPath gives what its rules say, and nothing is left to clean: the path
\* that a request is redirected to is not redirected again.
CleanCanonical == url # <<>> =>
    Router!Clean(url) = Router!CleanIs(url) /\ Router!Clean(Router!Clean(url)) = Router!Clean(url)

=============================================================================
