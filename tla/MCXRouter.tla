------------------------------ MODULE MCXRouter ------------------------------
(* Model-checking instance of XRouter with two parameters in one place, the   *)
(* name of one a prefix of the other's.                                       *)
EXTENDS XRouter

MCAlphabet == <<"/", ":", "a", "b", "c">>
MCMethods == {"GET", "POST"}
Short == <<"/", ":", "a", "/">>
Long == <<"/", ":", "a", "b">>
MCRoutes == [m \in MCMethods |-> {Short, Long, <<"/", "b">>, <<"/", "b", "/", "c">>}]
MCProbes == {<<"/", "c">>, <<"/", "c", "/">>}
MCRequests == {[method |-> "GET", path |-> <<"/", "c">>]}

=============================================================================
