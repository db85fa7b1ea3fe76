----------------------------- MODULE MCXKwFilter -----------------------------
(* Model-checking instance of XKwFilter with keywords of which one ends where *)
(* two others branch, and texts that end outside any keyword.                 *)
EXTENDS XKwFilter

MCDictionaries == {<<<<"a", "b", "c">>, <<"a", "b", "d", "e">>, <<"b", "d", "f">>>>}
MCTexts == {Append(t, "x") : t \in [1 .. 4 -> {"a", "b", "c", "d", "e", "f"}]}

=============================================================================
