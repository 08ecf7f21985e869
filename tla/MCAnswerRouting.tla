---------------------------- MODULE MCAnswerRouting -------------------------
(***************************************************************************)
(* A root and its two dependencies, of which every subset but the empty    *)
(* one is executable; both may have presets for the id they share.         *)
(***************************************************************************)
EXTENDS AnswerRouting, TLC

CONSTANTS a, b, root, k, j, v1, v2

MCNode == {a, b, root}
MCOrder == <<a, b, root>>
MCAsks == (a :> <<k>>) @@ (b :> <<k, j>>) @@ (root :> <<j>>)
MCPresets ==
    {(a :> [r \in Raw |-> IF r = k THEN p[1] ELSE None]) @@ (b :> (k :> p[2] @@ j :> p[3])) @@
     (root :> NoLocal) :
        p \in {<<None, None, None>>, <<v1, v2, None>>, <<v1, None, v2>>, <<None, v2, v2>>}}
MCExecutables == {{a, b, root}, {a, b}, {b}}
=============================================================================
