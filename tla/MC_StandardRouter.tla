-------------------------- MODULE MC_StandardRouter --------------------------
(* Model-checking instance of StandardRouter.                                *)
EXTENDS StandardRouter, TLC

CONSTANTS p1, p2, h1, h2

\* "a/#" and "a/b", which overlap.
MCFilters == {<<"a", "#">>, <<"a", "b">>}

MCTopicNames == {<<"a", "b">>, <<"a">>}

\* Handlers are interchangeable model values.
MCSymmetry == Permutations({h1, h2})
=============================================================================
