--------------------------- MODULE MC_ContextRouter ---------------------------
(* Model-checking instance of ContextRouter.                                 *)
EXTENDS ContextRouter, TLC

CONSTANTS p1, h1, h2

\* "a/#" and the malformed "$share".
MCFilters == {<<"a", "#">>, <<"$share">>}

MCTopicNames == {<<"a">>}
=============================================================================
