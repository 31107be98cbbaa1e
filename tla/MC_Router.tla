------------------------------ MODULE MC_Router ------------------------------
(* Model-checking instance of Router.                                        *)
EXTENDS Router, TLC

CONSTANTS p1, p2, h1, h2, m1, m2

\* "a/#", the shared "$share/g/a/b" and the malformed "$share".
MCFilters == {<<"a", "#">>, <<"$share", "g", "a", "b">>, <<"$share">>}

\* Filters for the refinement run: "a/#" and a shared subscription
\* that overlaps it; neither makes the matcher panic.
MCRefineFilters == {<<"a", "#">>, <<"$share", "g", "a", "b">>}

\* "a/#" and "a/b": filters that cannot panic.
MCSafeFilters == {<<"a", "#">>, <<"a", "b">>}

\* Handlers and middlewares are interchangeable model values.
MCSymmetry == Permutations({h1, h2}) \cup Permutations({m1, m2})

\* Only the middlewares are interchangeable when h2 panics.
MCMiddlewareSymmetry == Permutations({m1, m2})

MCTopicNames == {<<"a", "b">>, <<"a">>}
=============================================================================
