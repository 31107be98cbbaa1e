------------------------------- MODULE MC_MIDs -------------------------------
(* Model-checking instance of MIDs: three callers share an id space of      *)
(* three ids, so the space wraps, fills up and is reused within a few steps. *)
EXTENDS MIDs, TLC

CONSTANTS c1, c2, c3

MCCtx == {c1, c2, c3}

\* Callers are interchangeable: no definition depends on which one is which.
MCSymmetry == Permutations(MCCtx)
=============================================================================
