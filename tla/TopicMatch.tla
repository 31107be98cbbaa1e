----------------------------- MODULE TopicMatch -----------------------------
(***************************************************************************)
(* The topic matcher of paho/router.go: match, matchDeep,                  *)
(* routeIncludesTopic, routeSplit and topicSplit.                          *)
(*                                                                         *)
(* A string is modelled by what strings.Split(s, "/") returns for it: the  *)
(* non-empty sequence of its levels.  This is a bijection (a level holds   *)
(* no '/'), so string equality is sequence equality; the empty string is   *)
(* <<"">>.  strings.HasPrefix(route, "$share") only looks at the first     *)
(* level, and holds exactly when that level is one of ShareLevels, the     *)
(* levels whose text begins with "$share" ("$share" itself among them).    *)
(***************************************************************************)
EXTENDS Naturals, Sequences

CONSTANT ShareLevels

ASSUME ShareLevelsAssumption == "$share" \in ShareLevels

\* The empty string.
Empty == <<"">>

\* The strings of at most n levels over the level set L.
StringsOver(L, n) == UNION {[1..k -> L] : k \in 1..n}

\* routeSplit panics: strings.Split(route, "/")[2:] of a one-level route
\* starting with "$share" is out of range.
routeSplitPanics(route) ==
    /\ route # Empty
    /\ route[1] \in ShareLevels
    /\ Len(route) < 2

\* routeSplit: nil for the empty route, the levels after the first two for
\* a route starting with "$share", all levels otherwise.
routeSplit(route) ==
    IF route = Empty THEN << >>
    ELSE IF route[1] \in ShareLevels THEN SubSeq(route, 3, Len(route))
    ELSE route

\* topicSplit: nil for the empty topic, the levels otherwise.
topicSplit(topic) == IF topic = Empty THEN << >> ELSE topic

\* Mutant of matchDeep: an exhausted topic never matches, so "a/#" no
\* longer matches "a".
matchDeepNoZeroLevelHash(route, topic) ==
    LET md[k \in 1..(Len(route) + 1)] ==
            IF k > Len(route) THEN k > Len(topic)
            ELSE IF k > Len(topic) THEN FALSE
            ELSE IF route[k] = "#" THEN TRUE
            ELSE IF route[k] = "+" \/ route[k] = topic[k] THEN md[k + 1]
            ELSE FALSE
    IN  md[1]

\* matchDeep(route[k:], topic[k:]); both slices advance together, so one
\* index k stands for both.  The branches are the code's early returns.
matchDeep(route, topic) ==
    LET md[k \in 1..(Len(route) + 1)] ==
            IF k > Len(route) THEN k > Len(topic)
            ELSE IF k > Len(topic) THEN route[k] = "#"
            ELSE IF route[k] = "#" THEN TRUE
            ELSE IF route[k] = "+" \/ route[k] = topic[k] THEN md[k + 1]
            ELSE FALSE
    IN  md[1]

routeIncludesTopic(route, topic) ==
    matchDeep(routeSplit(route), topicSplit(topic))

\* match: the string comparison first; Go's || skips the split (and its
\* panic) when the strings are equal.
match(route, topic) == route = topic \/ routeIncludesTopic(route, topic)

\* match panics: the strings differ and routeSplit panics.
matchPanics(route, topic) == route # topic /\ routeSplitPanics(route)

-----------------------------------------------------------------------------
(* What the spec says a match is (spec 3 and 4.1, glossary), stated over   *)
(* the levels rather than as a recursion.                                  *)

\* The levels a filter selects with: a "$share/<group>/" prefix is removed.
SpecFilterLevels(f) ==
    IF f = Empty THEN << >>
    ELSE IF f[1] = "$share" THEN SubSeq(f, 3, Len(f))
    ELSE f

\* Filter levels fl select topic levels tl: up to the first "#" every level
\* is "+" or equal to the topic's; with no "#" the lengths are equal, with a
\* "#" at h the topic has at least the h - 1 levels before it.
LevelsMatch(fl, tl) ==
    LET hashes == {k \in 1..Len(fl) : fl[k] = "#"}
        Agree(k) == fl[k] = "+" \/ fl[k] = tl[k]
    IN  IF hashes = {}
        THEN Len(fl) = Len(tl) /\ \A k \in 1..Len(fl) : Agree(k)
        ELSE \E h \in hashes :
                /\ \A j \in hashes : h <= j
                /\ Len(tl) >= h - 1
                /\ \A k \in 1..(h - 1) : Agree(k)

\* Filter f matches topic t by the spec: equal strings, or the levels match.
SpecMatches(f, t) == f = t \/ LevelsMatch(SpecFilterLevels(f), topicSplit(t))

=============================================================================
