---------------------------- MODULE MC_TopicMatch ----------------------------
(* Checks the matcher against the spec's definition for every filter and    *)
(* topic of a bounded alphabet: each state is one (filter, topic) pair.     *)
EXTENDS TopicMatch

CONSTANTS FilterLevels, TopicLevels, MaxLevels

VARIABLES filter, topic

\* Filters: plain ones, and shared ones "<marker>/g/<plain filter>".
FilterSpace ==
    StringsOver(FilterLevels, MaxLevels)
    \cup {<<s, "g">> \o f : s \in ShareLevels, f \in StringsOver(FilterLevels, MaxLevels - 1)}
    \cup {<<s>> : s \in ShareLevels} \cup {<<s, "g">> : s \in ShareLevels}

TopicSpace == StringsOver(TopicLevels, MaxLevels)

Init == filter \in FilterSpace /\ topic \in TopicSpace

Next == \E f \in FilterSpace, t \in TopicSpace : filter' = f /\ topic' = t

Spec == Init /\ [][Next]_<<filter, topic>>

\* Wherever match does not panic, it decides as the spec's definition does:
\* "+" takes one level, "#" zero or more trailing ones, "$share/<group>/"
\* is stripped, an empty string has no levels.
MatchAgreesWithSpec ==
    ~matchPanics(filter, topic)
        => (match(filter, topic) <=> SpecMatches(filter, topic))
=============================================================================
