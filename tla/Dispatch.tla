------------------------------ MODULE Dispatch ------------------------------
(***************************************************************************)
(* What a router promises (spec 4.2, 4.3 and 4.4), with no locks and no    *)
(* intermediate steps: the registry operations, and a dispatch in two      *)
(* atomic steps.  Receive resolves the effective topic of a publish        *)
(* against the alias cache (storing the alias first when the publish also  *)
(* names a topic); Deliver performs one of the invocation sequences the    *)
(* spec allows for that topic and the registry as it then is.  Between     *)
(* the two, nothing of the dispatch is visible.                            *)
(*                                                                         *)
(* Router and StandardRouter are shown to implement this specification     *)
(* under a refinement mapping (RouterImplementsDispatch in Router).        *)
(***************************************************************************)
EXTENDS Naturals, Sequences, FiniteSets, TopicMatch

CONSTANTS
    Procs, Filters, TopicNames, Aliases, NoAlias, Handlers, NoHandler,
    Middlewares, MaxHandlers, MaxMiddlewares

VARIABLES
    subs,     \* filter -> its handlers, in registration order
    dflt,     \* the default handler, or NoHandler
    mws,      \* the middleware chain, in registration order
    aliases,  \* the alias cache: alias -> topic (Empty: absent)
    busy,     \* the dispatches in progress
    topic,    \* the effective topic of a dispatch in progress
    calls     \* what a dispatch invoked

vars == <<subs, dflt, mws, aliases, busy, topic, calls>>

\* A decoded inbound publish: its topic name and its topic alias.
Msgs == [topic : TopicNames \cup {Empty}, alias : Aliases \cup {NoAlias}]

\* The filters that have handlers.
Registered == {f \in Filters : subs[f] # << >>}

\* The middleware lists one Use call may pass.
UseArgs == UNION {[1..k -> Middlewares] : k \in 1..MaxMiddlewares}

\* One invocation of h through the chain ms (spec 4.4): m1(m2(...(h))),
\* so ms[1] sees the call first and completes last.
SpecInvocation(ms, h) ==
    [i \in 1..Len(ms) |-> <<"before", ms[i]>>]
    \o << <<"call", h>> >>
    \o [i \in 1..Len(ms) |-> <<"after", ms[Len(ms) - i + 1]>>]

\* The invocations of the handlers of the filters s[1], s[2], ... in that
\* order, each filter's handlers in registration order.
SpecRunFilters(s) ==
    LET hs(k) == subs[s[k]]
        run[k \in 0..Len(s)] ==
            IF k = 0 THEN << >>
            ELSE LET q[j \in 0..Len(hs(k))] ==
                         IF j = 0 THEN << >>
                         ELSE q[j - 1] \o SpecInvocation(mws, hs(k)[j])
                 IN  run[k - 1] \o q[Len(hs(k))]
    IN  run[Len(s)]

\* What a dispatch of topic t may invoke (spec 4.2): every handler of every
\* filter matching t, the filters in any order; the default handler only
\* when no handler ran, and nothing when there is none.
Dispatches(t) ==
    LET matched == {f \in Registered : SpecMatches(f, t)}
        orders == {s \in [1..Cardinality(matched) -> matched] :
                      \A i, j \in DOMAIN s : i # j => s[i] # s[j]}
    IN  IF matched # {} THEN {SpecRunFilters(s) : s \in orders}
        ELSE IF dflt # NoHandler THEN {SpecInvocation(mws, dflt)}
        ELSE {<< >>}

\* The alias cache after a publish m is received (spec 4.3, step 1).
StoreAlias(m) ==
    IF m.alias # NoAlias /\ m.topic # Empty
    THEN [aliases EXCEPT ![m.alias] = m.topic]
    ELSE aliases

\* The effective topic of m against the cache al (spec 4.3, step 2).
EffectiveTopic(m, al) == IF m.alias = NoAlias THEN m.topic ELSE al[m.alias]

-----------------------------------------------------------------------------
RegisterHandler(f, h) ==
    /\ Len(subs[f]) < MaxHandlers
    /\ subs' = [subs EXCEPT ![f] = Append(@, h)]
    /\ UNCHANGED <<dflt, mws, aliases, busy, topic, calls>>

UnregisterHandler(f) ==
    /\ subs' = [subs EXCEPT ![f] = << >>]
    /\ UNCHANGED <<dflt, mws, aliases, busy, topic, calls>>

Use(ms) ==
    /\ Len(mws) + Len(ms) <= MaxMiddlewares
    /\ mws' = mws \o ms
    /\ UNCHANGED <<subs, dflt, aliases, busy, topic, calls>>

DefaultHandler(h) ==
    /\ dflt' = h
    /\ UNCHANGED <<subs, mws, aliases, busy, topic, calls>>

\* Dispatch, first step: the topic is resolved.
Receive(p, m) ==
    /\ p \notin busy
    /\ busy' = busy \cup {p}
    /\ aliases' = StoreAlias(m)
    /\ topic' = [topic EXCEPT ![p] = EffectiveTopic(m, aliases')]
    /\ calls' = [calls EXCEPT ![p] = << >>]
    /\ UNCHANGED <<subs, dflt, mws>>

\* Dispatch, second step: the handlers are invoked.
Deliver(p) ==
    /\ p \in busy
    /\ busy' = busy \ {p}
    /\ \E d \in Dispatches(topic[p]) : calls' = [calls EXCEPT ![p] = d]
    /\ topic' = [topic EXCEPT ![p] = Empty]
    /\ UNCHANGED <<subs, dflt, mws, aliases>>

Init ==
    /\ subs = [f \in Filters |-> << >>]
    /\ dflt \in Handlers \cup {NoHandler}
    /\ mws = << >>
    /\ aliases = [a \in Aliases |-> Empty]
    /\ busy = {}
    /\ topic = [p \in Procs |-> Empty]
    /\ calls = [p \in Procs |-> << >>]

Next ==
    \/ \E f \in Filters, h \in Handlers : RegisterHandler(f, h)
    \/ \E f \in Filters : UnregisterHandler(f)
    \/ \E ms \in UseArgs : Use(ms)
    \/ \E h \in Handlers \cup {NoHandler} : DefaultHandler(h)
    \/ \E p \in Procs : (\E m \in Msgs : Receive(p, m)) \/ Deliver(p)

Spec == Init /\ [][Next]_vars

=============================================================================
