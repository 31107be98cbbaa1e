------------------------------- MODULE Router -------------------------------
(***************************************************************************)
(* The context router of the routercontext extension (Router, in         *)
(* src/unnamed/part_000; paho/router.go's StandardContextRouter is the     *)
(* same code, module ContextRouter): the subscription registry, the      *)
(* default handler, the middleware chain, the topic-alias cache and        *)
(* Route, under the router's sync.RWMutex.                                 *)
(*                                                                         *)
(* RegisterHandler, UnregisterHandler, Use and DefaultHandler take the     *)
(* write lock around one map or slice update: each is one step, enabled    *)
(* when no Route holds the read lock.  Route holds the read lock from its  *)
(* start to its end and is split into the steps where it touches shared    *)
(* state: the alias store, the alias lookup, one step per filter of the    *)
(* map range (its handlers run there, in registration order) and the       *)
(* default handler with the deferred RUnlock.  Each process of Procs is a  *)
(* goroutine calling Route; the registry operations are the environment.   *)
(*                                                                         *)
(* A handler invocation is recorded by the events it produces: each        *)
(* middleware m contributes <<"before", m>> and <<"after", m>> around the  *)
(* <<"call", h>> of the handler.  The debug logger is left out.  The RLock *)
(* is always granted here: Go's writer preference only delays readers.     *)
(***************************************************************************)
EXTENDS Naturals, Sequences, FiniteSets, TopicMatch

CONSTANTS
    Procs,           \* goroutines that call Route
    Filters,         \* topic filters handlers are registered under
    TopicNames,      \* non-empty topic names inbound publishes carry
    Aliases,         \* topic-alias values
    NoAlias,         \* Properties.TopicAlias == nil
    Handlers,        \* handler functions
    NoHandler,       \* the nil handler
    PanicHandlers,   \* the handlers that panic when called
    Middlewares,     \* middleware functions
    RecovererMW,     \* middleware.Recoverer
    LoggerMW,        \* middleware.Logger
    MaxHandlers,     \* bound: handlers per filter
    MaxMiddlewares   \* bound: length of the middleware chain

ASSUME RouterAssumption ==
    /\ Empty \notin TopicNames
    /\ NoAlias \notin Aliases
    /\ NoHandler \notin Handlers
    /\ PanicHandlers \subseteq Handlers
    /\ MaxHandlers \in Nat /\ MaxMiddlewares \in Nat

VARIABLES
    subs,           \* r.subscriptions: an absent filter maps to << >>
    dflt,           \* r.defaultHandler
    mws,            \* r.middlewares
    aliases,        \* r.aliases: an absent alias maps to Empty
    readers,        \* goroutines holding the read lock
    pc,             \* where each goroutine is in Route
    msg,            \* the publish a goroutine routes
    topic,          \* Route's local topic
    todo,           \* filters the map range has still to visit
    handlerCalled,  \* Route's local handlerCalled
    calls,          \* events of the handler invocations of this Route
    outcome         \* how the goroutine's last Route ended

vars == <<subs, dflt, mws, aliases, readers, pc, msg, topic, todo,
          handlerCalled, calls, outcome>>

Msgs == [topic : TopicNames \cup {Empty}, alias : Aliases \cup {NoAlias}]

Events == ({"before", "after", "recovered"} \X Middlewares)
          \cup ({"call"} \X Handlers)

\* The filters present in r.subscriptions.
Keys == {f \in Filters : subs[f] # << >>}

-----------------------------------------------------------------------------
(* Middleware composition.                                                 *)

\* middleware.Recoverer applied to the result of the handler it wraps: its
\* deferred recover() ends every panic below it (and prints it).
Recoverer(m, inner) ==
    [ev |-> inner.ev \o (IF inner.panicked THEN << <<"recovered", m>> >>
                         ELSE << >>),
     panicked |-> FALSE]

\* middleware.Logger: it logs after next returns, which a panic skips.
Logger(m, inner) ==
    [ev |-> inner.ev \o (IF inner.panicked THEN << >> ELSE << <<"after", m>> >>),
     panicked |-> inner.panicked]

\* Any other middleware runs code before and after next, the latter
\* skipped by a panic.
Wrap(m, inner) ==
    CASE m = RecovererMW -> Recoverer(m, inner)
      [] m = LoggerMW    -> Logger(m, inner)
      [] OTHER ->
           [ev |-> << <<"before", m>> >> \o inner.ev
                   \o (IF inner.panicked THEN << >> ELSE << <<"after", m>> >>),
            panicked |-> inner.panicked]

\* Calling handler h itself: it panics when it is one of PanicHandlers.
Call(h) == [ev |-> << <<"call", h>> >>, panicked |-> h \in PanicHandlers]

\* Mutant of wrapHandler: the loop runs forwards, the last-registered
\* middleware becomes the outermost.
wrapHandlerForward(ms, h) ==
    LET w[k \in 0..Len(ms)] ==
            IF k = 0 THEN Call(h) ELSE Wrap(ms[k], w[k - 1])
    IN  w[Len(ms)]

\* Mutant of wrapHandler: the loop stops at i > 0 and never applies the
\* first middleware.
wrapHandlerSkipFirst(ms, h) ==
    LET w[k \in 0..Len(ms)] ==
            IF k = 0 THEN Call(h)
            ELSE IF k = Len(ms) THEN w[k - 1]
            ELSE Wrap(ms[Len(ms) - k + 1], w[k - 1])
    IN  w[Len(ms)]

\* wrapHandler and the call of its result: for i from len-1 down to 0,
\* h = middlewares[i](h).  w[k] is h after k iterations, which have applied
\* the last k middlewares.
wrapHandler(ms, h) ==
    LET w[k \in 0..Len(ms)] ==
            IF k = 0 THEN Call(h) ELSE Wrap(ms[Len(ms) - k + 1], w[k - 1])
    IN  w[Len(ms)]

\* Running the handlers hs one after another, each wrapped: a panic that
\* leaves one ends the loop (and Route).
RunAll(ms, hs) ==
    LET r[k \in 0..Len(hs)] ==
            IF k = 0 THEN [ev |-> << >>, panicked |-> FALSE]
            ELSE IF r[k - 1].panicked THEN r[k - 1]
            ELSE LET inv == wrapHandler(ms, hs[k])
                 IN  [ev |-> r[k - 1].ev \o inv.ev, panicked |-> inv.panicked]
    IN  r[Len(hs)]

-----------------------------------------------------------------------------
(* The registry operations, each under the write lock.                     *)

\* Mutant of RegisterHandler: the append without taking the write lock.
RegisterHandlerUnlocked(f, h) ==
    /\ Len(subs[f]) < MaxHandlers
    /\ subs' = [subs EXCEPT ![f] = Append(@, h)]
    /\ UNCHANGED <<dflt, mws, aliases, readers, pc, msg, topic, todo,
                   handlerCalled, calls, outcome>>

\* RegisterHandler: append h to the handlers of filter f.
RegisterHandler(f, h) ==
    /\ readers = {}
    /\ Len(subs[f]) < MaxHandlers
    /\ subs' = [subs EXCEPT ![f] = Append(@, h)]
    /\ UNCHANGED <<dflt, mws, aliases, readers, pc, msg, topic, todo,
                   handlerCalled, calls, outcome>>

\* UnregisterHandler: delete every handler of filter f.
UnregisterHandler(f) ==
    /\ readers = {}
    /\ subs' = [subs EXCEPT ![f] = << >>]
    /\ UNCHANGED <<dflt, mws, aliases, readers, pc, msg, topic, todo,
                   handlerCalled, calls, outcome>>

\* Use: append the middlewares ms (one variadic call) to the chain.
Use(ms) ==
    /\ readers = {}
    /\ Len(mws) + Len(ms) <= MaxMiddlewares
    /\ mws' = mws \o ms
    /\ UNCHANGED <<subs, dflt, aliases, readers, pc, msg, topic, todo,
                   handlerCalled, calls, outcome>>

\* DefaultHandler: set, or with nil unset, the default handler.
DefaultHandler(h) ==
    /\ readers = {}
    /\ dflt' = h
    /\ UNCHANGED <<subs, mws, aliases, readers, pc, msg, topic, todo,
                   handlerCalled, calls, outcome>>

-----------------------------------------------------------------------------
(* Route, one goroutine p.                                                 *)

\* Route's locals die when it returns (the record of its calls stays).
ClearLocals(p) ==
    /\ msg' = [msg EXCEPT ![p] = [topic |-> Empty, alias |-> NoAlias]]
    /\ topic' = [topic EXCEPT ![p] = Empty]
    /\ handlerCalled' = [handlerCalled EXCEPT ![p] = FALSE]

\* RLock, then the topic: the message's own when it has no alias, the
\* alias steps below otherwise.
RouteStart(p, m) ==
    /\ pc[p] = "idle"
    /\ readers' = readers \cup {p}
    /\ msg' = [msg EXCEPT ![p] = m]
    /\ handlerCalled' = [handlerCalled EXCEPT ![p] = FALSE]
    /\ calls' = [calls EXCEPT ![p] = << >>]
    /\ IF m.alias = NoAlias
       THEN /\ topic' = [topic EXCEPT ![p] = m.topic]
            /\ todo' = [todo EXCEPT ![p] = Keys]
            /\ pc' = [pc EXCEPT ![p] = "scan"]
       ELSE /\ topic' = [topic EXCEPT ![p] = Empty]
            /\ todo' = [todo EXCEPT ![p] = {}]
            /\ pc' = [pc EXCEPT ![p] = "store"]
    /\ UNCHANGED <<subs, dflt, mws, aliases, outcome>>

\* Mutant of AliasStore: the alias is stored even when the publish carries
\* no topic, overwriting the cached topic with the empty one.
AliasStoreUnguarded(p) ==
    /\ pc[p] = "store"
    /\ aliases' = [aliases EXCEPT ![msg[p].alias] = msg[p].topic]
    /\ pc' = [pc EXCEPT ![p] = "lookup"]
    /\ UNCHANGED <<subs, dflt, mws, readers, msg, topic, todo,
                   handlerCalled, calls, outcome>>

\* A message with an alias and a topic stores the alias, under the read
\* lock only.
AliasStore(p) ==
    /\ pc[p] = "store"
    /\ aliases' = IF msg[p].topic # Empty
                  THEN [aliases EXCEPT ![msg[p].alias] = msg[p].topic]
                  ELSE aliases
    /\ pc' = [pc EXCEPT ![p] = "lookup"]
    /\ UNCHANGED <<subs, dflt, mws, readers, msg, topic, todo,
                   handlerCalled, calls, outcome>>

\* The alias is looked up; an absent alias leaves topic empty.  The map
\* range starts.
AliasLookup(p) ==
    /\ pc[p] = "lookup"
    /\ topic' = [topic EXCEPT ![p] = aliases[msg[p].alias]]
    /\ todo' = [todo EXCEPT ![p] = Keys]
    /\ pc' = [pc EXCEPT ![p] = "scan"]
    /\ UNCHANGED <<subs, dflt, mws, aliases, readers, msg,
                   handlerCalled, calls, outcome>>

\* The range visits filter f: on a match every handler of f runs, wrapped,
\* in registration order, and none lets a panic out.
RouteFilter(p, f) ==
    /\ pc[p] = "scan"
    /\ f \in todo[p]
    /\ ~matchPanics(f, topic[p])
    /\ ~(match(f, topic[p]) /\ RunAll(mws, subs[f]).panicked)
    /\ todo' = [todo EXCEPT ![p] = @ \ {f}]
    /\ IF match(f, topic[p])
       THEN /\ calls' = [calls EXCEPT ![p] = @ \o RunAll(mws, subs[f]).ev]
            /\ handlerCalled' = [handlerCalled EXCEPT ![p] = @ \/ subs[f] # << >>]
       ELSE UNCHANGED <<calls, handlerCalled>>
    /\ UNCHANGED <<subs, dflt, mws, aliases, readers, pc, msg, topic, outcome>>

\* Mutant of HandlerPanic: the handler's panic leaves Route without the
\* deferred RUnlock running.
HandlerPanicNoUnlock(p, f) ==
    /\ pc[p] = "scan"
    /\ f \in todo[p]
    /\ ~matchPanics(f, topic[p])
    /\ match(f, topic[p])
    /\ RunAll(mws, subs[f]).panicked
    /\ calls' = [calls EXCEPT ![p] = @ \o RunAll(mws, subs[f]).ev]
    /\ todo' = [todo EXCEPT ![p] = {}]
    /\ pc' = [pc EXCEPT ![p] = "idle"]
    /\ outcome' = [outcome EXCEPT ![p] = "handler_panic"]
    /\ ClearLocals(p)
    /\ UNCHANGED <<subs, dflt, mws, aliases, readers>>

\* A handler of the matching filter f panics and no middleware recovers:
\* the panic leaves Route, whose deferred RUnlock runs; the handlers after
\* it, the rest of the range and the default handler are skipped.
HandlerPanic(p, f) ==
    /\ pc[p] = "scan"
    /\ f \in todo[p]
    /\ ~matchPanics(f, topic[p])
    /\ match(f, topic[p])
    /\ RunAll(mws, subs[f]).panicked
    /\ calls' = [calls EXCEPT ![p] = @ \o RunAll(mws, subs[f]).ev]
    /\ readers' = readers \ {p}
    /\ todo' = [todo EXCEPT ![p] = {}]
    /\ pc' = [pc EXCEPT ![p] = "idle"]
    /\ outcome' = [outcome EXCEPT ![p] = "handler_panic"]
    /\ ClearLocals(p)
    /\ UNCHANGED <<subs, dflt, mws, aliases>>

\* Mutant of RoutePanic: the read lock is not released on the panic path
\* (RUnlock called at the end of Route instead of deferred).
RoutePanicNoUnlock(p, f) ==
    /\ pc[p] = "scan"
    /\ f \in todo[p]
    /\ matchPanics(f, topic[p])
    /\ todo' = [todo EXCEPT ![p] = {}]
    /\ pc' = [pc EXCEPT ![p] = "idle"]
    /\ outcome' = [outcome EXCEPT ![p] = "panic"]
    /\ ClearLocals(p)
    /\ UNCHANGED <<subs, dflt, mws, aliases, readers, calls>>

\* match panics on filter f: Route unwinds, the deferred RUnlock runs, the
\* rest of the range and the default handler are skipped.
RoutePanic(p, f) ==
    /\ pc[p] = "scan"
    /\ f \in todo[p]
    /\ matchPanics(f, topic[p])
    /\ readers' = readers \ {p}
    /\ todo' = [todo EXCEPT ![p] = {}]
    /\ pc' = [pc EXCEPT ![p] = "idle"]
    /\ outcome' = [outcome EXCEPT ![p] = "panic"]
    /\ ClearLocals(p)
    /\ UNCHANGED <<subs, dflt, mws, aliases, calls>>

\* The range is over: the default handler runs, wrapped, when no handler
\* ran and one is set; the deferred RUnlock releases the read lock, also
\* when the default handler lets a panic out.
RouteEnd(p) ==
    /\ pc[p] = "scan"
    /\ todo[p] = {}
    /\ LET runDefault == ~handlerCalled[p] /\ dflt # NoHandler
           res == wrapHandler(mws, dflt)
       IN  /\ calls' = IF runDefault
                       THEN [calls EXCEPT ![p] = @ \o res.ev]
                       ELSE calls
           /\ outcome' = [outcome EXCEPT ![p] =
                             IF runDefault /\ res.panicked
                             THEN "handler_panic" ELSE "ok"]
    /\ readers' = readers \ {p}
    /\ pc' = [pc EXCEPT ![p] = "idle"]
    /\ ClearLocals(p)
    /\ UNCHANGED <<subs, dflt, mws, aliases, todo>>

-----------------------------------------------------------------------------
\* NewRouter: empty maps and chain, no default handler.
Init ==
    /\ subs = [f \in Filters |-> << >>]
    /\ dflt = NoHandler
    /\ mws = << >>
    /\ aliases = [a \in Aliases |-> Empty]
    /\ readers = {}
    /\ pc = [p \in Procs |-> "idle"]
    /\ msg = [p \in Procs |-> [topic |-> Empty, alias |-> NoAlias]]
    /\ topic = [p \in Procs |-> Empty]
    /\ todo = [p \in Procs |-> {}]
    /\ handlerCalled = [p \in Procs |-> FALSE]
    /\ calls = [p \in Procs |-> << >>]
    /\ outcome = [p \in Procs |-> "none"]

\* The middleware lists one Use call may pass.
UseArgs == UNION {[1..k -> Middlewares] : k \in 1..MaxMiddlewares}

Next ==
    \/ \E f \in Filters, h \in Handlers : RegisterHandler(f, h)
    \/ \E f \in Filters : UnregisterHandler(f)
    \/ \E ms \in UseArgs : Use(ms)
    \/ \E h \in Handlers \cup {NoHandler} : DefaultHandler(h)
    \/ \E p \in Procs :
          \/ \E m \in Msgs : RouteStart(p, m)
          \/ AliasStore(p)
          \/ AliasLookup(p)
          \/ \E f \in Filters :
                RouteFilter(p, f) \/ HandlerPanic(p, f) \/ RoutePanic(p, f)
          \/ RouteEnd(p)

Spec == Init /\ [][Next]_vars

-----------------------------------------------------------------------------
(* Router implements Dispatch.                                             *)

\* A goroutine at the alias store has not stored yet.
PendingStore(p) == pc[p] = "store" /\ msg[p].topic # Empty

\* The alias cache once every pending store is done.
CacheAfterStores ==
    [a \in Aliases |->
        IF \E p \in Procs : PendingStore(p) /\ msg[p].alias = a
        THEN msg[CHOOSE p \in Procs : PendingStore(p) /\ msg[p].alias = a].topic
        ELSE aliases[a]]

\* The topic a goroutine inside Route will dispatch on, once its alias
\* steps are done.
RouteTopic(p) ==
    IF pc[p] = "store" /\ msg[p].topic # Empty THEN msg[p].topic
    ELSE IF pc[p] \in {"store", "lookup"} THEN aliases[msg[p].alias]
    ELSE topic[p]

\* What a Route invoked becomes visible when it returns.
Delivered == [p \in Procs |-> IF pc[p] = "idle" THEN calls[p] ELSE << >>]

D == INSTANCE Dispatch WITH
        busy <- {p \in Procs : pc[p] # "idle"},
        topic <- [p \in Procs |-> RouteTopic(p)],
        aliases <- CacheAfterStores,
        calls <- Delivered

-----------------------------------------------------------------------------
(* Properties.                                                             *)

TypeOK ==
    /\ subs \in [Filters -> Seq(Handlers)]
    /\ dflt \in Handlers \cup {NoHandler}
    /\ mws \in Seq(Middlewares)
    /\ aliases \in [Aliases -> TopicNames \cup {Empty}]
    /\ readers \subseteq Procs
    /\ pc \in [Procs -> {"idle", "store", "lookup", "scan"}]
    /\ msg \in [Procs -> Msgs]
    /\ topic \in [Procs -> TopicNames \cup {Empty}]
    /\ todo \in [Procs -> SUBSET Filters]
    /\ handlerCalled \in [Procs -> BOOLEAN]
    /\ calls \in [Procs -> Seq(Events)]
    /\ outcome \in [Procs -> {"none", "ok", "panic", "handler_panic"}]

\* Every Route that completes without a panic has invoked exactly what the
\* spec prescribes for its topic and for the registry, chain and default
\* handler as they are when it completes: a registry change can never slip
\* into the middle of a Route, and the range, the matcher, handlerCalled
\* and wrapHandler together produce the spec's dispatch.
RouteDispatchesAsSpecified ==
    [][\A p \in Procs :
         (RouteEnd(p) /\ outcome'[p] = "ok")
            => calls'[p] \in D!Dispatches(topic[p])]_vars

\* The read lock is held by exactly the goroutines inside Route, so it is
\* given back on every way out of Route, the panic of the matcher included,
\* and the registry operations are not blocked for ever.
ReadLockReleased == readers = {p \in Procs : pc[p] # "idle"}

\* While any goroutine is inside Route, no step changes the registry (the
\* subscriptions, the default handler, the middleware chain): a Route's
\* range over r.subscriptions and its wrapHandler calls read one registry,
\* the one of its RLock, because every registry operation takes the write
\* lock and waits for the Routes to give the read lock back.
RegistryStableWhileRouting ==
    [][(\E p \in Procs : pc[p] # "idle") => UNCHANGED <<subs, dflt, mws>>]_vars

\* A goroutine accesses the alias map in its next step.
AccessesAliases(p) ==
    \/ pc[p] = "store" /\ msg[p].topic # Empty
    \/ pc[p] = "lookup"

\* No goroutine writes the alias map while another accesses it: Go maps are
\* not safe for a concurrent write (spec 4.3, 5 and 9).
AliasMapRaceFree ==
    \A p, q \in Procs :
        (p # q /\ pc[p] = "store" /\ msg[p].topic # Empty)
            => ~AccessesAliases(q)

\* A publish that carries both a topic and an alias is routed on its own
\* topic (spec 4.3: the alias is stored, then looked up).
AliasResolvesOwnTopic ==
    \A p \in Procs :
        (pc[p] = "scan" /\ msg[p].alias # NoAlias /\ msg[p].topic # Empty)
            => topic[p] = msg[p].topic

\* Route never fails outright, whatever filters are registered (spec 7).
RouteNeverPanics == \A p \in Procs : outcome[p] # "panic"

\* The router implements the spec's dispatcher: each Route is, as far as
\* the registry, the alias cache and the handlers can tell, one atomic
\* resolution of its topic followed by one atomic dispatch of it, however
\* Routes and registry operations interleave.
RouterImplementsDispatch == D!Spec

\* Whatever way a Route returns (normally, by a handler's panic or by the
\* matcher's), what it invoked is one of the invocation sequences the spec
\* allows for its topic and the registry as it is: all handlers of all
\* matching filters, each filter's in registration order, each wrapped by
\* the whole chain, the default handler only when none ran.
DeliversAsSpecified ==
    [][\A p \in Procs :
         (pc[p] # "idle" /\ pc'[p] = "idle")
             => calls'[p] \in D!Dispatches(topic[p])]_vars

=============================================================================
