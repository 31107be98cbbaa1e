--------------------------- MODULE StandardRouter ---------------------------
(***************************************************************************)
(* StandardRouter of paho/router.go (lines 50-152): the router without     *)
(* middleware.  Its fields, its locking and the control of its Route are   *)
(* those of the context router (module Router) line for line; the only     *)
(* difference is that Route calls handler(m) and defaultHandler(m)         *)
(* directly where the context router calls wrapHandler(h)(ctx, m).  That   *)
(* is the context router with a middleware chain that is always empty,    *)
(* so each operation here is Router's operation under that instance.       *)
(***************************************************************************)
EXTENDS Naturals, Sequences

CONSTANTS
    Procs, Filters, TopicNames, ShareLevels, Aliases, NoAlias, Handlers,
    NoHandler, MaxHandlers

VARIABLES
    subs, dflt, aliases, readers, pc, msg, topic, todo, handlerCalled,
    calls, outcome

vars == <<subs, dflt, aliases, readers, pc, msg, topic, todo,
          handlerCalled, calls, outcome>>

\* StandardRouter has no middlewares field: the chain is always empty, so
\* no middleware (the Recoverer and the Logger included) is ever applied.
\* Its handlers do not panic here: a panic of a handler leaves Route as it
\* leaves the context router's Route without a Recoverer (HandlerPanic).
R == INSTANCE Router WITH
        Middlewares <- {}, MaxMiddlewares <- 0, mws <- << >>,
        RecovererMW <- NoHandler, LoggerMW <- NoHandler, PanicHandlers <- {}

\* NewStandardRouter: empty maps, no default handler.
\* NewStandardRouterWithDefault(h): the same, then DefaultHandler(h).
NewStandardRouterWithDefault(h) ==
    /\ subs = [f \in Filters |-> << >>]
    /\ dflt = h
    /\ aliases = [a \in Aliases |-> R!Empty]
    /\ readers = {}
    /\ pc = [p \in Procs |-> "idle"]
    /\ msg = [p \in Procs |-> [topic |-> R!Empty, alias |-> NoAlias]]
    /\ topic = [p \in Procs |-> R!Empty]
    /\ todo = [p \in Procs |-> {}]
    /\ handlerCalled = [p \in Procs |-> FALSE]
    /\ calls = [p \in Procs |-> << >>]
    /\ outcome = [p \in Procs |-> "none"]

\* Mutant of RegisterHandler: the append without the write lock.
RegisterHandlerUnlocked(f, h) == R!RegisterHandlerUnlocked(f, h)

\* Mutant of RegisterHandler: the handler replaces the filter's handlers
\* instead of being appended to them.
RegisterHandlerReplace(f, h) ==
    /\ readers = {}
    /\ Len(subs[f]) < MaxHandlers
    /\ subs' = [subs EXCEPT ![f] = << h >>]
    /\ UNCHANGED <<dflt, aliases, readers, pc, msg, topic, todo,
                   handlerCalled, calls, outcome>>

RegisterHandler(f, h) == R!RegisterHandler(f, h)

UnregisterHandler(f) == R!UnregisterHandler(f)

DefaultHandler(h) == R!DefaultHandler(h)

\* Route: RLock, topic or alias resolution, the map range calling each
\* matching filter's handlers unwrapped, the default handler, RUnlock.
RouteStart(p, m) == R!RouteStart(p, m)

AliasStore(p) == R!AliasStore(p)

AliasLookup(p) == R!AliasLookup(p)

RouteFilter(p, f) == R!RouteFilter(p, f)

RoutePanic(p, f) == R!RoutePanic(p, f)

RouteEnd(p) == R!RouteEnd(p)

Init == \E h \in Handlers \cup {NoHandler} : NewStandardRouterWithDefault(h)

Next ==
    \/ \E f \in Filters, h \in Handlers : RegisterHandler(f, h)
    \/ \E f \in Filters : UnregisterHandler(f)
    \/ \E h \in Handlers \cup {NoHandler} : DefaultHandler(h)
    \/ \E p \in Procs :
          \/ \E m \in R!Msgs : RouteStart(p, m)
          \/ AliasStore(p)
          \/ AliasLookup(p)
          \/ \E f \in Filters : RouteFilter(p, f) \/ RoutePanic(p, f)
          \/ RouteEnd(p)

Spec == Init /\ [][Next]_vars

-----------------------------------------------------------------------------
(* Properties.                                                             *)

\* StandardRouter implements the spec's dispatcher with no middleware:
\* each Route is one resolution of its topic followed by one dispatch of
\* the handlers registered for it, in registration order per filter, the
\* default handler only when none ran, however Routes and registry
\* operations interleave.
StandardRouterImplementsDispatch == R!D!Spec

\* When a Route of StandardRouter returns, normally or by a panic, the
\* handlers it called are the ones the spec's dispatcher calls for the topic
\* it resolved: every handler of every matching filter in registration order,
\* the filters in some order, else the default handler.
StandardDeliversAsSpecified ==
    [][\A p \in Procs :
         (pc[p] # "idle" /\ pc'[p] = "idle")
             => calls'[p] \in R!D!Dispatches(topic[p])]_vars

=============================================================================
