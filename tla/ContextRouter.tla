---------------------------- MODULE ContextRouter ----------------------------
(***************************************************************************)
(* StandardContextRouter of paho/router.go (lines 239-357).  Its fields,   *)
(* its locking and the control of its Route are those of the context       *)
(* router of part_000 (module Router) line for line, with two differences: *)
(*   - Use takes one middleware (Router's Use takes a list);               *)
(*   - Route creates a cancellable context, context.WithCancel, and defers *)
(*     its cancel, where part_000's Route passes context.Background().     *)
(* So each operation is Router's operation, and Route's steps also track   *)
(* the context they hand to the handlers: ctx[p] is "live" from the       *)
(* WithCancel to the deferred cancel, which runs on every way out of Route *)
(* (the two panics included), just before the deferred RUnlock.            *)
(***************************************************************************)
EXTENDS Naturals, Sequences

CONSTANTS
    Procs, Filters, TopicNames, ShareLevels, Aliases, NoAlias, Handlers,
    NoHandler, PanicHandlers, Middlewares, RecovererMW, LoggerMW,
    MaxHandlers, MaxMiddlewares

VARIABLES
    subs, dflt, mws, aliases, readers, pc, msg, topic, todo, handlerCalled,
    calls, outcome,
    ctx   \* the context of each goroutine's Route: "none", "live", "cancelled"

vars == <<subs, dflt, mws, aliases, readers, pc, msg, topic, todo,
          handlerCalled, calls, outcome, ctx>>

\* The bounds are numbers (Router states the same of its constants).
ASSUME BoundsAssumption == MaxHandlers \in Nat /\ MaxMiddlewares \in Nat

R == INSTANCE Router

\* NewStandardContextRouter: empty maps, an empty chain, no default handler.
Init == R!Init /\ ctx = [p \in Procs |-> "none"]

RegisterHandler(f, h) == R!RegisterHandler(f, h) /\ UNCHANGED ctx

UnregisterHandler(f) == R!UnregisterHandler(f) /\ UNCHANGED ctx

\* Use(m): append the one middleware m.
Use(m) == R!Use(<<m>>) /\ UNCHANGED ctx

DefaultHandler(h) == R!DefaultHandler(h) /\ UNCHANGED ctx

\* RLock, then ctx, cancel := context.WithCancel(context.Background()).
RouteStart(p, m) ==
    /\ R!RouteStart(p, m)
    /\ ctx' = [ctx EXCEPT ![p] = "live"]

AliasStore(p) == R!AliasStore(p) /\ UNCHANGED ctx

AliasLookup(p) == R!AliasLookup(p) /\ UNCHANGED ctx

RouteFilter(p, f) == R!RouteFilter(p, f) /\ UNCHANGED ctx

\* The deferred cancel() as Route returns.
Cancel(p) == ctx' = [ctx EXCEPT ![p] = "cancelled"]

\* Mutant of HandlerPanic: cancel() called at the end of Route instead of
\* deferred, so a handler's panic skips it.
HandlerPanicNoCancel(p, f) == R!HandlerPanic(p, f) /\ UNCHANGED ctx

HandlerPanic(p, f) == R!HandlerPanic(p, f) /\ Cancel(p)

RoutePanic(p, f) == R!RoutePanic(p, f) /\ Cancel(p)

RouteEnd(p) == R!RouteEnd(p) /\ Cancel(p)

\* The steps of a Route once it has started.
RouteStep(p) ==
    \/ AliasStore(p)
    \/ AliasLookup(p)
    \/ \E f \in Filters :
          RouteFilter(p, f) \/ HandlerPanic(p, f) \/ RoutePanic(p, f)
    \/ RouteEnd(p)

Next ==
    \/ \E f \in Filters, h \in Handlers : RegisterHandler(f, h)
    \/ \E f \in Filters : UnregisterHandler(f)
    \/ \E m \in Middlewares : Use(m)
    \/ \E h \in Handlers \cup {NoHandler} : DefaultHandler(h)
    \/ \E p \in Procs : (\E m \in R!Msgs : RouteStart(p, m)) \/ RouteStep(p)

Spec == Init /\ [][Next]_vars

-----------------------------------------------------------------------------
(* Properties.                                                             *)

\* The context handed to the handlers is live exactly while its Route runs:
\* every way out of Route, a handler's panic and the matcher's panic
\* included, cancels it, and no handler of a Route sees a cancelled one.
ContextLiveWhileRouting == \A p \in Procs : ctx[p] = "live" <=> pc[p] # "idle"

\* A goroutine's Route returns in this step.
Returns(p) == pc[p] # "idle" /\ pc'[p] = "idle"

\* A handler that panics was invoked by the Route returning in this step.
CalledPanicking(p) ==
    \E i \in DOMAIN calls'[p] :
        \E h \in PanicHandlers : calls'[p][i] = <<"call", h>>

\* A handler's panic leaves Route exactly when the Route invoked a handler
\* that panics and the chain has no Recoverer (spec 7: the core does not
\* contain a handler's fault, the recovery middleware does): the Recoverer,
\* wherever Use put it in the chain, wraps every handler and the default
\* handler, and without it no handler's panic is swallowed.
PanicEscapesIffUnrecovered ==
    [][\A p \in Procs :
         Returns(p) =>
           ((outcome'[p] = "handler_panic")
              <=> (CalledPanicking(p) /\ \A i \in DOMAIN mws : mws[i] # RecovererMW))
      ]_vars

=============================================================================
