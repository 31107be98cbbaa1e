------------------------- MODULE ContextRouter_proofs -------------------------
(***************************************************************************)
(* Proof that StandardContextRouter's Route hands its handlers a context   *)
(* that is live exactly while the Route runs, for every set of goroutines, *)
(* filters, topics, aliases, handlers and middlewares.                     *)
(***************************************************************************)
EXTENDS ContextRouter, TLAPS

\* The types the argument needs.
CtxTypeOK ==
    /\ pc \in [Procs -> {"idle", "store", "lookup", "scan"}]
    /\ ctx \in [Procs -> {"none", "live", "cancelled"}]

\* The inductive invariant.
CtxInv == CtxTypeOK /\ ContextLiveWhileRouting

\* A step that leaves ctx alone leaves pc alone too.
LEMMA RegistryKeepsContext ==
    ASSUME \/ \E f \in Filters, h \in Handlers : RegisterHandler(f, h)
           \/ \E f \in Filters : UnregisterHandler(f)
           \/ \E m \in Middlewares : Use(m)
           \/ \E h \in Handlers \cup {NoHandler} : DefaultHandler(h)
    PROVE  ctx' = ctx /\ pc' = pc
BY DEF RegisterHandler, UnregisterHandler, Use, DefaultHandler,
       R!RegisterHandler, R!UnregisterHandler, R!Use, R!DefaultHandler

\* Every way out of Route sets pc to "idle" and cancels the context.
LEMMA ReturnCancels ==
    ASSUME NEW p \in Procs,
           \/ \E f \in Filters : HandlerPanic(p, f) \/ RoutePanic(p, f)
           \/ RouteEnd(p)
    PROVE  /\ pc' = [pc EXCEPT ![p] = "idle"]
           /\ ctx' = [ctx EXCEPT ![p] = "cancelled"]
BY DEF HandlerPanic, RoutePanic, RouteEnd, Cancel, R!HandlerPanic,
       R!RoutePanic, R!RouteEnd

LEMMA CtxInvInductive == CtxInv /\ [Next]_vars => CtxInv'
<1> SUFFICES ASSUME CtxInv, [Next]_vars PROVE CtxInv'
  OBVIOUS
<1> USE DEF CtxInv, CtxTypeOK, ContextLiveWhileRouting
<1>1. CASE \/ \E f \in Filters, h \in Handlers : RegisterHandler(f, h)
           \/ \E f \in Filters : UnregisterHandler(f)
           \/ \E m \in Middlewares : Use(m)
           \/ \E h \in Handlers \cup {NoHandler} : DefaultHandler(h)
  BY <1>1, RegistryKeepsContext
<1>2. ASSUME NEW p \in Procs, NEW m \in R!Msgs, RouteStart(p, m)
      PROVE  CtxInv'
  <2>1. /\ pc[p] = "idle"
        /\ \/ pc' = [pc EXCEPT ![p] = "scan"]
           \/ pc' = [pc EXCEPT ![p] = "store"]
        /\ ctx' = [ctx EXCEPT ![p] = "live"]
    BY <1>2 DEF RouteStart, R!RouteStart
  <2>2. QED
    BY <2>1
<1>3. ASSUME NEW p \in Procs, AliasStore(p) PROVE CtxInv'
  <2>1. pc[p] = "store" /\ pc' = [pc EXCEPT ![p] = "lookup"] /\ ctx' = ctx
    BY <1>3 DEF AliasStore, R!AliasStore
  <2>2. QED
    BY <2>1
<1>4. ASSUME NEW p \in Procs, AliasLookup(p) PROVE CtxInv'
  <2>1. pc[p] = "lookup" /\ pc' = [pc EXCEPT ![p] = "scan"] /\ ctx' = ctx
    BY <1>4 DEF AliasLookup, R!AliasLookup
  <2>2. QED
    BY <2>1
<1>5. ASSUME NEW p \in Procs, NEW f \in Filters, RouteFilter(p, f)
      PROVE  CtxInv'
  BY <1>5 DEF RouteFilter, R!RouteFilter
<1>6. ASSUME NEW p \in Procs,
             \/ \E f \in Filters : HandlerPanic(p, f) \/ RoutePanic(p, f)
             \/ RouteEnd(p)
      PROVE  CtxInv'
  BY <1>6, ReturnCancels
<1>7. CASE UNCHANGED vars
  BY <1>7 DEF vars
<1>8. QED
  BY <1>1, <1>2, <1>3, <1>4, <1>5, <1>6, <1>7 DEF Next, RouteStep

\* Whatever the registry calls, the handlers and the two panics do, the
\* context a Route hands its handlers is live exactly while the Route
\* runs: context.WithCancel at its start, the deferred cancel on every way
\* out.
THEOREM ContextLiveInvariant == Spec => []ContextLiveWhileRouting
<1>1. Init => CtxInv
  BY DEF Init, R!Init, CtxInv, CtxTypeOK, ContextLiveWhileRouting
<1>2. QED
  BY <1>1, CtxInvInductive, PTL DEF Spec, CtxInv

-----------------------------------------------------------------------------
(* StandardContextRouter behaves as the context router of part_000.        *)

\* The middleware chain is a list of middlewares.
MwsType == mws \in Seq(Middlewares)

\* Use(m) of StandardContextRouter is the context router's Use with the
\* one-element list <<m>>, a list Use may be given.
LEMMA UseIsRouterUse ==
    ASSUME MwsType, NEW m \in Middlewares, Use(m)
    PROVE  /\ \E ms \in R!UseArgs : R!Use(ms)
           /\ MwsType'
<1>1. R!Use(<<m>>) /\ Len(mws) + 1 <= MaxMiddlewares
  BY DEF Use, R!Use
<1>2. <<m>> \in R!UseArgs
  BY <1>1, BoundsAssumption DEF MwsType, R!UseArgs
<1>3. mws' = mws \o <<m>>
  BY <1>1 DEF R!Use
<1>4. QED
  BY <1>1, <1>2, <1>3 DEF MwsType

\* The steps of a Route leave the middleware chain alone.
LEMMA RouteKeepsChain ==
    ASSUME NEW p \in Procs,
           \/ \E m \in R!Msgs : RouteStart(p, m)
           \/ RouteStep(p)
    PROVE  mws' = mws
BY DEF RouteStart, RouteStep, AliasStore, AliasLookup, RouteFilter,
       HandlerPanic, RoutePanic, RouteEnd, R!RouteStart, R!AliasStore,
       R!AliasLookup, R!RouteFilter, R!HandlerPanic, R!RoutePanic,
       R!RouteEnd, R!ClearLocals

\* Every step of StandardContextRouter is a step of the context router or
\* leaves its variables alone, and keeps the chain a list.
LEMMA StepIsRouterStep ==
    MwsType /\ [Next]_vars => [R!Next]_(R!vars) /\ MwsType'
<1> SUFFICES ASSUME MwsType, [Next]_vars PROVE [R!Next]_(R!vars) /\ MwsType'
  OBVIOUS
<1>1. CASE \E f \in Filters, h \in Handlers : RegisterHandler(f, h)
  BY <1>1 DEF RegisterHandler, R!Next, R!RegisterHandler, MwsType
<1>2. CASE \E f \in Filters : UnregisterHandler(f)
  BY <1>2 DEF UnregisterHandler, R!Next, R!UnregisterHandler, MwsType
<1>3. CASE \E m \in Middlewares : Use(m)
  BY <1>3, UseIsRouterUse DEF R!Next
<1>4. CASE \E h \in Handlers \cup {NoHandler} : DefaultHandler(h)
  BY <1>4 DEF DefaultHandler, R!Next, R!DefaultHandler, MwsType
<1>5. ASSUME NEW p \in Procs, NEW m \in R!Msgs, RouteStart(p, m)
      PROVE  [R!Next]_(R!vars) /\ MwsType'
  BY <1>5, RouteKeepsChain DEF RouteStart, R!Next, MwsType
<1>6. ASSUME NEW p \in Procs, RouteStep(p)
      PROVE  [R!Next]_(R!vars) /\ MwsType'
  <2>1. \/ R!AliasStore(p) \/ R!AliasLookup(p) \/ R!RouteEnd(p)
        \/ \E f \in Filters :
              R!RouteFilter(p, f) \/ R!RoutePanic(p, f) \/ R!HandlerPanic(p, f)
    BY <1>6 DEF RouteStep, AliasStore, AliasLookup, RouteFilter,
                HandlerPanic, RoutePanic, RouteEnd
  <2>2. mws' = mws
    BY <1>6, RouteKeepsChain
  <2>3. QED
    BY <2>1, <2>2 DEF R!Next, MwsType
<1>7. CASE UNCHANGED vars
  BY <1>7 DEF vars, R!vars, MwsType
<1>8. QED
  BY <1>1, <1>2, <1>3, <1>4, <1>5, <1>6, <1>7 DEF Next

\* Every behaviour of StandardContextRouter (router.go) is a behaviour of
\* the context router of part_000 (module Router), once its context is
\* hidden: its one-middleware Use is the list Use of one element, and its
\* Route takes the same steps under the same lock.  So what is proved of
\* Router's safety holds of StandardContextRouter too.
THEOREM ContextRouterImplementsRouter == Spec => R!Spec
<1>1. Init => R!Init /\ MwsType
  BY DEF Init, MwsType, R!Init
<1>2. QED
  BY <1>1, StepIsRouterStep, PTL DEF Spec, R!Spec

=============================================================================
