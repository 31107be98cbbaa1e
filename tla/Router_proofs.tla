---------------------------- MODULE Router_proofs ----------------------------
(***************************************************************************)
(* Proofs about the context router, for every set of goroutines, filters,  *)
(* topics, aliases, handlers and middlewares: the read lock is held by     *)
(* exactly the goroutines inside Route, and with a single goroutine        *)
(* routing, a publish that carries a topic and an alias is routed on its   *)
(* own topic.                                                              *)
(***************************************************************************)
EXTENDS Router, TLAPS

\* The program counters Route can be at.
PcValues == {"idle", "store", "lookup", "scan"}

\* The part of the types the lock argument needs.
LockTypeOK ==
    /\ readers \subseteq Procs
    /\ pc \in [Procs -> PcValues]

\* The inductive invariant of the lock.
LockInv == LockTypeOK /\ ReadLockReleased

\* A registry operation changes neither the lock nor any Route's position.
LEMMA RegistryKeepsLock ==
    ASSUME \/ \E f \in Filters, h \in Handlers : RegisterHandler(f, h)
           \/ \E f \in Filters : UnregisterHandler(f)
           \/ \E ms \in UseArgs : Use(ms)
           \/ \E h \in Handlers \cup {NoHandler} : DefaultHandler(h)
    PROVE  readers' = readers /\ pc' = pc
BY DEF RegisterHandler, UnregisterHandler, Use, DefaultHandler

LEMMA LockInvInductive == LockInv /\ [Next]_vars => LockInv'
<1> SUFFICES ASSUME LockInv, [Next]_vars PROVE LockInv'
  OBVIOUS
<1> USE DEF LockInv, LockTypeOK, ReadLockReleased, PcValues
<1>1. CASE \/ \E f \in Filters, h \in Handlers : RegisterHandler(f, h)
           \/ \E f \in Filters : UnregisterHandler(f)
           \/ \E ms \in UseArgs : Use(ms)
           \/ \E h \in Handlers \cup {NoHandler} : DefaultHandler(h)
  BY <1>1, RegistryKeepsLock
<1>2. ASSUME NEW p \in Procs, NEW m \in Msgs, RouteStart(p, m)
      PROVE  LockInv'
  <2>1. pc[p] = "idle" /\ readers' = readers \cup {p}
    BY <1>2 DEF RouteStart
  <2>2. pc' = [pc EXCEPT ![p] = "scan"] \/ pc' = [pc EXCEPT ![p] = "store"]
    BY <1>2 DEF RouteStart
  <2>3. QED
    BY <2>1, <2>2
<1>3. ASSUME NEW p \in Procs, AliasStore(p) PROVE LockInv'
  BY <1>3 DEF AliasStore
<1>4. ASSUME NEW p \in Procs, AliasLookup(p) PROVE LockInv'
  BY <1>4 DEF AliasLookup
<1>5. ASSUME NEW p \in Procs, NEW f \in Filters, RouteFilter(p, f)
      PROVE  LockInv'
  BY <1>5 DEF RouteFilter
<1>6. ASSUME NEW p \in Procs, NEW f \in Filters, RoutePanic(p, f)
      PROVE  LockInv'
  <2>1. pc[p] = "scan" /\ readers' = readers \ {p}
        /\ pc' = [pc EXCEPT ![p] = "idle"]
    BY <1>6 DEF RoutePanic
  <2>2. QED
    BY <2>1
<1>7. ASSUME NEW p \in Procs, RouteEnd(p) PROVE LockInv'
  <2>1. pc[p] = "scan" /\ readers' = readers \ {p}
        /\ pc' = [pc EXCEPT ![p] = "idle"]
    BY <1>7 DEF RouteEnd
  <2>2. QED
    BY <2>1
<1>8. ASSUME NEW p \in Procs, NEW f \in Filters, HandlerPanic(p, f)
      PROVE  LockInv'
  <2>1. pc[p] = "scan" /\ readers' = readers \ {p}
        /\ pc' = [pc EXCEPT ![p] = "idle"]
    BY <1>8 DEF HandlerPanic
  <2>2. QED
    BY <2>1
<1>9. CASE UNCHANGED vars
  BY <1>9 DEF vars
<1>10. QED
  BY <1>1, <1>2, <1>3, <1>4, <1>5, <1>6, <1>7, <1>8, <1>9 DEF Next

\* The read lock is held by exactly the goroutines inside Route, whatever
\* the registry operations, the interleaving of Routes, the matcher's
\* panic and a handler's panic do: the deferred RUnlock runs on every way
\* out of Route.
THEOREM ReadLockReleasedInvariant == Spec => []ReadLockReleased
<1>1. Init => LockInv
  BY DEF Init, LockInv, LockTypeOK, ReadLockReleased, PcValues
<1>2. QED
  BY <1>1, LockInvInductive, PTL DEF Spec, LockInv

\* A Route step leaves the registry alone.
LEMMA RouteKeepsRegistry ==
    ASSUME NEW p \in Procs,
           \/ \E m \in Msgs : RouteStart(p, m)
           \/ AliasStore(p) \/ AliasLookup(p) \/ RouteEnd(p)
           \/ \E f \in Filters :
                 RouteFilter(p, f) \/ RoutePanic(p, f) \/ HandlerPanic(p, f)
    PROVE  UNCHANGED <<subs, dflt, mws>>
BY DEF RouteStart, AliasStore, AliasLookup, RouteEnd, RouteFilter,
       RoutePanic, HandlerPanic, ClearLocals

\* Under the lock invariant, a registry operation only happens while no
\* goroutine is inside Route.
LEMMA RegistryOnlyWhenIdle ==
    ASSUME LockInv,
           \/ \E f \in Filters, h \in Handlers : RegisterHandler(f, h)
           \/ \E f \in Filters : UnregisterHandler(f)
           \/ \E ms \in UseArgs : Use(ms)
           \/ \E h \in Handlers \cup {NoHandler} : DefaultHandler(h)
    PROVE  \A p \in Procs : pc[p] = "idle"
<1>1. readers = {}
  BY DEF RegisterHandler, UnregisterHandler, Use, DefaultHandler
<1>2. QED
  BY <1>1 DEF LockInv, ReadLockReleased

\* Under the lock invariant, no step that starts with a goroutine inside
\* Route changes the registry.
LEMMA RegistryStableStep ==
    LockInv /\ [Next]_vars
        => [(\E p \in Procs : pc[p] # "idle") => UNCHANGED <<subs, dflt, mws>>]_vars
<1> SUFFICES ASSUME LockInv, [Next]_vars, \E p \in Procs : pc[p] # "idle"
             PROVE  UNCHANGED <<subs, dflt, mws>>
  BY DEF vars
<1>1. CASE \/ \E f \in Filters, h \in Handlers : RegisterHandler(f, h)
           \/ \E f \in Filters : UnregisterHandler(f)
           \/ \E ms \in UseArgs : Use(ms)
           \/ \E h \in Handlers \cup {NoHandler} : DefaultHandler(h)
  BY <1>1, RegistryOnlyWhenIdle
<1>2. ASSUME NEW p \in Procs,
             \/ \E m \in Msgs : RouteStart(p, m)
             \/ AliasStore(p) \/ AliasLookup(p) \/ RouteEnd(p)
             \/ \E f \in Filters :
                   RouteFilter(p, f) \/ RoutePanic(p, f) \/ HandlerPanic(p, f)
      PROVE  UNCHANGED <<subs, dflt, mws>>
  BY <1>2, RouteKeepsRegistry
<1>3. CASE UNCHANGED vars
  BY <1>3 DEF vars
<1>4. QED
  BY <1>1, <1>2, <1>3 DEF Next
\* No registry operation ever runs while a Route is in progress, whatever
\* the interleaving of Routes and registry calls: each Route reads the
\* subscriptions, the default handler and the chain as they were at its
\* RLock.
THEOREM RegistryStableInvariant == Spec => RegistryStableWhileRouting
<1>1. Init => LockInv
  BY DEF Init, LockInv, LockTypeOK, ReadLockReleased, PcValues
<1>2. QED
  BY <1>1, RegistryStableStep, LockInvInductive, PTL DEF Spec, RegistryStableWhileRouting

-----------------------------------------------------------------------------
(* Alias resolution with one goroutine routing.                            *)

\* The types the alias argument needs.
AliasTypeOK ==
    /\ pc \in [Procs -> PcValues]
    /\ msg \in [Procs -> Msgs]
    /\ topic \in [Procs -> TopicNames \cup {Empty}]
    /\ aliases \in [Aliases -> TopicNames \cup {Empty}]

\* Where a goroutine is in the alias steps, and what it has stored.
AliasSteps ==
    \A p \in Procs :
        /\ pc[p] \in {"store", "lookup"} => msg[p].alias \in Aliases
        /\ (pc[p] = "lookup" /\ msg[p].topic # Empty)
               => aliases[msg[p].alias] = msg[p].topic

\* The inductive invariant for one goroutine.
AliasInv == AliasTypeOK /\ AliasSteps /\ AliasResolvesOwnTopic

LEMMA AliasInvInductive ==
    ASSUME \A p, q \in Procs : p = q
    PROVE  AliasInv /\ [Next]_vars => AliasInv'
<1> SUFFICES ASSUME AliasInv, [Next]_vars PROVE AliasInv'
  OBVIOUS
<1> USE RouterAssumption DEF AliasInv, AliasTypeOK, AliasSteps,
        AliasResolvesOwnTopic, PcValues, Msgs
<1>1. CASE \E f \in Filters, h \in Handlers : RegisterHandler(f, h)
  BY <1>1 DEF RegisterHandler
<1>2. CASE \E f \in Filters : UnregisterHandler(f)
  BY <1>2 DEF UnregisterHandler
<1>3. CASE \E ms \in UseArgs : Use(ms)
  BY <1>3 DEF Use
<1>4. CASE \E h \in Handlers \cup {NoHandler} : DefaultHandler(h)
  BY <1>4 DEF DefaultHandler
<1>5. ASSUME NEW p \in Procs, NEW m \in Msgs, RouteStart(p, m)
      PROVE  AliasInv'
  <2>1. CASE m.alias = NoAlias
    BY <1>5, <2>1 DEF RouteStart
  <2>2. CASE m.alias # NoAlias
    BY <1>5, <2>2 DEF RouteStart
  <2>3. QED
    BY <2>1, <2>2
<1>6. ASSUME NEW p \in Procs, AliasStore(p) PROVE AliasInv'
  BY <1>6 DEF AliasStore
<1>7. ASSUME NEW p \in Procs, AliasLookup(p) PROVE AliasInv'
  BY <1>7 DEF AliasLookup
<1>8. ASSUME NEW p \in Procs, NEW f \in Filters, RouteFilter(p, f)
      PROVE  AliasInv'
  BY <1>8 DEF RouteFilter
<1>9. ASSUME NEW p \in Procs, NEW f \in Filters, RoutePanic(p, f)
      PROVE  AliasInv'
  BY <1>9 DEF RoutePanic, ClearLocals
<1>10. ASSUME NEW p \in Procs, RouteEnd(p) PROVE AliasInv'
  BY <1>10 DEF RouteEnd, ClearLocals
<1>11. ASSUME NEW p \in Procs, NEW f \in Filters, HandlerPanic(p, f)
      PROVE  AliasInv'
  BY <1>11 DEF HandlerPanic, ClearLocals
<1>12. CASE UNCHANGED vars
  BY <1>12 DEF vars
<1>13. QED
  BY <1>1, <1>2, <1>3, <1>4, <1>5, <1>6, <1>7, <1>8, <1>9, <1>10, <1>11,
     <1>12 DEF Next

\* With a single goroutine calling Route, a publish that carries a topic
\* and a topic alias is always routed on its own topic: the store under
\* the read lock and the lookup after it can only be separated by another
\* Route (the run router_alias shows it with two).
THEOREM SingleRouteResolvesOwnTopic ==
    ASSUME \A p, q \in Procs : p = q
    PROVE  Spec => []AliasResolvesOwnTopic
<1>1. Init => AliasInv
  BY RouterAssumption DEF Init, AliasInv, AliasTypeOK, AliasSteps,
     AliasResolvesOwnTopic, PcValues, Msgs
<1>2. QED
  BY <1>1, AliasInvInductive, PTL DEF Spec, AliasInv


-----------------------------------------------------------------------------
(* Router implements Dispatch, with one goroutine routing.                 *)

\* Dispatch's empty topic is the router's.
LEMMA EmptyIsEmpty == D!Empty = Empty
BY DEF D!Empty, Empty

\* With no goroutine at the alias store, the cache after the pending stores
\* is the alias map itself.
LEMMA CacheWithoutStores ==
    ASSUME AliasTypeOK, \A q \in Procs : pc[q] # "store"
    PROVE  CacheAfterStores = aliases
BY DEF CacheAfterStores, PendingStore, AliasTypeOK

LEMMA CacheWithoutStoresNext ==
    ASSUME AliasTypeOK', \A q \in Procs : pc'[q] # "store"
    PROVE  CacheAfterStores' = aliases'
BY DEF CacheAfterStores, PendingStore, AliasTypeOK

\* The initial state of the router is an initial state of Dispatch.
LEMMA InitRefines == Init => D!Init /\ AliasInv
<1> SUFFICES ASSUME Init PROVE D!Init /\ AliasInv
  OBVIOUS
<1>1. AliasInv
  BY RouterAssumption DEF Init, AliasInv, AliasTypeOK, AliasSteps,
     AliasResolvesOwnTopic, PcValues, Msgs
<1>2. CacheAfterStores = [a \in Aliases |-> Empty]
  BY <1>1, CacheWithoutStores DEF Init, AliasInv
<1>3. QED
  BY <1>1, <1>2 DEF Init, D!Init, RouteTopic, Delivered, Empty, D!Empty

\* The refined state: what Dispatch sees of the router.
DVars == <<CacheAfterStores, {q \in Procs : pc[q] # "idle"},
           [q \in Procs |-> RouteTopic(q)], Delivered>>

\* A step that leaves pc, msg, aliases, topic and calls alone leaves the
\* refined alias cache, dispatches, topics and deliveries alone.
LEMMA DVarsUnchanged ==
    ASSUME UNCHANGED <<pc, msg, aliases, topic, calls>>
    PROVE  UNCHANGED DVars
BY DEF DVars, CacheAfterStores, PendingStore, RouteTopic, Delivered

\* Each registry operation is the same operation of Dispatch.
LEMMA RegistryRefines ==
    ASSUME \/ \E f \in Filters, h \in Handlers : RegisterHandler(f, h)
           \/ \E f \in Filters : UnregisterHandler(f)
           \/ \E ms \in UseArgs : Use(ms)
           \/ \E h \in Handlers \cup {NoHandler} : DefaultHandler(h)
    PROVE  D!Next
<1>1. UNCHANGED DVars
  BY DVarsUnchanged DEF RegisterHandler, UnregisterHandler, Use,
     DefaultHandler
<1>2. CASE \E f \in Filters, h \in Handlers : RegisterHandler(f, h)
  BY <1>1, <1>2 DEF DVars, RegisterHandler, D!RegisterHandler, D!Next
<1>3. CASE \E f \in Filters : UnregisterHandler(f)
  BY <1>1, <1>3 DEF DVars, UnregisterHandler, D!UnregisterHandler, D!Next
<1>4. CASE \E ms \in UseArgs : Use(ms)
  BY <1>1, <1>4 DEF DVars, Use, D!Use, D!Next, UseArgs, D!UseArgs
<1>5. CASE \E h \in Handlers \cup {NoHandler} : DefaultHandler(h)
  BY <1>1, <1>5 DEF DVars, DefaultHandler, D!DefaultHandler, D!Next
<1>6. QED
  BY <1>2, <1>3, <1>4, <1>5

\* RouteStart is Dispatch's Receive: its store and lookup are taken as
\* done, and the topic is the one the alias steps will resolve.
LEMMA StartRefines ==
    ASSUME \A p, q \in Procs : p = q, AliasInv,
           NEW p \in Procs, NEW m \in Msgs, RouteStart(p, m)
    PROVE  D!Receive(p, m)
<1> USE EmptyIsEmpty
<1>1. AliasInv'
  BY AliasInvInductive DEF Next
<1>2. pc[p] = "idle" /\ CacheAfterStores = aliases
  BY CacheWithoutStores DEF RouteStart, AliasInv
<1>3. /\ m.alias # NoAlias => m.alias \in Aliases
      /\ m.topic \in TopicNames \cup {Empty}
  BY DEF Msgs
<1>4. CacheAfterStores' = D!StoreAlias(m)
  <2>1. CASE m.alias = NoAlias
    <3>1. AliasTypeOK' /\ \A q \in Procs : pc'[q] # "store"
      BY <1>1, <2>1 DEF RouteStart, AliasInv, AliasTypeOK
    <3>2. CacheAfterStores' = aliases'
      BY <3>1, CacheWithoutStoresNext
    <3>3. QED
      BY <1>2, <2>1, <3>2 DEF RouteStart, D!StoreAlias
  <2>2. CASE m.alias # NoAlias
    <3>1. pc'[p] = "store" /\ msg'[p] = m /\ aliases' = aliases
      BY <2>2 DEF RouteStart, AliasInv, AliasTypeOK
    <3>2. \A a \in Aliases :
             CacheAfterStores'[a]
               = IF m.topic # Empty /\ m.alias = a THEN m.topic ELSE aliases[a]
      BY <3>1 DEF CacheAfterStores, PendingStore
    <3>3. QED
      BY <1>2, <1>3, <2>2, <3>1, <3>2 DEF D!StoreAlias, CacheAfterStores,
         AliasInv, AliasTypeOK
  <2>3. QED
    BY <2>1, <2>2
<1>5. RouteTopic(p)' = D!EffectiveTopic(m, CacheAfterStores')
  <2>1. CASE m.alias = NoAlias
    BY <2>1 DEF RouteStart, RouteTopic, D!EffectiveTopic, AliasInv, AliasTypeOK
  <2>2. CASE m.alias # NoAlias
    <3>1. pc'[p] = "store" /\ msg'[p] = m /\ aliases' = aliases
      BY <2>2 DEF RouteStart, AliasInv, AliasTypeOK
    <3>2. QED
      BY <1>2, <1>3, <1>4, <2>2, <3>1 DEF RouteTopic, D!EffectiveTopic,
         D!StoreAlias, AliasInv, AliasTypeOK
  <2>3. QED
    BY <2>1, <2>2
<1>6. /\ pc'[p] # "idle"
      /\ pc' \in [Procs -> PcValues]
      /\ Delivered' = [Delivered EXCEPT ![p] = << >>]
  BY <1>1 DEF RouteStart, Delivered, AliasInv, AliasTypeOK
<1>7. QED
  BY <1>2, <1>4, <1>5, <1>6 DEF D!Receive, RouteStart, AliasInv, AliasTypeOK

\* The alias store is invisible to Dispatch: the cache already counted the
\* store as done, and the topic it resolves is the same before and after.
LEMMA StoreRefines ==
    ASSUME \A p, q \in Procs : p = q, AliasInv,
           NEW p \in Procs, AliasStore(p)
    PROVE  UNCHANGED <<subs, dflt, mws>> /\ UNCHANGED DVars
<1> USE DEF AliasInv, AliasTypeOK, AliasSteps
<1>1. pc[p] = "store" /\ pc' = [pc EXCEPT ![p] = "lookup"]
      /\ msg[p].alias \in Aliases /\ UNCHANGED <<msg, topic, calls>>
  BY DEF AliasStore
<1>2. CacheAfterStores' = aliases'
  BY <1>1, CacheWithoutStoresNext, AliasInvInductive DEF Next
<1>3. CacheAfterStores' = CacheAfterStores
  BY <1>1, <1>2 DEF AliasStore, CacheAfterStores, PendingStore
<1>4. RouteTopic(p)' = RouteTopic(p)
  BY <1>1 DEF AliasStore, RouteTopic
<1>5. QED
  BY <1>1, <1>3, <1>4 DEF AliasStore, DVars, Delivered

\* The alias lookup is invisible to Dispatch: it sets topic to what the
\* refined topic already was.
LEMMA LookupRefines ==
    ASSUME \A p, q \in Procs : p = q, AliasInv,
           NEW p \in Procs, AliasLookup(p)
    PROVE  UNCHANGED <<subs, dflt, mws>> /\ UNCHANGED DVars
<1> USE DEF AliasInv, AliasTypeOK, AliasSteps
<1>1. pc[p] = "lookup" /\ pc' = [pc EXCEPT ![p] = "scan"]
      /\ UNCHANGED <<msg, aliases, calls>>
  BY DEF AliasLookup
<1>2. CacheAfterStores' = aliases' /\ CacheAfterStores = aliases
  BY <1>1, CacheWithoutStores, CacheWithoutStoresNext, AliasInvInductive
     DEF Next
<1>3. RouteTopic(p)' = RouteTopic(p)
  BY <1>1 DEF AliasLookup, RouteTopic
<1>4. QED
  BY <1>1, <1>2, <1>3 DEF AliasLookup, DVars, Delivered

\* Visiting a filter is invisible to Dispatch: what the handlers invoke is
\* delivered only when Route returns.
LEMMA FilterRefines ==
    ASSUME \A p, q \in Procs : p = q, AliasInv,
           NEW p \in Procs, NEW f \in Filters, RouteFilter(p, f)
    PROVE  UNCHANGED <<subs, dflt, mws>> /\ UNCHANGED DVars
<1> USE DEF AliasInv, AliasTypeOK
<1>1. pc[p] = "scan" /\ UNCHANGED <<pc, msg, aliases, topic>>
  BY DEF RouteFilter
<1>2. Delivered' = Delivered
  BY <1>1 DEF Delivered
<1>3. QED
  BY <1>1, <1>2 DEF RouteFilter, DVars, CacheAfterStores, PendingStore,
     RouteTopic

\* The step fact of DeliversAsSpecified.
DeliversStep ==
    \A p \in Procs :
        (pc[p] # "idle" /\ pc'[p] = "idle")
            => calls'[p] \in D!Dispatches(topic[p])

\* Every way out of Route leaves the range, goes idle, clears the topic and
\* leaves the registry and the alias map alone.
LEMMA ReturnSteps ==
    ASSUME NEW p \in Procs,
           \/ RouteEnd(p)
           \/ \E f \in Filters : HandlerPanic(p, f) \/ RoutePanic(p, f)
    PROVE  /\ pc[p] = "scan" /\ pc' = [pc EXCEPT ![p] = "idle"]
           /\ topic' = [topic EXCEPT ![p] = Empty]
           /\ UNCHANGED <<subs, dflt, mws, aliases>>
BY DEF RouteEnd, HandlerPanic, RoutePanic, ClearLocals

\* A Route returning is Dispatch's Deliver, given that what it invoked is
\* one of the invocation sequences the spec allows (DeliversAsSpecified).
LEMMA ReturnRefines ==
    ASSUME \A p, q \in Procs : p = q, AliasInv, DeliversStep,
           NEW p \in Procs,
           \/ RouteEnd(p)
           \/ \E f \in Filters : HandlerPanic(p, f) \/ RoutePanic(p, f)
    PROVE  D!Deliver(p)
<1> USE EmptyIsEmpty DEF AliasInv, AliasTypeOK
<1>1. /\ pc[p] = "scan" /\ pc' = [pc EXCEPT ![p] = "idle"]
      /\ topic' = [topic EXCEPT ![p] = Empty]
      /\ UNCHANGED <<subs, dflt, mws, aliases>>
  BY ReturnSteps
<1>2. AliasTypeOK'
  BY AliasInvInductive DEF Next
<1>3. CacheAfterStores' = CacheAfterStores
  BY <1>1, <1>2, CacheWithoutStores, CacheWithoutStoresNext
<1>4. /\ RouteTopic(p) = topic[p]
      /\ RouteTopic(p)' = D!Empty
  BY <1>1 DEF RouteTopic
<1>5. calls'[p] \in D!Dispatches(topic[p])
  BY <1>1 DEF DeliversStep
<1>6. Delivered' = [Delivered EXCEPT ![p] = calls'[p]]
  BY <1>1 DEF Delivered
<1>7. QED
  BY <1>1, <1>3, <1>4, <1>5, <1>6 DEF D!Deliver

\* With one routing goroutine, every step of Router is a step of Dispatch
\* under the mapping D, or leaves Dispatch's state unchanged.
LEMMA RefinementStep ==
    ASSUME \A p, q \in Procs : p = q, AliasInv, [Next]_vars, DeliversStep
    PROVE  [D!Next]_(D!vars)
<1>1. CASE \/ \E f \in Filters, h \in Handlers : RegisterHandler(f, h)
           \/ \E f \in Filters : UnregisterHandler(f)
           \/ \E ms \in UseArgs : Use(ms)
           \/ \E h \in Handlers \cup {NoHandler} : DefaultHandler(h)
  BY <1>1, RegistryRefines
<1>2. CASE \E p \in Procs, m \in Msgs : RouteStart(p, m)
  <2>1. PICK p \in Procs, m \in Msgs : RouteStart(p, m)
    BY <1>2
  <2>2. D!Receive(p, m)
    BY <2>1, StartRefines
  <2>3. m \in D!Msgs
    BY EmptyIsEmpty DEF Msgs, D!Msgs
  <2>4. QED
    BY <2>2, <2>3 DEF D!Next
<1>3. CASE \E p \in Procs :
             \/ AliasStore(p) \/ AliasLookup(p)
             \/ \E f \in Filters : RouteFilter(p, f)
  BY <1>3, StoreRefines, LookupRefines, FilterRefines DEF DVars, D!vars
<1>4. CASE \E p \in Procs :
             \/ RouteEnd(p)
             \/ \E f \in Filters : HandlerPanic(p, f) \/ RoutePanic(p, f)
  BY <1>4, ReturnRefines DEF D!Next
<1>5. CASE UNCHANGED vars
  BY <1>5, DVarsUnchanged DEF vars, DVars, D!vars
<1>6. QED
  BY <1>1, <1>2, <1>3, <1>4, <1>5 DEF Next

(* With one goroutine routing, Router implements Dispatch under the mapping  *)
(* D: Route's entry is Receive, the alias and filter steps are stutters, its *)
(* return (normal or by a panic) is Deliver, and the Handle, Use and        *)
(* DefaultHandler calls are Dispatch's own.  What a return delivered is     *)
(* taken from DeliversAsSpecified, which TLC checks (router_refine): it     *)
(* rests on the recursive wrapHandler, which the provers cannot unfold.     *)
THEOREM RouterRefinesDispatch ==
    ASSUME \A p, q \in Procs : p = q
    PROVE  Spec /\ DeliversAsSpecified => RouterImplementsDispatch
<1>1. Init => D!Init /\ AliasInv
  BY InitRefines
<1>2. AliasInv /\ [Next]_vars => AliasInv'
  BY AliasInvInductive
<1>3. AliasInv /\ [Next]_vars /\ [DeliversStep]_vars => [D!Next]_(D!vars)
  BY RefinementStep DEF vars, DVars, D!vars, DeliversStep, Delivered
<1>4. QED
  BY <1>1, <1>2, <1>3, PTL
     DEF Spec, DeliversAsSpecified, DeliversStep, RouterImplementsDispatch,
         D!Spec

=============================================================================
