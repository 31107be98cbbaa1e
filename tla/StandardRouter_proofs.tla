------------------------ MODULE StandardRouter_proofs ------------------------
(***************************************************************************)
(* Proofs about StandardRouter of paho/router.go, for every set of         *)
(* goroutines, filters, topics, aliases and handlers: the read lock of     *)
(* Route is held by exactly the goroutines inside Route, and no registry   *)
(* operation runs while a Route is in progress; and, for publishes without *)
(* topic aliases, StandardRouter implements Dispatch.                      *)
(***************************************************************************)
EXTENDS StandardRouter, TLAPS

\* The program counters Route can be at.
PcValues == {"idle", "store", "lookup", "scan"}

\* The inductive invariant of the lock: the types it needs and the lock
\* held by exactly the goroutines inside Route.
LockInv ==
    /\ readers \subseteq Procs
    /\ pc \in [Procs -> PcValues]
    /\ R!ReadLockReleased

\* A registry operation of StandardRouter waits for the write lock, so it
\* runs only with the read lock free, and changes neither the lock nor any
\* Route's position.
LEMMA RegistryStep ==
    ASSUME \/ \E f \in Filters, h \in Handlers : RegisterHandler(f, h)
           \/ \E f \in Filters : UnregisterHandler(f)
           \/ \E h \in Handlers \cup {NoHandler} : DefaultHandler(h)
    PROVE  readers = {} /\ readers' = readers /\ pc' = pc
BY DEF RegisterHandler, UnregisterHandler, DefaultHandler,
       R!RegisterHandler, R!UnregisterHandler, R!DefaultHandler

\* The steps of a Route: they leave the registry alone.
RouteSteps(p) ==
    \/ \E m \in R!Msgs : RouteStart(p, m)
    \/ AliasStore(p) \/ AliasLookup(p) \/ RouteEnd(p)
    \/ \E f \in Filters : RouteFilter(p, f) \/ RoutePanic(p, f)

LEMMA RouteKeepsRegistry ==
    ASSUME NEW p \in Procs, RouteSteps(p)
    PROVE  UNCHANGED <<subs, dflt>>
BY DEF RouteSteps, RouteStart, AliasStore, AliasLookup, RouteEnd,
       RouteFilter, RoutePanic, R!RouteStart, R!AliasStore, R!AliasLookup,
       R!RouteEnd, R!RouteFilter, R!RoutePanic, R!ClearLocals

LEMMA LockInvInductive == LockInv /\ [Next]_vars => LockInv'
<1> SUFFICES ASSUME LockInv, [Next]_vars PROVE LockInv'
  OBVIOUS
<1> USE DEF LockInv, R!ReadLockReleased, PcValues
<1>1. CASE \/ \E f \in Filters, h \in Handlers : RegisterHandler(f, h)
           \/ \E f \in Filters : UnregisterHandler(f)
           \/ \E h \in Handlers \cup {NoHandler} : DefaultHandler(h)
  BY <1>1, RegistryStep
<1>2. ASSUME NEW p \in Procs, NEW m \in R!Msgs, RouteStart(p, m)
      PROVE  LockInv'
  <2>1. /\ pc[p] = "idle" /\ readers' = readers \cup {p}
        /\ \/ pc' = [pc EXCEPT ![p] = "scan"]
           \/ pc' = [pc EXCEPT ![p] = "store"]
    BY <1>2 DEF RouteStart, R!RouteStart
  <2>2. QED
    BY <2>1
<1>3. ASSUME NEW p \in Procs, AliasStore(p) \/ AliasLookup(p)
      PROVE  LockInv'
  <2>1. /\ pc[p] \in {"store", "lookup"} /\ readers' = readers
        /\ \/ pc' = [pc EXCEPT ![p] = "lookup"]
           \/ pc' = [pc EXCEPT ![p] = "scan"]
    BY <1>3 DEF AliasStore, AliasLookup, R!AliasStore, R!AliasLookup
  <2>2. QED
    BY <2>1
<1>4. ASSUME NEW p \in Procs, NEW f \in Filters, RouteFilter(p, f)
      PROVE  LockInv'
  BY <1>4 DEF RouteFilter, R!RouteFilter
<1>5. ASSUME NEW p \in Procs,
             RouteEnd(p) \/ \E f \in Filters : RoutePanic(p, f)
      PROVE  LockInv'
  <2>1. /\ pc[p] = "scan" /\ readers' = readers \ {p}
        /\ pc' = [pc EXCEPT ![p] = "idle"]
    BY <1>5 DEF RouteEnd, RoutePanic, R!RouteEnd, R!RoutePanic
  <2>2. QED
    BY <2>1
<1>6. CASE UNCHANGED vars
  BY <1>6 DEF vars
<1>7. QED
  BY <1>1, <1>2, <1>3, <1>4, <1>5, <1>6 DEF Next

\* NewStandardRouter and NewStandardRouterWithDefault(h) start with no
\* goroutine inside Route and the read lock free.
LEMMA InitLockInv == Init => LockInv
BY DEF Init, NewStandardRouterWithDefault, LockInv, R!ReadLockReleased,
       PcValues

\* Under the lock invariant, no step that starts with a goroutine inside
\* Route changes the registry.
LEMMA RegistryStableStep ==
    LockInv /\ [Next]_vars
        => [(\E p \in Procs : pc[p] # "idle") => UNCHANGED <<subs, dflt, << >>>>]_(R!vars)
<1> SUFFICES ASSUME LockInv, [Next]_vars, \E p \in Procs : pc[p] # "idle"
             PROVE  UNCHANGED <<subs, dflt>>
  BY DEF R!vars
<1>1. CASE \/ \E f \in Filters, h \in Handlers : RegisterHandler(f, h)
           \/ \E f \in Filters : UnregisterHandler(f)
           \/ \E h \in Handlers \cup {NoHandler} : DefaultHandler(h)
  BY <1>1, RegistryStep DEF LockInv, R!ReadLockReleased
<1>2. ASSUME NEW p \in Procs, RouteSteps(p) PROVE UNCHANGED <<subs, dflt>>
  BY <1>2, RouteKeepsRegistry
<1>3. CASE UNCHANGED vars
  BY <1>3 DEF vars
<1>4. QED
  BY <1>1, <1>2, <1>3 DEF Next, RouteSteps

\* Whatever the registry calls, the interleaving of Routes and the
\* matcher's panic do, StandardRouter's read lock is held by exactly the
\* goroutines inside Route (the deferred RUnlock of router.go runs on every
\* way out), and no RegisterHandler, UnregisterHandler or DefaultHandler
\* runs while a Route is in progress.
THEOREM StandardRouterLockSafety ==
    Spec => [](R!ReadLockReleased) /\ R!RegistryStableWhileRouting
<1>1. LockInv => R!ReadLockReleased
  BY DEF LockInv
<1>2. QED
  BY <1>1, InitLockInv, LockInvInductive, RegistryStableStep, PTL
     DEF Spec, R!RegistryStableWhileRouting

-----------------------------------------------------------------------------
(* StandardRouter implements Dispatch when no publish carries an alias.    *)

\* The step fact of StandardDeliversAsSpecified.
DeliversStep ==
    \A p \in Procs :
        (pc[p] # "idle" /\ pc'[p] = "idle")
            => calls'[p] \in R!D!Dispatches(topic[p])

\* What Dispatch sees of the router under the mapping R!D.
DVars == <<R!CacheAfterStores, {q \in Procs : pc[q] # "idle"},
           [q \in Procs |-> R!RouteTopic(q)], R!Delivered>>

\* The inductive invariant: without aliases a Route is idle or in its
\* range, and topic and calls are functions on the goroutines.
RefInv ==
    /\ pc \in [Procs -> {"idle", "scan"}]
    /\ topic \in [Procs -> TopicNames \cup {R!Empty}]
    /\ calls = [q \in Procs |-> calls[q]]

LEMMA EmptyIsEmpty == R!D!Empty = R!Empty
BY DEF R!D!Empty, R!Empty

\* With no aliases every publish is one without an alias.
LEMMA MsgsWithoutAlias ==
    ASSUME Aliases = {}, NEW m \in R!Msgs
    PROVE  m.alias = NoAlias /\ m \in R!D!Msgs
BY EmptyIsEmpty DEF R!Msgs, R!D!Msgs

\* Under RefInv the dispatch topic is the goroutine's topic.
LEMMA TopicIsRouteTopic ==
    ASSUME RefInv, NEW q \in Procs
    PROVE  R!RouteTopic(q) = topic[q]
BY DEF RefInv, R!RouteTopic

LEMMA RefInvInit == Init => RefInv
BY DEF Init, NewStandardRouterWithDefault, RefInv

LEMMA RefInvInductive ==
    ASSUME Aliases = {}
    PROVE  RefInv /\ [Next]_vars => RefInv'
<1> SUFFICES ASSUME RefInv, [Next]_vars PROVE RefInv'
  OBVIOUS
<1> USE DEF RefInv
<1>1. CASE \/ \E f \in Filters, h \in Handlers : RegisterHandler(f, h)
           \/ \E f \in Filters : UnregisterHandler(f)
           \/ \E h \in Handlers \cup {NoHandler} : DefaultHandler(h)
  BY <1>1 DEF RegisterHandler, UnregisterHandler, DefaultHandler,
     R!RegisterHandler, R!UnregisterHandler, R!DefaultHandler
<1>2. ASSUME NEW p \in Procs, NEW m \in R!Msgs, RouteStart(p, m)
      PROVE  RefInv'
  <2>1. m.alias = NoAlias /\ m.topic \in TopicNames \cup {R!Empty}
    BY MsgsWithoutAlias DEF R!Msgs
  <2>2. QED
    BY <1>2, <2>1 DEF RouteStart, R!RouteStart
<1>3. ASSUME NEW p \in Procs, AliasStore(p) \/ AliasLookup(p)
      PROVE  FALSE
  BY <1>3 DEF AliasStore, AliasLookup, R!AliasStore, R!AliasLookup
<1>4. ASSUME NEW p \in Procs, NEW f \in Filters, RouteFilter(p, f)
      PROVE  RefInv'
  BY <1>4 DEF RouteFilter, R!RouteFilter
<1>5. ASSUME NEW p \in Procs,
             RouteEnd(p) \/ \E f \in Filters : RoutePanic(p, f)
      PROVE  RefInv'
  BY <1>5 DEF RouteEnd, RoutePanic, R!RouteEnd, R!RoutePanic, R!ClearLocals
<1>6. CASE UNCHANGED vars
  BY <1>6 DEF vars
<1>7. QED
  BY <1>1, <1>2, <1>3, <1>4, <1>5, <1>6 DEF Next

\* With no aliases the alias cache is the empty function in every state, so
\* no step changes it.
LEMMA CacheFixed ==
    ASSUME Aliases = {}
    PROVE  /\ R!CacheAfterStores = [a \in Aliases |-> R!D!Empty]
           /\ R!CacheAfterStores' = R!CacheAfterStores
BY DEF R!CacheAfterStores

LEMMA InitRefines ==
    ASSUME Aliases = {}
    PROVE  Init => R!D!Init
<1> SUFFICES ASSUME Init PROVE R!D!Init
  OBVIOUS
<1>1. RefInv
  BY RefInvInit
<1>2. [q \in Procs |-> R!RouteTopic(q)] = [q \in Procs |-> R!D!Empty]
  BY <1>1, TopicIsRouteTopic, EmptyIsEmpty
     DEF Init, NewStandardRouterWithDefault
<1>3. QED
  BY <1>2, CacheFixed
     DEF Init, NewStandardRouterWithDefault, R!D!Init, R!Delivered

LEMMA RegistryRefines ==
    ASSUME \/ \E f \in Filters, h \in Handlers : RegisterHandler(f, h)
           \/ \E f \in Filters : UnregisterHandler(f)
           \/ \E h \in Handlers \cup {NoHandler} : DefaultHandler(h)
    PROVE  R!D!Next
<1>1. UNCHANGED DVars
  BY DEF DVars, RegisterHandler, UnregisterHandler, DefaultHandler,
     R!RegisterHandler, R!UnregisterHandler, R!DefaultHandler,
     R!CacheAfterStores, R!PendingStore, R!RouteTopic, R!Delivered
<1>2. QED
  BY <1>1 DEF DVars, RegisterHandler, UnregisterHandler, DefaultHandler,
     R!RegisterHandler, R!UnregisterHandler, R!DefaultHandler,
     R!D!RegisterHandler, R!D!UnregisterHandler, R!D!DefaultHandler,
     R!D!Next

\* RouteStart of a publish without an alias is Dispatch's Receive.
LEMMA StartRefines ==
    ASSUME Aliases = {}, RefInv, NEW p \in Procs, NEW m \in R!Msgs,
           RouteStart(p, m)
    PROVE  R!D!Receive(p, m)
<1>1. /\ m.alias = NoAlias /\ m \in R!D!Msgs
  BY MsgsWithoutAlias
<1>2. /\ pc[p] = "idle" /\ pc' = [pc EXCEPT ![p] = "scan"]
      /\ topic' = [topic EXCEPT ![p] = m.topic]
      /\ calls' = [calls EXCEPT ![p] = << >>]
      /\ UNCHANGED <<subs, dflt>>
  BY <1>1 DEF RouteStart, R!RouteStart
<1>3. RefInv'
  BY RefInvInductive DEF Next
<1>4. [q \in Procs |-> R!RouteTopic(q)]' =
        [[q \in Procs |-> R!RouteTopic(q)] EXCEPT ![p] = m.topic]
  <2>1. \A q \in Procs : R!RouteTopic(q)' = topic'[q]
    BY <1>3 DEF RefInv, R!RouteTopic
  <2>2. \A q \in Procs : R!RouteTopic(q) = topic[q]
    BY TopicIsRouteTopic
  <2>3. QED
    BY <1>2, <2>1, <2>2 DEF RefInv
<1>5. R!Delivered' = [R!Delivered EXCEPT ![p] = << >>]
  BY <1>2 DEF RefInv, R!Delivered
<1>6. QED
  BY <1>1, <1>2, <1>4, <1>5, CacheFixed
     DEF RefInv, R!D!Receive, R!D!StoreAlias, R!D!EffectiveTopic

\* A filter step of the range changes nothing Dispatch sees.
LEMMA FilterRefines ==
    ASSUME RefInv, NEW p \in Procs, NEW f \in Filters, RouteFilter(p, f)
    PROVE  UNCHANGED <<subs, dflt>> /\ UNCHANGED DVars
<1>1. /\ pc[p] = "scan" /\ UNCHANGED <<pc, msg, aliases, topic, subs, dflt>>
      /\ \E x : calls' = [calls EXCEPT ![p] = x] \/ calls' = calls
  BY DEF RouteFilter, R!RouteFilter
<1>2. R!Delivered' = R!Delivered
  BY <1>1 DEF RefInv, R!Delivered
<1>3. QED
  BY <1>1, <1>2 DEF DVars, R!CacheAfterStores, R!PendingStore, R!RouteTopic

\* A Route returning, normally or by a panic of match, is Dispatch's
\* Deliver, given what DeliversStep says it invoked.
LEMMA ReturnRefines ==
    ASSUME Aliases = {}, RefInv, DeliversStep, NEW p \in Procs,
           RouteEnd(p) \/ \E f \in Filters : RoutePanic(p, f)
    PROVE  R!D!Deliver(p)
<1>1. /\ pc[p] = "scan" /\ pc' = [pc EXCEPT ![p] = "idle"]
      /\ topic' = [topic EXCEPT ![p] = R!Empty]
      /\ \E x : calls' = [calls EXCEPT ![p] = x] \/ calls' = calls
      /\ UNCHANGED <<subs, dflt>>
  BY DEF RouteEnd, RoutePanic, R!RouteEnd, R!RoutePanic, R!ClearLocals
<1>2. RefInv'
  BY RefInvInductive DEF Next
<1>3. /\ R!RouteTopic(p) = topic[p]
      /\ [q \in Procs |-> R!RouteTopic(q)]' =
           [[q \in Procs |-> R!RouteTopic(q)] EXCEPT ![p] = R!D!Empty]
  <2>1. \A q \in Procs : R!RouteTopic(q)' = topic'[q]
    BY <1>2 DEF RefInv, R!RouteTopic
  <2>2. \A q \in Procs : R!RouteTopic(q) = topic[q]
    BY TopicIsRouteTopic
  <2>3. QED
    BY <1>1, <2>1, <2>2, EmptyIsEmpty DEF RefInv
<1>4. calls'[p] \in R!D!Dispatches(topic[p])
  BY <1>1 DEF DeliversStep, RefInv
<1>5. R!Delivered' = [R!Delivered EXCEPT ![p] = calls'[p]]
  BY <1>1 DEF RefInv, R!Delivered
<1>6. QED
  BY <1>1, <1>3, <1>4, <1>5, CacheFixed DEF RefInv, R!D!Deliver

\* Every step of StandardRouter is a step of Dispatch under R!D, or leaves
\* what Dispatch sees unchanged.
LEMMA RefinementStep ==
    ASSUME Aliases = {}, RefInv, [Next]_vars, DeliversStep
    PROVE  [R!D!Next]_(R!D!vars)
<1>1. CASE \/ \E f \in Filters, h \in Handlers : RegisterHandler(f, h)
           \/ \E f \in Filters : UnregisterHandler(f)
           \/ \E h \in Handlers \cup {NoHandler} : DefaultHandler(h)
  BY <1>1, RegistryRefines
<1>2. CASE \E p \in Procs, m \in R!Msgs : RouteStart(p, m)
  <2>1. PICK p \in Procs, m \in R!Msgs : RouteStart(p, m)
    BY <1>2
  <2>2. R!D!Receive(p, m) /\ m \in R!D!Msgs
    BY <2>1, StartRefines, MsgsWithoutAlias
  <2>3. QED
    BY <2>2 DEF R!D!Next
<1>3. CASE \E p \in Procs : AliasStore(p) \/ AliasLookup(p)
  BY <1>3 DEF RefInv, AliasStore, AliasLookup, R!AliasStore, R!AliasLookup
<1>4. CASE \E p \in Procs, f \in Filters : RouteFilter(p, f)
  BY <1>4, FilterRefines DEF DVars, R!D!vars
<1>5. CASE \E p \in Procs :
             RouteEnd(p) \/ \E f \in Filters : RoutePanic(p, f)
  BY <1>5, ReturnRefines DEF R!D!Next
<1>6. CASE UNCHANGED vars
  BY <1>6 DEF vars, R!D!vars, R!CacheAfterStores, R!PendingStore,
     R!RouteTopic, R!Delivered
<1>7. QED
  BY <1>1, <1>2, <1>3, <1>4, <1>5, <1>6 DEF Next

(* With publishes that carry no topic alias, StandardRouter implements the *)
(* spec's dispatcher for every number of goroutines routing at once: the   *)
(* registry calls are Dispatch's own, Route's RLock and topic is Receive,  *)
(* the range steps stutter, and the return (normal, or by a panic of       *)
(* match, with the deferred RUnlock) is Deliver.  What a return delivered  *)
(* is taken from StandardDeliversAsSpecified, which TLC checks             *)
(* (standard_router).  With aliases, two goroutines can break it           *)
(* (router_alias).                                                         *)
THEOREM StandardRouterRefinesDispatch ==
    ASSUME Aliases = {}
    PROVE  Spec /\ StandardDeliversAsSpecified
               => StandardRouterImplementsDispatch
<1>1. Init => R!D!Init /\ RefInv
  BY InitRefines, RefInvInit
<1>2. RefInv /\ [Next]_vars => RefInv'
  BY RefInvInductive
<1>3. RefInv /\ [Next]_vars /\ [DeliversStep]_vars => [R!D!Next]_(R!D!vars)
  BY RefinementStep DEF vars, R!D!vars, DeliversStep, R!CacheAfterStores,
     R!PendingStore, R!RouteTopic, R!Delivered
<1>4. QED
  BY <1>1, <1>2, <1>3, PTL
     DEF Spec, StandardDeliversAsSpecified, DeliversStep,
         StandardRouterImplementsDispatch, R!D!Spec

=============================================================================
