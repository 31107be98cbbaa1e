# Formal models of paho.golang's dispatch and identifier core

This directory holds TLA+ models of the parts of the repository that decide
which handlers receive an inbound message, and of the service that hands out
packet identifiers. It also holds TLC configurations that model-check them and
TLAPS proofs about the identifier service and the three routers.

## The system

- **Packet identifier service**, `src/paho/message_ids.go` (type `MIDs`).
  - It keeps a map `index : uint16 -> *CPContext` and a counter `lastIdUsed`.
  - `Request`, `Get` and `Free` run under one mutex. `Clear` replaces the map
    without taking the mutex.
  - The client (not in this repository) calls `Request` before it sends a
    SUBSCRIBE, UNSUBSCRIBE or QoS>0 PUBLISH. It calls `Get` when the
    acknowledgement arrives and `Free` (deferred) when the exchange ends.
- **Topic matcher**, `src/paho/router.go` lines 154-199.
  - It consists of `match`, `matchDeep`, `routeIncludesTopic`, `routeSplit`
    and `topicSplit`.
  - The context router of `src/unnamed/part_000` has an identical copy.
- **Routers.**
  - `StandardRouter` (router.go 50-152), `StandardContextRouter` (router.go
    252-357) and the routercontext extension's `Router`
    (`src/unnamed/part_000`) all have the same shape:
    - a subscription map `filter -> []handler`;
    - a default handler;
    - an alias map `uint16 -> topic`;
    - one `sync.RWMutex`.
  - The two context routers add a middleware chain. `wrapHandler` applies it
    so that the first middleware registered is the outermost.
  - `Route` holds the read lock for its whole run. It resolves the topic alias,
    ranges over the subscription map, calls the wrapped handlers of every
    filter that matches, and calls the default handler if none ran.
  - The registry operations take the write lock.
- **Middlewares** `Recoverer` and `Logger` (`src/unnamed/part_003`,
  `part_004`). Each wraps one handler. The Recoverer defers `recover()`, so a
  panic of anything it encloses ends there; the Logger logs after the call it
  wraps returns, which a panic skips.
- **Unsubscribe packet**: `src/packets/unsubscribe.go` and
  `src/paho/cp_unsubscribe.go`. This is the byte codec.

## Modules

| module | models | state | actions |
|---|---|---|---|
| `MIDs` | message_ids.go, and its callers (from the spec) | `index`, `lastIdUsed`; caller side `status`, `held`; `wire` (packets awaiting an ack) | `Request` (branches `RequestDirect`, `RequestScan`, `RequestExhausted`), `Clear`; callers' `Finish` (deferred `Free`) and `Ack` (`Get` on arrival) |
| `TopicMatch` | router.go 154-199 | none (pure operators) | `match`, `matchPanics`, `matchDeep`, `routeSplit`, `topicSplit`; the spec's reading `SpecMatches` |
| `Router` | part_000 `Router` | `subs`, `dflt`, `mws`, `aliases`, `readers` (holders of the read lock); per Route goroutine `pc`, `msg`, `topic`, `todo` (filters the map range has still to visit), `handlerCalled`, `calls` (handler and middleware events), `outcome` | `RegisterHandler`, `UnregisterHandler`, `Use`, `DefaultHandler`; Route as `RouteStart`, `AliasStore`, `AliasLookup`, `RouteFilter`, `HandlerPanic` (a handler's panic leaves Route), `RoutePanic` (the matcher's), `RouteEnd`; the middlewares `Recoverer`, `Logger` and any other, by what they do to the call they wrap (`Wrap`) |
| `ContextRouter` | router.go 239-357, `StandardContextRouter` | Router's state and `ctx` (the context each Route hands its handlers: `"none"`, `"live"`, `"cancelled"`) | `NewStandardContextRouter` (Init), the one-argument `Use(m)`, and Router's other operations under `R == INSTANCE Router`; `RouteStart` also does `context.WithCancel`, and the three ways out of Route (`RouteEnd`, `HandlerPanic`, `RoutePanic`) also run the deferred `cancel` (`Cancel`) |
| `StandardRouter` | router.go 50-152 | Router's state without `mws` | `NewStandardRouterWithDefault` (Init), `RegisterHandler`, `UnregisterHandler`, `DefaultHandler` and the Route steps: Router's operations under `INSTANCE Router WITH mws <- << >>` |
| `Dispatch` | the spec's dispatcher (4.2-4.4), abstract | `subs`, `dflt`, `mws`, `aliases`, `busy`, `topic`, `calls` | the registry operations; a dispatch as `Receive` (alias store and lookup, atomically) then `Deliver` (one of the allowed invocation sequences, atomically) |
| `MIDs_proofs`, `Router_proofs`, `ContextRouter_proofs`, `StandardRouter_proofs` | TLAPS proofs | | |
| `MC_MIDs`, `MC_TopicMatch`, `MC_Router`, `MC_ContextRouter`, `MC_StandardRouter` | TLC instances | | |

### Refinement

`Router` and `StandardRouter` are shown to implement `Dispatch`. The
refinement mapping (`D == INSTANCE Dispatch WITH ...` in `Router`) is:

- `busy` is the set of goroutines inside Route.
- `topic` is the topic the goroutine will dispatch on (`RouteTopic`). During
  the alias steps it is computed from the publish and the cache.
- `aliases` is the cache as it will be once every pending store is done
  (`CacheAfterStores`).
- `calls` is what a Route invoked, made visible when the Route returns
  (`Delivered`).

Under this mapping, `RouteStart` is `Receive`, and `RouteEnd`, `HandlerPanic`
and `RoutePanic` are `Deliver`. Every other step is a stutter.

`DeliversAsSpecified` is the part of the refinement about what is delivered.
It is an action property: when a Route returns, normally or by a panic, what
it invoked is one of `D!Dispatches(topic)`. The topic is the one it resolved.
The rest of the refinement (the registry, the busy set, the topic and the
alias cache) is proved for one routing goroutine (`RouterRefinesDispatch`
below). This property is checked by TLC only.

`RouteTopic` is written as nested `IF` and not `CASE ... OTHER`, because the
SMT backend of the prover does not take `CASE ... OTHER`. The two forms mean
the same.

The refinement holds in two runs:

- **router_refine**: one routing goroutine, with aliases.
- **standard_router**: two goroutines, publishes without aliases, no
  middleware.

`StandardRouter`'s operations are `Router`'s definitions under its instance,
so its alias and panic steps are exercised by `Router`'s runs. Its own run
shows the refinement for two goroutines.

`ContextRouter` is not checked against `Dispatch` by a run of its own. Its
steps are `Router`'s steps with `ctx` added, and `Dispatch` does not see
`ctx`. Its `Use(m)` is `Router`'s `Use(<<m>>)`. So the mapping above applies
to it unchanged. Its run is spent on the panics, which `Dispatch` leaves
out.

With two goroutines and an alias it fails, which is the alias race again
(run router_alias). The matcher's panic and a handler's panic also fall
outside `Dispatch`, so the refinement runs register no `$share` filter and
no handler that panics.

### Modelling choices

- **Strings** are the level sequences that `strings.Split(s, "/")` gives.
  - The empty string is `<<"">>`.
  - `strings.HasPrefix(route, "$share")` holds when the first level is in
    `ShareLevels`, the set of levels whose text starts with `$share`.
- **Recursion.** `matchDeep`'s recursion is a recursive function over the
  index into both slices.
- **Id space.** In `MIDs`, 65535 is the constant `MaxID`.
  - `getNextId` is stated as a relation between its argument and its result.
  - The dead guard `startFrom > 65535` is left out.
- **Atomic steps.** Each MIDs operation is one step: three hold the mutex
  for their whole run, and `Clear` is a single assignment.
- **RWMutex.** A registry operation is enabled only when `readers = {}`.
  - Route adds itself to `readers` at `RouteStart`.
  - Its deferred `RUnlock` removes it at `RouteEnd`, and also on the panic
    paths `RoutePanic` and `HandlerPanic`.
  - Go's writer preference only delays readers, so it is abstracted away.
- **Map iteration.** The map range is a set `todo` of the keys at the start,
  visited in any order. Go randomises the order, and the lock keeps the map
  fixed during the range.
- **Handlers and middlewares** are model values. A call records events:
  `<<"call", h>>` for a handler, and `<<"before", m>>` / `<<"after", m>>`
  around the call for a middleware.
- **Panics.** A call's result is a record of its events and of whether a
  panic leaves it. The handlers in the constant `PanicHandlers` panic. The
  model value `RecovererMW` in the chain stands for `middleware.Recoverer`:
  it records `<<"recovered", m>>` and ends the panic. `LoggerMW` stands for
  `middleware.Logger`, which records only its `"after"` event. Any other
  middleware records `"before"` and, unless a panic passes through it,
  `"after"`. `RunAll` stops at the first handler whose panic escapes, and
  `HandlerPanic` is the way out of Route it then takes.

## Runs

| run | cfg | checks | result |
|---|---|---|---|
| mids | MC_MIDs.cfg | `IndexOwned` with `Clear` | pass |
| mids_exhausted | MC_MIDs_exhausted.cfg | `ExhaustedOnlyWhenFull` | violation: ids 1 and 2 in use, id 3 (= 65535) freed, lastIdUsed = 3; Request wraps to 1, the scan stops before 3 and fails |
| mids_clear | MC_MIDs_clear.cfg | `FreeRemovesOwnEntry` | violation: Clear while two callers wait, the id is reissued, and the old caller's Free deletes the new entry |
| topicmatch | MC_TopicMatch.cfg | `MatchAgreesWithSpec` | pass |
| topicmatch_prefix | MC_TopicMatch_prefix.cfg | `MatchAgreesWithSpec` with `"$shared"` a level | violation |
| router | MC_Router.cfg | `ReadLockReleased`, `RouteDispatchesAsSpecified`, `RegistryStableWhileRouting`; handler `h2` panics, no Recoverer | pass |
| router_refine | MC_Router_refine.cfg | `DeliversAsSpecified`, `RouterImplementsDispatch`, one Route, aliases, two middlewares | pass |
| context_router | MC_ContextRouter.cfg | `ContextLiveWhileRouting`, `PanicEscapesIffUnrecovered`; handler `h2` panics, the filter `$share`, one alias, chains of up to two of Recoverer and Logger | pass |
| standard_router | MC_StandardRouter.cfg | `StandardDeliversAsSpecified`, `StandardRouterImplementsDispatch`, two Routes | pass |
| router_race | MC_Router_race.cfg | `AliasMapRaceFree` | violation |
| router_alias | MC_Router_alias.cfg | `AliasResolvesOwnTopic` | violation |
| router_panic | MC_Router_panic.cfg | `RouteNeverPanics` | violation |

What the properties say:

- **`IndexOwned`**: every index entry belongs to a caller that is still in its
  exchange and holds that id, and id 0 is never in use. It holds even with
  `Clear`.
- **`NoSharedIds`**: two callers in an exchange never hold the same id.
  Without `Clear` this is proved for every MaxID (`NoSharedIdsInvariant`
  below), so no run checks it.
- **`FreeRemovesOwnEntry`** (action property): a caller's `Free` deletes only
  its own entry. `Clear` breaks this, because after it ids are reissued while
  the old callers still wait.
- **`ExhaustedOnlyWhenFull`** (action property): `ErrNoMoreIDs` is returned
  only when every id is in use, as spec sections 4.5 and 7 say.
  - `getNextId` scans from the start point up to 65534 and never wraps.
  - TLC finds ids 1 and 2 in use and id 3 (standing for 65535) free after
    lastIdUsed reached it: Request wraps to 1, scans 1..2 and fails. Free ids
    below a start point are missed in the same way.
- **`MatchAgreesWithSpec`**: when `match` does not panic, it agrees with a
  declarative reading of the spec.
  - The spec's reading: strip a `$share/<group>/` prefix; then levels agree up
    to the first `#`; with no `#` the lengths are equal; with a `#` at
    position h the topic has at least h-1 levels.
  - The check covers all filters over `a`, `b`, `+`, `#` and the empty level,
    up to 3 levels and in shared form, against all topics over `a`, `b` and
    the empty level up to 3 levels. That covers the empty string, empty
    levels, `#` in the middle and the zero-level `#`.
- **`RouteDispatchesAsSpecified`** (action property): when a Route returns
  without a panic, its events are one of the spec's allowed dispatches of its topic.
  - Allowed: the filters that match, in some order, each running its handlers
    in registration order, each handler wrapped by the chain with the first
    middleware outermost.
  - If no handler ran, the allowed dispatch is the wrapped default handler, or
    nothing when no default handler is set.
  - The subscriptions and middlewares are those of the state at return. The
    write lock guarantees these were the same throughout the Route.
- **`RouterImplementsDispatch`**, **`StandardRouterImplementsDispatch`**:
  the router implements `Dispatch`. Each Route is one atomic resolution of
  its topic followed by one atomic dispatch, however Routes and registry
  operations interleave. This is stronger than `RouteDispatchesAsSpecified`:
  it also covers the alias cache and the order of the two steps.
- **`ReadLockReleased`**: the holders of the read lock are exactly the Routes
  in progress, even after a panic of the matcher or of a handler. This is
  the deferred `RUnlock`.
- **`RegistryStableWhileRouting`** (action property): no step taken while a
  Route is in progress changes the subscriptions, the default handler or the
  chain. So a Route's map range and its `wrapHandler` calls read the
  registry of its `RLock`. A `RegisterHandler` that appends without the
  write lock breaks it (mutant `RegisterHandlerUnlocked`).
- **`ContextLiveWhileRouting`** (ContextRouter): the context a Route hands
  its handlers is live exactly while that Route runs. A `cancel()` that is
  called at the end of Route instead of deferred is skipped by a handler's
  panic, and TLC finds it (mutant `HandlerPanicNoCancel`).
- **`PanicEscapesIffUnrecovered`** (ContextRouter, action property): a Route ends with a
  handler's panic exactly when it invoked a handler that panics and the chain
  holds no Recoverer (spec 7: containment is the recovery middleware's job,
  and without it the fault reaches the caller). It fails if `wrapHandler`
  leaves a middleware out (the Recoverer registered first, say), if a panic
  is swallowed, or if the default handler escaped the chain. With the Logger
  or `m1` outside the Recoverer, their `"after"` events still happen.
- **`AliasMapRaceFree`**: no two Routes access the alias map at once with one
  of them writing. The code breaks this at part_000:105 (router.go:113 and
  :308): the write to `r.aliases` happens under the read lock.
- **`AliasResolvesOwnTopic`**: a message carrying an alias and a topic is
  dispatched under its own topic. Another Route's store between this Route's
  store and its lookup breaks it.
- **`RouteNeverPanics`**: spec 7 says dispatch never fails outright.
  `routeSplit("$share")` slices `[2:]` of a one-element slice, so once the
  filter `$share` is registered, every Route whose topic is not `$share`
  panics.

### Bounds

- **MIDs**: 3 callers and MaxID = 3.
  - This is enough for every id to be in use, for the scan to start on a used
    id with a free one before it, and for the wrap of `lastIdUsed`.
  - The callers are symmetric model values. Symmetry is used in the passing
    runs only.
- **Router**:
  - filters `a/#`, `$share/g/a/b` and the panicking `$share` (the concurrent
    runs use `a/#` and `a/b`);
  - topics `a`, `a/b` and the empty topic;
  - one alias;
  - 2 handlers per filter, 2 middlewares and 2 handlers in the single-Route
    run;
  - in context_router, one goroutine, filters `a/#` and `$share`, the topic
    `a` (and the empty topic of an unknown alias), one alias, 2 handlers
    per filter of which `h2` panics, and chains of up to 2 of Recoverer and
    Logger built by two `Use` calls. That is enough for the Recoverer to be
    outermost or inner, for a panic to pass through a Logger, for a
    non-panicking handler to run before one that panics, and for all three
    ways out of Route. Two goroutines are covered by the other Router runs
    (router_race, router_alias, standard_router).

  These bounds are enough for a filter to match and another not, for two
  handlers under one filter, for a chain of two middlewares (whose order is
  visible), and for registration between two Routes. Middlewares are
  symmetric model values. In the router run the handlers are not symmetric,
  because `h2` panics there; in the runs without a panicking handler they
  are.

Every property of a passing run has a mutant in PROJECT.json: a plausible
bug in a mapped definition that TLC then reports. Examples:

- `Free` that keeps the entry;
- `matchDeep` without the zero-level `#`;
- `wrapHandler` looping forwards;
- `RegisterHandler` without the lock;
- a panic path without `RUnlock`;
- `wrapHandler` whose loop stops before the first middleware.

### Fairness

No specification has fairness, and no liveness property is checked.

- A liveness property that every Route returns would hold by the shape of
  the model. Every Route step is always enabled, the handlers are atomic,
  and the set of filters still to visit only shrinks. So it would say
  nothing about the code.
- Two safety properties cover what such a property would add:
  - `ReadLockReleased` says the read lock is given back on every way out.
  - `ContextLiveWhileRouting` says the context is cancelled on every way
    out.
- Writer starvation is not modelled. The model leaves out Go's writer
  preference, and that preference is why a writer does get the lock.
- The identifier service promises no progress. Every wait belongs to the
  client, outside the repository.

## Proofs (checked by tlapm)

### `MIDs_proofs`

- **`TypeCorrect`**: `Spec => []TypeOK`, for every `MaxID \in Nat \ {0}` and
  every set of callers.
  - The lemma `TypeOKStep` does one step per action.
  - `lastIdUsed` staying in `0..MaxID` rests on the wrap in `Request`
    (`NextAfterLastType`).
- **`IndexOwnedInvariant`**: `Spec => []IndexOwned`.
  - `IndexOwned` alone is not inductive: a step's effect on an entry depends
    on the types of `status` and `held`.
  - The inductive invariant is `IInv == TypeOK /\ IndexOwned`.
  - `IssuePreservesOwned` shows that a `Request` storing an idle caller under
    a free id (`GetNextIdFree`) leaves the other entries owned, since their
    owners are not idle and so differ from the caller.
  - `FinishPreservesOwned` shows that `Free` of the caller's own id removes
    only that entry.
  - `Clear` empties the map, and `Ack` changes only statuses of callers that
    are not idle.
- **`NoSharedIdsInvariant`**: `SessionSpec => []NoSharedIds`.
  - `NoSharedIds` does not follow step by step from itself.
  - The strengthening `HeldOwned` says every caller in an exchange is the
    index entry of the id it holds. Then two callers holding one id would be
    the same entry.
  - Request gives a free id, which is therefore held by nobody
    (`IssueKeepsHeld`). Free removes only the caller's own entry
    (`FinishKeepsHeld`).
  - The theorem is for the session specification. With `Clear`, the run
    mids_clear shows the id reissued while its old holder still waits.
- **`FreeRemovesOwnEntryInSession`**: `SessionSpec => FreeRemovesOwnEntry`.
  - This is the action property that run mids_clear shows violated once
    `Clear` is allowed. Without `Clear` it holds for every `MaxID`.
  - It follows from `SInv`. A caller that finishes is in an exchange, so
    `HeldOwned` makes its CPContext the entry of its id
    (`FinishFindsOwnEntry`). `SInvInductive` and PTL then give the `[][...]`
    form.

The assumptions are `MaxIDAssumption` and `NoCtxAssumption`, stated in
`MIDs`.

### `Router_proofs`

These theorems hold for every set of goroutines, filters, topics, aliases,
handlers and middlewares.

- **`ReadLockReleasedInvariant`**: `Spec => []ReadLockReleased`.
  - The inductive invariant adds the types of `pc` and `readers`
    (`LockTypeOK`).
  - A registry step touches neither `pc` nor `readers`.
  - `RouteStart` adds its goroutine to `readers`; `RouteEnd`, `RoutePanic`
    and `HandlerPanic` remove it.
- **`SingleRouteResolvesOwnTopic`**: if all goroutines are one
  (`\A p, q \in Procs : p = q`), then `Spec => []AliasResolvesOwnTopic`.
  - The inductive invariant `AliasSteps` adds that at the lookup the cache
    holds the topic just stored.
  - This is why the violation of router_alias needs two goroutines.
- **`RegistryStableInvariant`**: `Spec => RegistryStableWhileRouting`.
  - It uses the lock invariant of `ReadLockReleasedInvariant`.
  - A registry operation needs `readers = {}`. By `ReadLockReleased` every
    goroutine is then idle (`RegistryOnlyWhenIdle`).
  - Route steps never write the registry (`RouteKeepsRegistry`).
  - The step fact is the lemma `RegistryStableStep`.
- **`RouterRefinesDispatch`**: if all goroutines are one, then
  `Spec /\ DeliversAsSpecified => RouterImplementsDispatch`, that is
  `D!Spec`.
  - `InitRefines`: `Init` maps to `D!Init` and satisfies `AliasInv`.
    `AliasInv` is the inductive invariant of `SingleRouteResolvesOwnTopic`.
  - `RegistryRefines`: `RegisterHandler`, `UnregisterHandler`, `Use` and
    `DefaultHandler` are Dispatch's operations of the same names. The mapped
    Route state does not change (`DVarsUnchanged`).
  - `StartRefines`: `RouteStart(p, m)` is `D!Receive(p, m)`. When `m` has a
    topic and an alias, the store is still pending. `CacheAfterStores`
    already shows it, and `RouteTopic` is the topic of `m`. With an alias
    alone, the topic is the cached one.
  - `StoreRefines`, `LookupRefines` and `FilterRefines`: the alias store, the
    lookup and each filter step leave the mapped state alone. The pending
    store becomes a real one, so `CacheAfterStores` stays the same.
  - `ReturnRefines`: each of the three ways out of Route is `D!Deliver(p)`.
    What it delivered is taken from the step of `DeliversAsSpecified`
    (`DeliversStep`). `D!Dispatches` is never expanded.
  - `RefinementStep` combines the cases, and PTL gives the theorem.
  - Why one goroutine: with two, one goroutine's store can overwrite the
    alias another goroutine is about to look up (router_alias). Then
    `RouteTopic` is not the topic the lookup finds.
  - Why `DeliversAsSpecified` is a hypothesis: what a Route invoked is
    computed by the recursive functions `wrapHandler` and `RunAll`.
    `D!Dispatches` uses the recursive `SpecRunFilters`. The provers cannot
    unfold a recursive function definition. Even `f[1]` for a function
    defined by recursion on `0..n` is out of reach. So the agreement of the
    two is what router_refine checks.

### `ContextRouter_proofs`

- **`ContextLiveInvariant`**: `Spec => []ContextLiveWhileRouting`, for every
  set of goroutines, filters, topics, aliases, handlers and middlewares.
  - The inductive invariant adds the types of `pc` and `ctx` (`CtxTypeOK`).
  - A registry step changes neither `ctx` nor `pc` (`RegistryKeepsContext`).
  - `RouteStart` makes the context live while it leaves `"idle"`.
  - The alias steps and the filter step keep the goroutine inside Route.
  - Each of the three ways out sets `pc` to `"idle"` and cancels the context
    (`ReturnCancels`).
  - The steps are `ContextRouter`'s, so the proof expands them through the
    instance `R` down to `Router`'s definitions.
- **`ContextRouterImplementsRouter`**: `Spec => R!Spec`. This is a
  refinement with the identity mapping; `ctx` is hidden.
  - `Init` is `R!Init` plus `ctx`.
  - Every step is a Router step or a stutter of Router's variables
    (`StepIsRouterStep`).
  - The only step that needs an argument is `Use(m)`. It is `R!Use(<<m>>)`,
    and `<<m>>` is one of `R!UseArgs` because the guard
    `Len(mws) + 1 <= MaxMiddlewares` forces `MaxMiddlewares >= 1`
    (`UseIsRouterUse`). This needs the chain to be a list (`MwsType`), which
    the proof carries along, and the bounds to be numbers
    (`BoundsAssumption`, stated in `ContextRouter`).
- Through this refinement, every safety property of `R!Spec` holds of
  `ContextRouter`'s `Spec`, among them `R!ReadLockReleased` and
  `R!RegistryStableWhileRouting`. The step from `Router_proofs`'s theorems
  to these is not machine-checked. An `INSTANCE Router_proofs` would define
  its own copies of Router's operators, and the provers treat those as
  different from the copies in `R`.

### `StandardRouter_proofs`

- **`StandardRouterLockSafety`**: `Spec => [](R!ReadLockReleased) /\ R!RegistryStableWhileRouting`. It holds for every set of goroutines,
  filters, topics, aliases and handlers, and from either constructor.
  - StandardRouter's `Init` lets the default handler be any handler
    (`NewStandardRouterWithDefault`). Router's `Init` does not, so
    StandardRouter is not a refinement of `Router`'s `Spec`.
  - So the lock invariant `LockInv` (the types of `readers` and `pc`, and
    `ReadLockReleased`) is proved inductive again, over StandardRouter's own
    steps.
  - The Router lemmas cannot be cited here, for the reason given above: an
    instance of `Router_proofs` would define its own copies of Router's
    operators, distinct from those of `R`.
- **`StandardRouterRefinesDispatch`**: if `Aliases = {}`, then
  `Spec /\ StandardDeliversAsSpecified => StandardRouterImplementsDispatch`.
  It holds for any number of goroutines routing at once.
  - `StandardDeliversAsSpecified` is `DeliversAsSpecified` stated over
    StandardRouter's variables. The standard_router run checks it.
  - The inductive invariant `RefInv` says three things. Every goroutine is
    idle or in its range. `topic` is a function on the goroutines. `calls`
    is a function on the goroutines. With no aliases, the alias steps are
    never enabled (`MsgsWithoutAlias`). The mapped topic is therefore the
    goroutine's own (`TopicIsRouteTopic`), and the mapped cache is the empty
    function in every state (`CacheFixed`).
  - `InitRefines`, `RegistryRefines`, `StartRefines`, `FilterRefines` and
    `ReturnRefines` are the cases. `RefinementStep` combines them.
  - The functions on the goroutines are what let one goroutine's step leave
    the mapped state of the others alone. `Router_proofs` gets this from
    having a single goroutine.
  - Why no aliases: the alias map is shared, and one goroutine's store can
    overwrite an alias another goroutine is about to look up (router_alias).

What only TLC checks:

- `MatchAgreesWithSpec` and the dispatch properties
  (`RouteDispatchesAsSpecified`, `DeliversAsSpecified`,
  `PanicEscapesIffUnrecovered`, and the delivery content of the
  refinements). These rest on what the
  recursive functions `matchDeep`, `wrapHandler` and `RunAll` compute for
  every input, and the provers cannot do induction over data;
- the violation runs.

## Not modelled

- **What the middlewares print and time.** The Recoverer's message and stack
  trace and the Logger's record are events at most; their text is left out.
- **The debug logger.** `SetDebugLogger` writes `r.debug` without the lock; it
  is listed as a hazard.
- **Handlers calling back into the router.** A handler that calls a
  write-locked method deadlocks.
- **The Unsubscribe codec.** It is byte-level, its helpers are not in this
  repository, and the spec places the codec out of scope.
