# Crane-scheduler in TLA+

TLA+ models of crane-scheduler: the scheduler plugins that place pods by the
real load of nodes and by their NUMA topology, and the controller that writes
the load into annotations. The modules are checked with TLC on small instances;
every safety property that TLC finds to hold is also proved with TLAPS, for every
instance.

## 1. The system

Two processes share only the API server.

* The **scheduler** (`cmd/scheduler`) is kube-scheduler with three plugins. The
  framework runs one scheduling cycle at a time and each binding cycle in a
  goroutine beside the following scheduling cycles.
* The **controller** (`cmd/controller`) runs under leader election and holds
  five controllers with work queues, their workers, and timers.

| Component | State it keeps | Operations | Talks to |
|---|---|---|---|
| Binding records (`annotator/binding.go`) | a min-heap of recent bindings, at most `size` | `AddBinding`, `BindingsGC`, `GetLastNodeBindingCount` | one instance in the controller (fed by events), one in the Dynamic plugin (fed by `PostBind`) |
| NodeResourceTopologyMatch (`plugins/noderesourcetopology`) | cycle state, cache of assumed pods with deadlines | `PreFilter`, `Filter`, `Score`, `Reserve`, `Unreserve`, `PreBind`, cleanup loop | result annotation of pods, NodeResourceTopology objects, the scheduler's cache |
| Dynamic (`plugins/dynamic`) | its binding records | `Filter`, `Score`, `PostBind` | reads the node's load annotations |
| ApplicationResourceAware (`plugins/applicationresourceaware`) | none | `Filter` | reads range annotations of nodes and deployments, and delta annotations |
| Node controller (`annotator/node.go`) | rate limited queue of node/metric keys, tickers | `syncNode`, tickers | queries Prometheus, patches load and hot value into nodes |
| Event controller (`annotator/event.go`) | queue of events | add and update handlers, `reconcile` | `AddBinding`, hot value annotation |
| Pod controller (`annotator/pod.go`) | queue of pods | update handler, `reconcile` | reads listers, patches delta annotations |
| Reset controller (`annotator/node.go`) | queue of nodes, a cron job | midnight job, `syncNode` | removes delta annotations |
| Deployment controller (`annotator/deployment.go`) | rate limited queue of namespace/metric keys, a cron job | nightly job, `syncDeployment` | queries Prometheus, patches deployments |
| Prometheus client (`controller/prometheus`) | none | queries by IP, name, deployment | Prometheus |
| Policy and configuration APIs, metrics, commands | constants | none | - |

What is hard here, and what correctness means:

* **Topology plugin.** A pod's CPU in a zone is promised by `Reserve`, written by
  `PreBind`, and learnt by the scheduler's cache only when the informer has seen
  the bound pod; in between the plugin's own cache stands in. Cycles work on a
  snapshot, binding cycles fail or lose replies, entries expire, the scheduler
  restarts. No zone may be promised to more than it has, every bound pod must have
  what it requested, no pod may be locked out by an entry left behind, and the cache
  must drain.
* **Binding records.** At the limit, with late events, and with collections in
  between, the counts must be those of the latest bindings.
* **Load annotations.** Prometheus or the API server fails, retries are delayed
  exponentially, annotations expire. An overloaded node must be noticed, and one
  that has recovered must not be rejected for ever.
* **Hot value.** A burst of pods must not all go to the node that looked best. In the
  controller, events are updated, merged, listed again and removed, the records are lost
  in a restart, and two controllers write the annotation from counts taken earlier: no
  event may be counted more often than it changed, none that is current may be missing,
  and the annotation must settle at the value of the records.
* **Delta annotations.** Read-modify-write through a lagging informer, with several
  workers, merged events, restarts and a reset at midnight. No pod may be counted
  twice and the reset must complete.
* **Prediction.** `Filter` of ApplicationResourceAware adds up annotations that lag behind
  the pods already placed, and that may have different lengths. How far can a node be
  overbooked?
* **Deployment usage.** One failing deployment ends the round of its namespace, and
  rounds are retried past midnight. Every other deployment must be dealt with, and no
  usage may be overwritten by an older one.

`PROJECT.json` lists every such point with its line under `hazards`.

## 2. Modules

| Module | Models | Role |
|---|---|---|
| `BindingRecords` | `annotator/binding.go`: the records as a set | abstract specification |
| `BindingHeap` | the array, sifting, the pop loop of `BindingsGC` | implements `BindingRecords` |
| `BindingHeap_proofs` | | theorems: order of the array, refinement |
| `BindingRecords_proofs` | | theorems on `BindingRecords`, `HotValueAnnotation` and `DynamicScheduler` |
| `HotValueAnnotation` | event controller, hot value annotation | extends `BindingRecords` |
| `CPUReservation` | what the topology plugin promises | abstract specification |
| `TopologyMatch` | the whole topology plugin in its framework | implements `CPUReservation` |
| `PodTarget` | what the plugin reads off a pod | operators, used by `MC_TopologyMatch` |
| `NumaAssign` | the loop of `assignTopologyResult`, with memory | algorithm, proved to compute the closed form in `TopologyMatch` |
| `NumaAssign_proofs` | | theorems |
| `TopologyMatch_proofs` | | theorems: zones, cache, refinement; what `Filter` and binding grant |
| `DynamicScheduler` | `Score` and `PostBind` of Dynamic | extends `BindingRecords` |
| `DynamicLoad` | node controller, annotations, `Filter` of Dynamic and of ApplicationResourceAware | component, timed |
| `DynamicLoad_proofs` | | theorems |
| `DeltaUsage` | pod controller and reset controller | component |
| `ApplicationResourceAware` | the plugin, the scheduler's view of the node | extends `DeltaUsage` |
| `ApplicationResourceAware_proofs` | | theorems on `DeltaUsage` and `ApplicationResourceAware` |
| `DeploymentLoad` | deployment controller, queries by deployment | component |
| `DeploymentLoad_proofs` | | theorems |
| `SumTheorems` | | lemmas for all proofs: induction, recursive functions, loops, sums |
| `MC_*` | | values of constants and symmetry for TLC |

Definitions have the names of the functions they model; `map` in `PROJECT.json`
gives the lines. A definition marked *Mutant* in a comment is a plausible bug of the
definition after it; the specification does not use it, but a property that would not
notice the bug would show nothing.

### BindingRecords and BindingHeap

`bindings` is the content of the heap, `added` a history of all bindings, `now` the
Unix time. All methods take the lock, so each is one action. `heap.Pop` returns some
binding with the least timestamp (`Oldest`). `MaxLag` is how old a binding may be when
it is added: 0 in the plugin, where `PostBind` stamps it in the same second, more in
the annotator, where it is the time of an event. `Ref` tells apart the `Binding`
objects. `BindingHeap` has the array with index 1 first; its loops are functions of the
number of rounds (`Rise`, `Sink` and `Collect` are one round of `heap.up`, of `heap.down` and
of the loop of `BindingsGC`), bounded by the number after which each has ended. `ImplementsRecords` is the
specification of `BindingRecords` under the mapping that forgets the order.

### HotValueAnnotation

The records are those of `BindingRecords`, fed by `Reconcile`. `event` and `seen` are the
events in the API server and in the lister, with the fields that `translateEventToBinding`
reads: `Count` is 0 for events of `events.k8s.io`, which have an `eventTime` instead of a
`lastTimestamp`. The informer calls the handlers for the latest version, so versions are
skipped, and `Relist` delivers an unchanged one. `annotateNodeHotValue` is two steps,
`CountHotValue` and `PatchHotValue`, taken by the workers of the event controller and by
one of the node controller (`Syncer`); in between, the others go on. `Restart` empties the
records and enqueues every event that is listed. `recorded` is a history of how many
Bindings were made of an event.

### TopologyMatch, PodTarget, NumaAssign and CPUReservation

| Variable | In the code |
|---|---|
| `api`, `deleted` | `spec.nodeName` and result annotation of the pods in the API server |
| `phase` | how far the framework is with each pod |
| `assumed` | the scheduler cache (assumed and observed pods) |
| `cur`, `curAnno`, `snap`, `filtered`, `fits` | the scheduling cycle: its pod, that copy's annotation, the snapshot, the verdicts |
| `byNode`, `topologyResult` | `stateData.podTopologyByNode`, `stateData.topologyResult` |
| `podTopology`, `age` | the cache: `podTopology`, and `podTopologyTTL` as the time since the entry was made |
| `leftover` | history: nodes where a pod was assumed under an annotation of another attempt |

The actions are the extension points in the order of the framework: `PreFilter`,
`Filter` per node, `Reserve` (with its early returns `ReserveNothing` and
`ReserveError`, and `AssumePod`), `PreBind`, `Bind`; a failing step is `BindingFails`
or, if the patch had been applied, `PreBindReplyLost`, and both run `Unreserve`. Around
them: the informer, deletion, `cleanupAssumedPods`, time, `Restart`. `NodeResourcesFit`
filters the same nodes, as in the shipped configuration. CPU is the one topology-aware
resource, the default. Sums of CPU are cardinalities of sets of units, which
lets the proofs use the library on finite sets. The unit is that of the instance: in
`topology_zones` and `topology_fractions` half a CPU (`WholeCPU = 2`), so that the rounding of zones
to whole CPUs acts. The copy of a pod that a cycle starts with has its latest annotation or, if the
queue was behind, none: annotations of several attempts before the last are left out, since any
annotation of an earlier attempt makes the node a `leftover` one.

`Filter` chooses among all orders `sort.Slice` may produce. The loop that splits a
request is there in closed form (`Spread`); `NumaAssign` is the loop itself, one round
per step, and `NumaAssign_proofs` shows that the two agree on all inputs. `PodTarget` computes a
pod's request from its containers.

`CPUReservation` knows neither cycles nor caches nor annotations: a pod takes CPUs of the
zones of one node out of what is free, keeps exactly those, and gives them back, several
pods at once in a restart. Under the mapping `Granted` (the grants of pods between
`Reserve` and deletion, on nodes without a leftover annotation) every step of
`TopologyMatch` is such a step or changes nothing. That is more than the sum in
`NoOvercommit`: a grant must not change between `Reserve`, `PreBind` and the informer.

### DynamicScheduler and DynamicLoad

`DynamicScheduler` adds to the plugin's records (`BindingRecords`, with `PostBind` in
place of `Add`) the number of binding cycles that have not come to `PostBind` (`inFlight`). Usage is fixed
during a burst. `Schedule` takes a node with the best score of Dynamic: a scheduler adds the scores
of its other plugins, with weights, and `HotSpotAvoided` says nothing of what those prefer.

`DynamicLoad` is one node with discrete time: tickers (`timer`), keys
in the queue (`waiting`), keys delayed by `AddRateLimited` (`delayed`, `failures`), which
metrics are ranges over the day before (`ranged`: there an empty answer is an error, and not
`Filter` of Dynamic but that of ApplicationResourceAware looks at them), the
annotation (`usage`, `age`), outages (`up`, `outage`), and histories: how long the load
has been above or below the limit, and the metrics of which a long outage or an empty
answer has left no usage (`blind`). `Filter` is that of both plugins, for a pod that is not of a
daemon set (those pass) and whose deployment adds nothing to a node without a delta; what pods
and deltas add is in `ApplicationResourceAware`.

### DeltaUsage

One node: `anno` in the API server, `watch` the versions under way, `seen` in the
lister. Pods go from pending over scheduled and terminating to gone (or are killed);
`podSeen` is the pod lister and `notes` the notifications for the handler, which may
be fewer than the versions, as after a relist. A worker holds what `reconcile` has read
(`worker[w]`) while others run; patches carry no precondition but that of the JSON
patch operations `replace` and `remove`. `adds` and `subs` count what was applied for
each pod and metric; `owed` is what a midnight has found.

### ApplicationResourceAware

The pods of `DeltaUsage` are scheduled only if `Filter` lets them onto the node, which it
decides on the scheduler's own copy of the delta annotations (`view`, with the versions
under way in `pending`). `node` is the rest of what it reads: the node's range of the day
before, the policy's limit and the capacity, one of `NodeStates`. `Lapses` says what
may excuse an overbooked node: the pods placed or deleted while an earlier change
had not come through to `view` (`hasty`), the patches lost (`failed`), the restarts, and
the subtractions of a pod after its first (`Repeated`).

`Repeated` is there because of the proof. A pod that is placed and deleted before the
controller has handled either change finds a deletion timestamp both times: it is never
added, and subtracted twice. The two changes are one haste, but the delta is then short by
two usages, and with pods of usage 3 a node of limit 2 gets to 6: more than
`2 + 3 * hasty`. The instance needs three pods and different usages, which is more than
`app_filter` has; TLC finds it in a larger one.

### DeploymentLoad

One metric, of either kind (`ranged`); time in days. `worker[w]` is a round of
`syncDeployment`: what is left of the list it has read, which of those were without
replicas or already annotated in that copy, and the value to be patched next. Annotations
are abstracted to whose samples they hold, and of which day: the queries select by the
name of the deployment alone, so a deployment of the same name in another namespace
(`Namesake`) may be the source (`Other`). The list comes from a Go map in random order, so
any deployment may be next. `due` is a history of what the cron job has found and no round
has dealt with.

## 3. Runs

| Run | Instance | Shows |
|---|---|---|
| `heap` | 6 bindings of any age in a heap of 5 (three levels) | order of the array; it implements `BindingRecords` |
| `topology_zones` | 3 pods, 1 node, 2 zones of three and a half CPUs | no overcommitment; bound pods have an annotation within their request, aware ones all of it; it implements `CPUReservation` |
| `topology_nodes` | a target pod and a daemon pod; static nodes with and without the single-NUMA policy, one not static, one without topology object | no entry left behind; bound as requested; the cache drains (liveness) |
| `app_filter` | 2 pods of 2 deployments, 2 workers, histories of two lengths, three kinds of node, lost patches, a restart | no pod is added twice; a delta never exceeds what the added pods can use; a node is overbooked by at most a pod for each that came or went too fast, was subtracted again or was lost |
| `delta_reset` | 2 metrics, 2 midnights, a usage that expires or changes, a restart | the reset completes (liveness); a worker that is late does not bring the old delta back |
| `load` | an instant or a range metric, period 8, extra 6, back-off 1 to 4, worker delay 1, outages of up to 18, empty answers | an overload is noticed within the active duration; no rejection by an expired annotation |
| `burst` | 3 nodes, 6 pods, heap of 4, 2 cycles in flight, time to 5 | the heap never exceeds its size, drops only expired or oldest bindings, counts exactly below the limit; collections are invisible; bounded imbalance; scores in range |
| `hot_value` | an event of each API, one of them updated, heap of 3, a restart | no event is counted more often than it changed; current events are in the records; the annotation settles (liveness) |
| `deployment` | 2 deployments of one namespace, one whose query always fails, one with a namesake, 2 workers, 2 days, 2 changes, a restart | nothing due is forgotten; every deployment but the failing one is dealt with (liveness); no usage is replaced by an older one |

The bounds are chosen so that the cases happen: more bindings than the heap holds and
clocks longer than the longest policy; three pods where two fill a zone, so that the
third shows every mistake in accounting; entries that may expire at once (`TTL = 0`)
and entries that outlive binding (`TTL = 1`); as many workers as pods; outages longer
than an annotation is active; a node with room for one of two pods; a round that begins
before midnight and patches after it. `hot_value` has one worker per controller, the
default of `--concurrent-syncs`; two workers meet in `annotateNodeHotValue`. In `load` the extra period is the least that suffices for
outages of `ShortOutage`: with 5 in its place TLC finds a node that is overloaded and
not noticed. `CHECK_DEADLOCK` is off in `DeltaUsage`,
`ApplicationResourceAware`, `HotValueAnnotation` and `DeploymentLoad`, which come to rest
when pods, events or keys are dealt with and the bounds on time, restarts and changes are
used up.

Runs expected to fail, each a disagreement between the code and what it says of itself
(`findings` in `PROJECT.json` has the quotations):

| Run | Counterexample |
|---|---|
| `topology_leftover` | the annotation of a failed attempt hides the cache entry of the present one: a zone is promised twice |
| `topology_fractions` | zones of 2.5 and 3.5 CPUs, as in `filter_test.go:36`: two pods leave half a CPU in each, a third that asks for one passes `Filter` with an empty result, the case of which `reserver.go:26` says "Should never happen" |
| `delta_events` | a pod deleted before its scheduling is reconciled is subtracted, never added |

Other places where the code does not do what a comment or document says. The models
have the behaviour of the code, and the properties are stated around it:

* A late event evicts a younger binding from the full heap of the annotator
  (`binding.go:74`): `LatestKept` needs `MaxLag = 0`.
* The plugin's records are collected after 5 minutes whatever its policies say
  (`dynamic/plugins.go:158`): `GCInvisible` needs `PoliciesCovered`.
* An empty vector of Prometheus is annotated without an error or a retry, and the query
  by name is not made (`prometheus.go:81`, `node.go:114`): the set `blind` in `DynamicLoad`.
* Zones are rounded down to whole CPUs only after a node was found to fit (`helper.go:194`).
  Besides the empty result of `topology_fractions`, a pod may be bound with a result for a
  part of its request (in `topology_zones` too: the third pod may get two CPUs of three), and
  `filter_test.go:297` has `Filter` pass a node with one whole CPU of two.
  `BoundWithinRequest` is what holds then; `BoundAsRequested` is about zones of whole CPUs, and
  `RequestMet` asks for enough whole ones.
* A late patch of the pod controller overwrites a delta that another worker has begun after the
  reset (`utils.go:275`: `replace` needs the annotation, not its value): `ResetStartsAnew` is
  about the patch that finds none.
* Every update of a Scheduled event adds one more binding (`event.go:113`), so a pod may
  count several times: `RecordedPerVersion` bounds it by the versions of the event.
* The queries for deployments select by name only (`prometheus.go:118`, `:188`); of several
  series `queryRange` keeps the first and `query` the last.
* For an instant metric an empty vector is annotated to a deployment as an empty usage.
* A policy of ApplicationResourceAware for a resource that is neither cpu nor memory has
  capacity 0 (`filter.go:70`), and the node is rejected for any usage above 0.
* The memory in a topology result is built from the milli-CPUs (`helper.go:340`).
* `doc/dynamic-scheduler.md:31` has the priority as the score minus the hot value; `Score`
  subtracts ten times that (`dynamic/plugins.go:120`).

## 4. Fairness

* `topology_nodes`: weak fairness of the binding cycles (goroutines with deadlines that
  end by binding or by failing), of the informer, of filtering and reserving in a cycle
  under way, of the cleanup loop (every second) and of time. `Tick` is not held up by an
  entry that is needed, because binding and observation then are.
* `delta_reset`: weak fairness of the node informer and the reset worker; strong
  fairness of a removal, since a removal that is tried again and again with rate limiting
  is accepted in the end. A restart clears what is owed: a
  reset that it misses is not made up for.

* `hot_value`: the node controller syncs every node each period, so strong fairness of
  its sync, count and patch of each node: patches may fail, but not each time. Nothing is
  assumed of the event controller.
* `deployment`: weak fairness of delays that end, of the steps of a round (queries have a
  timeout) and of the informer; strong fairness of taking a key, and of querying and
  patching each deployment that is not broken: failures end, and the random order of a Go
  map puts every deployment first now and then. With the deployments in a fixed order
  (`NextInOrder`) those behind a broken one would never be reached.

The other properties are safety properties and need none.

## 5. Assumptions on the environment

* `MaxBindDelay <= TTL`: a pod is bound, and the bound pod is observed, within the life
  of its cache entry (30 minutes). `Tick` states it: time does not pass while an entry
  older than that is needed.
* Constants: `Pods`, `Node` and `Zones` are finite sets; counts of policies are positive;
  `Absent` is no usage and `Idle` no job (`MarkerAssumption`, `IdleAssumption`); a whole CPU is not 0
  (`CPUAssumption`; `ZonesAndUnits` repeats this for `NumaAssign`). Every `ASSUME` is evaluated in a run.
* `Listed` for `NotOverbooked`: some policy of the controller keeps the delta of the metric that
  Filter reads. `HotValueConfigured` for `HotSpotAvoided`: there is a hot value policy, and the
  collection period covers each.
* `WholeZones` for `BoundAsRequested` (not for `BoundWithinRequest`), and `DistinctPolicies` for
  `AddedOnce`: hypotheses of the theorems, true in the runs.
* `MaxLag = 0` in the plugin: `PostBind` takes the time and calls `AddBinding` within a
  second.
* Outages are rare in `DynamicLoad`: one begins when the failures of the last one are
  made up for; a key waits at most `MaxDelay` for a worker.
* `PoliciesCovered` for `GCInvisible`: true in the annotator, where `getMaxHotVauleTimeRange`
  gives the period.
* In `app_filter` the node's range, the limit and the usages of the deployments stay the
  same: it is about one day, between midnight's reset and the next.
* In `DeploymentLoad` the cron job finds the listers synced.
* Request and allocatable CPU of zones do not change while pods are scheduled.

## 6. Proofs

All theorems hold for any values of the constants that satisfy the named `ASSUME`s.

`SumTheorems` has what the others rest on. The library's induction theorems have an operator
as a parameter, which the provers cannot instantiate; here induction is stated of *sets* of
numbers and of finite sets (`SetInduction`, `PartInduction`) and from it follow the
existence of functions defined by recursion over the numbers (`RecursionExists`), what a loop
written as such a function ends with (`LoopExists`, `LoopEnds`), and the facts on
`SumFunctionOnSet`, a `CHOOSE` in the community modules: the order of summation does not matter
(`SumRemove`), sums are monotone, additive and change by what one element changes (`SumAtMost`,
`SumPart`, `SumChange`).

`BindingRecords_proofs`, on the records:

* `LenNeverExceedsSize` (`TypeOK`, `LenBounded`). The inductive invariant `HeapInv` adds to
  the bound that the set is finite: `AddBinding` tests `Len() == size`, which bounds the
  heap only because it was not above the size before.
* `PluginKeepsLatest` (`LatestKept`, for `MaxLag = 0`). A new binding is as young as any, so
  when the oldest is evicted, all `size` others and the new one are at least as young.
* `PluginCountExact` (`CountExact`) follows from it: a missing binding that a policy counts
  would have `size` others within the period.
* `CollectionInvisible` (`GCInvisible`, for `PoliciesCovered`).

On `HotValueAnnotation`, in the same module:

* `CountedPerVersion` (`RecordedPerVersion`). The invariant `VersionsAhead` gives a key in the
  queue a version that has no Binding yet; it needs that the lister is behind the API server
  and has an event as it is once it has its version (`ListerBehind`), so that a notification
  with a new version is news and one without is not.
* `RecordsStayComplete` (`RecordsComplete`) is inductive together with `ListerBehind`: a change
  puts the key back, `AddBinding` evicts nothing while no more than `size` Bindings were ever
  added (`AddKeeps`), and a collection spares what is young (`GCKeeps`).
* `AnnotatorLenBounded` (`LenBounded`), here with restarts and with the times of events.
* `HotValueTypeCorrect` (`HotValueTypeOK`). That the Binding made of an event has a time of its
  own needs the shape of the events of either API (`EventsTimed`), and that there is a `Ref` for
  it needs that as many Bindings were added as were counted for events (`AddedCounted`), with
  `VersionsAhead`.

On `DynamicScheduler`, in the same module:

* `BurstUsesRecords`: the plugin's cycles use the records as `BindingRecords` allows, so the
  theorems on the records hold in the plugin.
* `BurstTypeCorrect` (`BurstTypeOK`): the weighted sums and the hot value are integers, also for
  overcommitted nodes and missing usages, so that `NormalizeScore` gets a number to bring into
  range; with `CyclesBounded` on the sum of the cycles in flight.
* `BurstAvoidsHotSpots` (`HotSpotAvoided`), for `HotValueConfigured`. The inductive form is
  `BurstSpread`, in which the other node counts with its Bindings only, since its cycles may
  still fail: when a pod goes to node `a`, `Score` has found `a` no worse than `b`, so the
  hot value of `a`, a sum of quotients, is not above that of `b`, and `a` has less than
  `LeastCount` Bindings more (`HotGrows`). That the hot value is that of all Bindings added is
  `CountExact` (`BurstCounts`).

`BindingHeap_proofs`:

* `ArrayIsHeap` (`HeapOrdered`). `HeapInv`: the array has no Binding twice and is ordered. In
  the middle of `up` the order holds but for the element that rises, whose children are not
  older than its parent, and likewise for `down`; a round moves that place and a round in which
  nothing moves has restored the order. That this takes no more rounds than the loops are given
  follows from the place moving by at least one each time.
* `ArrayImplementsRecords` (`ImplementsRecords`), from the same invariant: the first element is
  an oldest one, sifting permutes the array, and the pop loop stops at the first young element,
  when exactly the expired ones are out.

`NumaAssign_proofs`, from the invariant `LoopInv` over the rounds of the loop: after each, what is
left of the request is the request less what the earlier zones have given, and that is the lesser
of what they have and the request (`LeftInTurn`, `RoundsTaken`, `SumTaken`).

* `LoopSpreads` (`LoopComputesSpread`), so that `TopologyMatch` may use the closed form.
* `LoopMeetsRequest` (`RequestMet`).

The loop is a function of its inputs and the theorems are about all of them (any amounts, fractions
of a CPU, overcommitted zones, memory that runs out before or after the CPUs); no run repeats this
for some.

`TopologyMatch_proofs`:

* `TypeCorrect`, `ZonesNotOvercommitted` (`NoOvercommit`), `AssumePodNeverFails`
  (`PendingNotCached`), all from `Inductive` (`IndInv`).

`NoOvercommit` is not inductive: `Reserve` keeps it only if what `Filter` noted still
fits (`Room`). `Filter` establishes `Room` because the snapshot and the cache tell it every
pod's grant (`Visible`). `Visible` survives `cleanupAssumedPods` because no entry that is
needed is past its deadline (`Fresh`), and the steps of a binding cycle because the
plugin's notes agree with its progress (`Bookkeeping`). The arithmetic is in lemmas on
`Total`: a sum is monotone, splits at an element, and what `assignTopologyResult` returns
fits into what is free (`ResultFits`).

* `PluginImplementsReservation` (`ImplementsReservation`). From `IndInv` before and after a
  step: under the mapping `Granted`, `Reserve` takes what `Room` says is free, `PreBind` and
  the informer only move a grant from one copy to another, and every other step changes
  nothing or gives grants back whole.

What results grant, for zones of any amounts, with fractions of a CPU and overcommitted ones:

* `ResultsStayWithin` (`Within`), the inductive invariant: a result in the cycle, in flight or
  in the annotation of a bound pod is no more than the request, and has all of it in one zone for
  an aware pod; the empty results that rounding makes stay in the cycle, because `Reserve` refuses
  them. What the loop gives is within the request by `LoopGivesNoMore`.
* `PodsBoundWithinRequest` (`BoundWithinRequest`).

More holds for `WholeZones`: static nodes whose zones are made of whole CPUs
and hold what the node has, and pods whose target containers are some of their containers.
Without it the next statements are false of the code (`topology_fractions`): a zone's fraction of
a CPU counts in `NodeResourcesFit` and is rounded down in `assignTopologyResult`.

* `ResultsStayComplete` (`Complete`), the inductive invariant: the results noted in the cycle
  and kept in flight cover their pod's request (`AsRequested`), and no copy of a result, not
  even one that an earlier attempt left, is larger than the request (`NoneAbove`). So the pods
  leave the zones of a node at least what they leave the node, and a node that passes the fit
  test has room in its zones.
* `PodsBoundAsRequested` (`BoundAsRequested`).

`DynamicLoad_proofs`. The proofs look at a step as one metric sees it (`MStep`), so that
the arithmetic is about a handful of numbers.

* `TypeCorrect` (`LoadTypeOK`). The delay is `BackOff * Pow2[failures]`, capped; that `Pow2` is
  defined at all, doubles and has numbers as values is proved by `SetInduction`.
* `RejectionsJustified` (`RejectionJustified`). The invariant `UsageTold`: if the annotation
  is younger than the time for which the load has been on one side of the limit, then it is on
  that side too.
* `OverloadsNoticed` (`OverloadNoticed`), for `ExtraSuffices`, that is
  `3 * ShortOutage + 2 * BackOff + 2 * MaxDelay < Extra`, and for periods longer than
  `ShortOutage` (`PeriodsLonger`). With the values of the code (10 seconds, 5 minutes, periods
  from 3 minutes) this covers, for instance, outages of a minute with workers that are 40
  seconds late. The run needs less, since there no retry and tick can meet.
  `SyncsDue` says that the next attempt for a metric that is not blind comes before its
  annotation expires. A success makes it true for a period (`KeysFresh`); a failure keeps
  it because in a short outage the age, the delay that is running and the next one are
  bounded by the length of the outage so far (`RetriesPaced`): delays double, so the next is
  at most the sum of those before and one more, and twice that when a tick makes an attempt
  beside the retries, which happens at most once.

`ApplicationResourceAware_proofs`, on `DeltaUsage`:

* `TypeCorrect` (`TypeOK`).
* `PodAddedOnce` (`AddedOnce`), for policies that list no metric twice (`DistinctPolicies`;
  otherwise the second patch of the same reconcile repeats the first). `OneTrigger`: while
  the lister has a pod as scheduled, its notification, its key in the queue and the job for it
  exclude each other. `AddsAhead`: a job that adds has not done so for the metrics still ahead.
* `DeltaStaysBounded` (`DeltaBounded`), without that hypothesis. `SnapshotsFit`: every copy of
  the node, in the API server, under way, in the lister or in a worker's hands, is bounded by
  the pods that have been added; and the copy of a worker that adds a pod, by the others.
* `ResetForgetsYesterday` (`ResetStartsAnew`, an action property), from the types: a delta appears
  only by a patch with the operation `add`, which a worker that had read a delta does not use.

On `ApplicationResourceAware`, in the same module:

* `ClusterImplementsController`: the composition implements the controller, hence
  `ClusterAddedOnce` and `ClusterDeltaBounded`.
* `AraTypeCorrect` (`AraTypeOK`), where `hasty` and `failed` are bounded by twice the pods
  (`HurryCounted`, `LossCounted`).
* `FilterNotOverbooks` (`NotOverbooked`), for `Listed`. The inductive invariant is `Books`. A pod
  *claims* its usage from its placement until it is first subtracted. `Shortfall` compares the
  claims with every copy of the delta: in the API server, under way to either informer, in the
  lister, in the scheduler's snapshot and in a worker's hands. No copy falls short by more than
  `Slack` (`MaxUsage` for each lapse) and one pod, none by more than `Slack` and the cost of any
  one pod whose change is still to be applied (`Unsettled`), and once there is no such pod the
  annotation itself is within `Slack` (`Within`). One pod at a time is enough, although many may
  be under way: a pod that comes while another is unsettled is hasty and adds to `Slack`. So a
  worker that patches what it computed from a stale node, and overwrites the patch of another,
  stays within bounds. Around it: the lister has versions that were, notifications are about
  changes, the last version under way is the current one and a job has the deployment's usages
  (`Bookkeeping`). When `Filter` lets a pod pass, its snapshot shows the claims up to `Slack`, or
  the pod is hasty. TLC has checked `Books` on the instance of `app_filter` and on a larger one
  with three pods.

`DeploymentLoad_proofs`:

* `TypeCorrect` (`DeploymentTypeOK`), with `ValuesFound`: a round over a range has no empty value at hand.
* `NoDeploymentForgotten` (`DueMeansPending`), with `DueExists`.
* `UsageStaysFresh` (`UsageNotOutdated`, an action property). `RoundsApart`: the queue gives a
  namespace to one worker at a time; `DaysInOrder`: no annotation is younger than the value a
  round is about to put in its place.

Checked by TLC only: the liveness properties `CacheDrains`, `ResetCompletes`, `HotValueSettles` and
`DeploymentsServed`, since the prover handles neither fairness nor `ENABLED`; and the three
counterexamples. Every invariant and every action property of the passing runs, and both
refinements, are theorems.

## 7. Not modelled

* Preemption and nominated pods, changes of NodeResourceTopology objects, a binding whose
  reply is lost (the pod then is bound while the framework forgets it), expiry of
  assumed pods in the framework's own cache.
* A deployment or replica set that is deleted before the event of its pod is reconciled
  (`pod.go:104`): `reconcile` then ends with an error, the pod is not subtracted and the delta stays
  too large, which no property excludes. `DeployOf` is fixed.
* Floating point rounding of usages and scores; policies with weight 0.
* `getNodeHotValue` of the Dynamic plugin, which nothing calls.
* Policies of ApplicationResourceAware beyond the first, and range annotations of nodes
  that change during the day.
* A controller that starts before its pod and deployment caches are synced
  (`controller.go:93`), and keys of the reset and of the nightly job that a restart loses:
  the code does not make up for either.
* Queries with an offset (`prometheus.go:97`) and `CreateMetricSyncTicker1`
  (`deployment.go:140`), which nothing calls.
* Types, generated code, metrics, flags, health server, the election itself.

## 8. State of the plan

Every component with behaviour of its own is modelled and checked, and every safety property of
the runs is proved. What could come next:

1. Several policies of ApplicationResourceAware, and changes of a node's range during the day.
2. Changes of NodeResourceTopology objects while pods are scheduled.
3. A controller that starts before its pod and deployment caches are synced.
