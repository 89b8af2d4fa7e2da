----------------------------- MODULE DeltaUsage -----------------------------
(***************************************************************************)
(* The delta annotations of a node: what the pods scheduled to it since    *)
(* midnight are expected to use, less what the deleted ones used.  The     *)
(* pod controller (annotator/pod.go) adds and subtracts the usage of a     *)
(* pod's deployment, the reset controller (annotator/node.go) removes the  *)
(* annotations at midnight.  Both read the node from an informer, which    *)
(* lags behind the API server, and patch it without a precondition.        *)
(*                                                                         *)
(* Nodes do not interact; this is one of them.  A usage range is the       *)
(* sequence of its values and <<>> the empty string; Absent stands for an  *)
(* annotation that does not exist.                                         *)
(***************************************************************************)
EXTENDS Integers, Sequences, FiniteSets

CONSTANTS
    Pods, Deploys,
    DeployOf,      \* DeployOf[p]: a pod's deployment, or NoDeploy
    NoDeploy,
    Metrics,       \* names in policy.Spec.SyncAppPeriod
    Policies,      \* the same, as the list that reconcile goes through
    Workers,       \* goroutines of the pod controller
    Absent, Expired, Idle,
    Ranges,        \* usage ranges that Prometheus gives for a deployment
    MaxUsage,      \* the largest value in them
    MaxSyncs,      \* bound on changes of the deployments' annotations
    MaxResets,     \* bound on midnights
    MaxRestarts    \* bound on restarts of the controller

ASSUME PolicyAssumption ==
    /\ Policies \in Seq(Metrics) \ {<<>>}
    /\ DeployOf \in [Pods -> Deploys \cup {NoDeploy}]
    /\ NoDeploy \notin Deploys
ASSUME RangeAssumption ==
    /\ MaxUsage \in Nat
    /\ \A r \in Ranges : r \in Seq(Nat) /\ \A j \in DOMAIN r : r[j] <= MaxUsage
ASSUME PodsAssumption == IsFiniteSet(Pods)

VARIABLES
    pod,         \* the API server's pods
    podSeen,     \* the pod lister
    notes,       \* update notifications on their way to handleUpdateEvent
    deploy,      \* the deployments' annotations, which the controller re-reads
    anno,        \* delta annotations of the node in the API server
    seen,        \* the same in the node lister
    watch,       \* versions of the node on their way to the lister
    queue,       \* keys waiting in the pod queue
    worker,      \* what each worker is reconciling
    resetQueued, \* the node waits in the reset queue
    resetKeys,   \* annotations that a reset worker has read and must remove
    syncs, resets, restarts,
    adds, subs,  \* history: how often each pod was added and subtracted
    owed         \* history: annotations found by a midnight since the last restart,
                 \* and not removed since

podVars   == <<pod, podSeen, notes>>
nodeVars  == <<anno, seen, watch>>
resetVars == <<resetQueued, resetKeys>>
counts    == <<syncs, resets, restarts>>
vars == <<podVars, deploy, nodeVars, queue, worker, resetVars, counts, adds, subs, owed>>

(* A pod has a node from "scheduled" on and a deletion timestamp while it  *)
(* is "terminating"; then it is "gone".  Removed by force it is "killed"   *)
(* without a timestamp.                                                    *)
PodState == {"pending", "scheduled", "terminating", "gone", "killed"}
Stage == [pending |-> 1, scheduled |-> 2, terminating |-> 3, gone |-> 4, killed |-> 4]
Removed == {"gone", "killed"}
PodStep == {<<"pending", "scheduled">>, <<"scheduled", "terminating">>,
            <<"terminating", "gone">>, <<"scheduled", "killed">>}
Versions == [pending |-> {}, scheduled |-> {"scheduled"},
             terminating |-> {"scheduled", "terminating"},
             gone |-> {"scheduled", "terminating", "gone"},
             killed |-> {"scheduled", "killed"}]

Note == [pod : Pods, old : PodState, new : PodState]
Values == Seq(Int)
NodeAnnotations == [Metrics -> Values \cup {Absent}]
DeployAnnotations == [Metrics -> Ranges \cup {Absent, Expired}]
NoAnnotations == [m \in Metrics |-> Absent]
Job == [pod : Pods, mergeType : {"add", "sub"}, usages : DeployAnnotations,
        node : NodeAnnotations, i : 1..Len(Policies)]
ASSUME MarkerAssumption == Absent \notin Values /\ Idle \notin Job

TypeOK ==
    /\ pod \in [Pods -> PodState]
    /\ podSeen \in [Pods -> PodState]
    /\ notes \in Seq(Note)
    /\ deploy \in [Deploys -> DeployAnnotations]
    /\ anno \in NodeAnnotations
    /\ seen \in NodeAnnotations
    /\ watch \in Seq(NodeAnnotations)
    /\ queue \subseteq Pods
    /\ \A w \in Workers : worker[w] = Idle \/ worker[w] \in Job
    /\ DOMAIN worker = Workers
    /\ resetQueued \in BOOLEAN
    /\ resetKeys \subseteq Metrics
    /\ syncs \in Nat /\ resets \in Nat /\ restarts \in Nat
    /\ adds \in [Metrics -> [Pods -> Nat]]
    /\ subs \in [Metrics -> [Pods -> Nat]]
    /\ owed \subseteq Metrics

Init ==
    /\ pod = [p \in Pods |-> "pending"]
    /\ podSeen = pod
    /\ notes = <<>>
    /\ deploy \in [Deploys -> DeployAnnotations]
    /\ anno = NoAnnotations
    /\ seen = NoAnnotations
    /\ watch = <<>>
    /\ queue = {}
    /\ worker = [w \in Workers |-> Idle]
    /\ resetQueued = FALSE
    /\ resetKeys = {}
    /\ syncs = 0
    /\ resets = 0
    /\ restarts = 0
    /\ adds = [m \in Metrics |-> [p \in Pods |-> 0]]
    /\ subs = [m \in Metrics |-> [p \in Pods |-> 0]]
    /\ owed = {}

-----------------------------------------------------------------------------
(* The cluster around the controller.                                      *)

(* The scheduler binds a pod, a user deletes it, the kubelet removes it.   *)
PodChanges(p, s) ==
    /\ <<pod[p], s>> \in PodStep
    /\ pod' = [pod EXCEPT ![p] = s]
    /\ UNCHANGED <<podSeen, notes, deploy, nodeVars, queue, worker, resetVars, counts, adds, subs, owed>>

(* The pod informer stores a newer version, perhaps after missing some,    *)
(* and notifies the handler.  Only updates are handled.                    *)
ObservePod(p, s) ==
    /\ s \in Versions[pod[p]]
    /\ Stage[podSeen[p]] < Stage[s]
    /\ podSeen' = [podSeen EXCEPT ![p] = s]
    /\ notes' = IF s \in Removed THEN notes
                ELSE Append(notes, [pod |-> p, old |-> podSeen[p], new |-> s])
    /\ UNCHANGED <<pod, deploy, nodeVars, queue, worker, resetVars, counts, adds, subs, owed>>

(* The node informer stores the next version.                              *)
ObserveNode ==
    /\ watch # <<>>
    /\ seen' = Head(watch)
    /\ watch' = Tail(watch)
    /\ UNCHANGED <<podVars, deploy, anno, queue, worker, resetVars, counts, adds, subs, owed>>

(* The deployment controller renews an annotation, or it expires.          *)
DeployChanges(d, m, r) ==
    /\ syncs < MaxSyncs
    /\ r = Expired => deploy[d][m] # Absent
    /\ r # deploy[d][m]
    /\ deploy' = [deploy EXCEPT ![d][m] = r]
    /\ syncs' = syncs + 1
    /\ UNCHANGED <<podVars, nodeVars, queue, worker, resetVars, resets, restarts, adds, subs, owed>>

-----------------------------------------------------------------------------
(* The pod controller.                                                     *)

(* handleUpdateEvent: a pod got its node, or else its deletion timestamp.  *)
(* queue.Add drops a key that waits already.                               *)
handleUpdateEvent ==
    /\ notes # <<>>
    /\ notes' = Tail(notes)
    /\ LET n == Head(notes)
           scheduled == n.old = "pending" /\ n.new # "pending"
           deleted == n.old # "terminating" /\ n.new = "terminating"
       IN  queue' = IF scheduled \/ deleted THEN queue \cup {n.pod} ELSE queue
    /\ UNCHANGED <<pod, podSeen, deploy, nodeVars, worker, resetVars, counts, adds, subs, owed>>

Busy == {w \in Workers : worker[w] # Idle}
Processing == {worker[w].pod : w \in Busy}

(* reconcile reads the pod, its deployment and the node once.  It returns  *)
(* with an error when one is missing; nothing is ever put back.            *)
Reconcile(w) ==
    /\ worker[w] = Idle
    /\ \E p \in queue \ Processing :
          /\ queue' = queue \ {p}
          /\ \/ /\ podSeen[p] \in Removed \/ DeployOf[p] = NoDeploy
                /\ UNCHANGED worker
             \/ /\ podSeen[p] \notin Removed /\ DeployOf[p] # NoDeploy
                /\ worker' = [worker EXCEPT ![w] =
                      [pod       |-> p,
                       mergeType |-> IF podSeen[p] = "terminating" THEN "sub" ELSE "add",
                       usages    |-> deploy[DeployOf[p]],
                       node      |-> seen,
                       i         |-> 1]]
    /\ UNCHANGED <<podVars, deploy, nodeVars, resetVars, counts, adds, subs, owed>>

(* GetResourceUsageRange and GetDeltaUsageRange: the empty string when     *)
(* there is no annotation.                                                 *)
UsageRange(a) == IF a = Absent THEN <<>> ELSE a

(* MergeUsageRange, and when it does not fail.  The parser rejects the     *)
(* empty string; a shorter delta is dropped, a longer one is an error.     *)
Mergeable(delta, usage, mergeType) ==
    \/ delta = <<>> /\ mergeType = "add"
    \/ usage # <<>> /\ Len(delta) <= Len(usage)

(* Mutant: what a deleted pod used is added, too.                          *)
MergeAlwaysAdding(delta, usage, mergeType) ==
    IF delta = <<>> THEN usage
    ELSE [j \in DOMAIN usage |-> usage[j] + (IF Len(delta) = Len(usage) THEN delta[j] ELSE 0)]

MergeUsageRange(delta, usage, mergeType) ==
    LET old == IF Len(delta) = Len(usage) THEN delta ELSE [j \in DOMAIN usage |-> 0]
    IN  IF delta = <<>> /\ mergeType = "add"
        THEN usage
        ELSE [j \in DOMAIN usage |-> IF mergeType = "add" THEN old[j] + usage[j] ELSE old[j] - usage[j]]

Metric(w) == Policies[worker[w].i]
Delta(w) == UsageRange(worker[w].node[Metric(w)])
Usage(w) == UsageRange(worker[w].usages[Metric(w)])

(* The loop over the policies goes on, or ends and with it the job.        *)
Advance(w) ==
    LET job == worker[w]
    IN  worker' = [worker EXCEPT ![w] = IF job.i = Len(Policies) THEN Idle ELSE [job EXCEPT !.i = job.i + 1]]

(* Mutant: an expired usage is used.                                       *)
MergesExpired(w) == Mergeable(Delta(w), Usage(w), worker[w].mergeType)

Merges(w) ==
    /\ worker[w].usages[Metric(w)] # Expired
    /\ Mergeable(Delta(w), Usage(w), worker[w].mergeType)

(* The policy is passed over: the usage is expired or does not merge.      *)
SkipPolicy(w) ==
    /\ worker[w] # Idle
    /\ ~Merges(w)
    /\ Advance(w)
    /\ UNCHANGED <<podVars, deploy, nodeVars, queue, resetVars, counts, adds, subs, owed>>

Patching(w) == worker[w] # Idle /\ Merges(w)

WriteNode(annotations) == anno' = annotations /\ watch' = Append(watch, annotations)

(* Mutant: the operation is always "add", which also replaces.             *)
PatchAlwaysAdding(w) ==
    /\ Patching(w)
    /\ WriteNode([anno EXCEPT ![Metric(w)] =
                    MergeUsageRange(Delta(w), Usage(w), worker[w].mergeType)])
    /\ IF worker[w].mergeType = "add"
       THEN adds' = [adds EXCEPT ![Metric(w)][worker[w].pod] = @ + 1] /\ UNCHANGED subs
       ELSE subs' = [subs EXCEPT ![Metric(w)][worker[w].pod] = @ + 1] /\ UNCHANGED adds
    /\ Advance(w)
    /\ UNCHANGED <<podVars, deploy, seen, queue, resetVars, counts, owed>>

(* PatchNodeAnnotation succeeds: "add", or "replace" when the lister knew  *)
(* the annotation, which the API server accepts only if it exists.         *)
PatchNodeAnnotation(w) ==
    /\ Patching(w)
    /\ worker[w].node[Metric(w)] = Absent \/ anno[Metric(w)] # Absent
    /\ WriteNode([anno EXCEPT ![Metric(w)] =
                    MergeUsageRange(Delta(w), Usage(w), worker[w].mergeType)])
    /\ IF worker[w].mergeType = "add"
       THEN adds' = [adds EXCEPT ![Metric(w)][worker[w].pod] = @ + 1] /\ UNCHANGED subs
       ELSE subs' = [subs EXCEPT ![Metric(w)][worker[w].pod] = @ + 1] /\ UNCHANGED adds
    /\ Advance(w)
    /\ UNCHANGED <<podVars, deploy, seen, queue, resetVars, counts, owed>>

(* It fails, for that or any other reason: reconcile returns, and leaves   *)
(* the policies that follow undone.                                        *)
PatchFails(w) ==
    /\ Patching(w)
    /\ worker' = [worker EXCEPT ![w] = Idle]
    /\ UNCHANGED <<podVars, deploy, nodeVars, queue, resetVars, counts, adds, subs, owed>>

-----------------------------------------------------------------------------
(* The reset controller.                                                   *)

(* The cron job.  What the lister knows is owed a removal, unless one is   *)
(* already on its way to the lister.                                       *)
CreateMetricResetTicker ==
    /\ resets < MaxResets
    /\ resets' = resets + 1
    /\ resetQueued' = TRUE
    /\ owed' = owed \cup {m \in Metrics : seen[m] # Absent /\ \A i \in DOMAIN watch : watch[i][m] # Absent}
    /\ UNCHANGED <<podVars, deploy, nodeVars, queue, worker, resetKeys, syncs, restarts, adds, subs>>

(* syncNode takes the keys from the lister's node ...                      *)
SyncNode ==
    /\ resetQueued /\ resetKeys = {}
    /\ resetQueued' = FALSE
    /\ resetKeys' = {m \in Metrics : seen[m] # Absent}
    /\ UNCHANGED <<podVars, deploy, nodeVars, queue, worker, counts, adds, subs, owed>>

(* ... removes them one by one, in any order ...                           *)
DeleteNodeAnnotation(m) ==
    /\ m \in resetKeys
    /\ anno[m] # Absent
    /\ WriteNode([anno EXCEPT ![m] = Absent])
    /\ resetKeys' = resetKeys \ {m}
    /\ owed' = owed \ {m}
    /\ UNCHANGED <<podVars, deploy, seen, queue, worker, resetQueued, counts, adds, subs>>

(* Mutant: a failed removal is forgotten.                                  *)
DeleteForgotten ==
    /\ resetKeys # {}
    /\ resetKeys' = {}
    /\ UNCHANGED <<podVars, deploy, nodeVars, queue, worker, resetQueued, counts, adds, subs, owed>>

(* ... and is tried again when a removal fails: always, if the annotation  *)
(* is gone already, and otherwise by an error of the API server.           *)
DeleteFails ==
    /\ resetKeys # {}
    /\ resetKeys' = {}
    /\ resetQueued' = TRUE
    /\ UNCHANGED <<podVars, deploy, nodeVars, queue, worker, counts, adds, subs, owed>>

(* Mutant: handleAddEvent, which is commented out, enqueues every pod that *)
(* has a node when the informer starts.                                    *)
RestartHandlingAdds ==
    /\ restarts < MaxRestarts
    /\ restarts' = restarts + 1
    /\ podSeen' = pod
    /\ notes' = <<>>
    /\ queue' = {p \in Pods : pod[p] = "scheduled"}
    /\ worker' = [w \in Workers |-> Idle]
    /\ seen' = anno
    /\ watch' = <<>>
    /\ resetQueued' = FALSE
    /\ resetKeys' = {}
    /\ owed' = {}
    /\ UNCHANGED <<pod, deploy, anno, syncs, resets, adds, subs>>

(* The controller loses its lease, panics and starts again: the informers  *)
(* begin with lists, whose pods come as Add events that nobody handles,    *)
(* and what a midnight has put into the queue is lost.                     *)
Restart ==
    /\ restarts < MaxRestarts
    /\ restarts' = restarts + 1
    /\ podSeen' = pod
    /\ notes' = <<>>
    /\ queue' = {}
    /\ worker' = [w \in Workers |-> Idle]
    /\ seen' = anno
    /\ watch' = <<>>
    /\ resetQueued' = FALSE
    /\ resetKeys' = {}
    /\ owed' = {}
    /\ UNCHANGED <<pod, deploy, anno, syncs, resets, adds, subs>>

Next ==
    \/ \E p \in Pods, s \in PodState : PodChanges(p, s) \/ ObservePod(p, s)
    \/ ObserveNode
    \/ \E d \in Deploys, m \in Metrics, r \in Ranges \cup {Expired} : DeployChanges(d, m, r)
    \/ handleUpdateEvent
    \/ \E w \in Workers :
          \/ Reconcile(w)
          \/ SkipPolicy(w)
          \/ PatchNodeAnnotation(w)
          \/ PatchFails(w)
    \/ CreateMetricResetTicker
    \/ SyncNode
    \/ \E m \in Metrics : DeleteNodeAnnotation(m)
    \/ DeleteFails
    \/ Restart

Spec == Init /\ [][Next]_vars

(* The informer and the reset worker keep running; the API server does not *)
(* refuse the removal of an annotation for ever.                           *)
Fairness ==
    /\ WF_vars(ObserveNode)
    /\ WF_vars(SyncNode)
    /\ WF_vars(DeleteFails)
    /\ \A m \in Metrics : SF_vars(DeleteNodeAnnotation(m))

FairSpec == Spec /\ Fairness

-----------------------------------------------------------------------------

(* The scheduling of a pod is counted at most once, however notifications, *)
(* the queue, failing patches and restarts of the controller interleave.   *)
AddedOnce == \A m \in Metrics, p \in Pods : adds[m][p] <= 1

(* No metric is listed twice in the policy: else its delta is written      *)
(* twice, with the same value.                                             *)
DistinctPolicies == \A i, j \in DOMAIN Policies : Policies[i] = Policies[j] => i = j

Added(m) == {p \in Pods : adds[m][p] > 0}

(* No delta claims more than all the pods that were ever added can use:    *)
(* stale reads lose updates, but never let one count twice.                *)
DeltaBounded ==
    \A m \in Metrics :
        anno[m] # Absent =>
            \A j \in DOMAIN anno[m] : anno[m][j] <= MaxUsage * Cardinality(Added(m))

(* A pod is subtracted only after it was added: what the comments          *)
(* "scheduled pod event" and "delete pods event" take DeletionTimestamp    *)
(* of the lister's pod to decide.                                          *)
SubtractedAfterAdded == \A m \in Metrics, p \in Pods : subs[m][p] <= adds[m][p]

(* What a pod adds to a node without a delta, or subtracts.                *)
OneUsage == Ranges \cup {<<>>} \cup {[j \in DOMAIN r |-> 0 - r[j]] : r \in Ranges}

(* A delta that a reset has removed begins anew, with the usage of one     *)
(* pod: a worker that read the node before the removal and patches it      *)
(* after it does not bring yesterday's delta back.                         *)
ResetStartsAnew ==
    [][\A m \in Metrics : anno[m] = Absent /\ anno'[m] # Absent => anno'[m] \in OneUsage]_vars

(* An annotation that the reset controller's lister knows at midnight, and *)
(* of which no removal is on its way to the lister, is removed in the end, *)
(* although removals fail and the lister lags, unless the controller is    *)
(* restarted before.                                                       *)
ResetCompletes == \A m \in Metrics : m \in owed ~> m \notin owed
=============================================================================
