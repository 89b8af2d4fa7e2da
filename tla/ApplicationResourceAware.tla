---------------------- MODULE ApplicationResourceAware ----------------------
(***************************************************************************)
(* The ApplicationResourceAware plugin (plugins/applicationresourceaware)  *)
(* on top of the delta annotations that the controller keeps: Filter lets  *)
(* a pod onto the node if the node's usage of the day before, the delta of *)
(* the pods placed since midnight and the usage of the pod's deployment    *)
(* stay below the limit of the policy.  The scheduler has an informer of   *)
(* its own for the node and does not wait for the controller.              *)
(*                                                                         *)
(* One predicate policy, whose application metric is Metric1.  Usages are  *)
(* in units of the resource when Capacity is 1.                            *)
(***************************************************************************)
EXTENDS DeltaUsage, Functions

CONSTANTS
    NodeStates,  \* what Filter finds of the node and the policy, as records
                 \* [range, limit, capacity]
    Metric1      \* APP_METRIC_NAME of the policy

ASSUME NodeAssumption ==
    /\ Metric1 \in Metrics
    /\ \A s \in NodeStates :
          /\ s.range \in Seq(Nat) \cup {Absent, Expired}
          /\ s.limit \in Nat
          /\ s.capacity \in Nat  \* 0 when the resource is neither cpu nor memory

VARIABLES
    node,     \* the range annotation, capacity and limit: the same all day
    view,     \* the delta annotations in the scheduler's snapshot
    pending,  \* versions of the node on their way to the scheduler
    hasty,    \* history: pods placed or deleted before the last such change
              \* had come through to the delta in the scheduler's snapshot
    failed    \* history: deltas lost to a failed patch

viewVars == <<view, pending>>
araVars == <<vars, node, viewVars, hasty, failed>>

AraTypeOK ==
    /\ TypeOK
    /\ node \in NodeStates
    /\ view \in NodeAnnotations
    /\ pending \in Seq(NodeAnnotations)
    /\ hasty \in 0..(2 * Cardinality(Pods))
    /\ failed \in 0..(2 * Cardinality(Pods))

AraInit ==
    /\ Init
    /\ node \in NodeStates
    /\ view = anno
    /\ pending = <<>>
    /\ hasty = 0
    /\ failed = 0

-----------------------------------------------------------------------------

(* Mutant: the pods placed since midnight are left out.                    *)
predictingFromYesterday(nodeUsage, deployUsage, deltaUsage) ==
    /\ node.limit # 0 /\ nodeUsage # <<>> /\ deployUsage # <<>>
    /\ \E j \in DOMAIN nodeUsage :
          nodeUsage[j] * node.capacity
              + (IF Len(deployUsage) = Len(nodeUsage) THEN deployUsage[j] ELSE 0)
                  > node.limit * node.capacity

(* predictingOverLoad: an empty range does not parse, and ranges of another *)
(* length than the node's are not looked at.  The code divides by the      *)
(* capacity; x / 0 is above every limit exactly if x > 0.                  *)
predictingOverLoad(nodeUsage, deployUsage, deltaUsage) ==
    LET added(range, j) == IF Len(range) = Len(nodeUsage) THEN range[j] ELSE 0
    IN  /\ node.limit # 0 /\ nodeUsage # <<>> /\ deployUsage # <<>>
        /\ \E j \in DOMAIN nodeUsage :
              nodeUsage[j] * node.capacity + added(deltaUsage, j) + added(deployUsage, j)
                  > node.limit * node.capacity

(* Filter: a pod without a deployment passes, and so does one for which an *)
(* annotation is expired.                                                  *)
Filter(p) ==
    ~ /\ DeployOf[p] # NoDeploy
      /\ node.range # Expired
      /\ deploy[DeployOf[p]][Metric1] # Expired
      /\ predictingOverLoad(UsageRange(node.range),
                            UsageRange(deploy[DeployOf[p]][Metric1]),
                            UsageRange(view[Metric1]))

(* Every pod placed or deleted so far has come through to the snapshot.    *)
Settled ==
    /\ podSeen = pod /\ notes = <<>> /\ queue = {} /\ Busy = {}
    /\ watch = <<>> /\ pending = <<>>

Hurry == hasty' = IF Settled THEN hasty ELSE hasty + 1

(* A scheduling cycle finds the node feasible, and the pod is bound.       *)
Schedule(p) ==
    /\ Filter(p)
    /\ PodChanges(p, "scheduled")
    /\ Hurry
    /\ UNCHANGED <<node, viewVars, failed>>

DeletePod(p) ==
    /\ PodChanges(p, "terminating")
    /\ Hurry
    /\ UNCHANGED <<node, viewVars, failed>>

RemovePod(p) ==
    /\ PodChanges(p, "gone") \/ PodChanges(p, "killed")
    /\ UNCHANGED <<node, viewVars, hasty, failed>>

(* The scheduler's informer.                                               *)
ObserveView ==
    /\ pending # <<>>
    /\ view' = Head(pending)
    /\ pending' = Tail(pending)
    /\ UNCHANGED <<vars, node, hasty, failed>>

(* The steps of the controller, with a new version for the scheduler when  *)
(* they change the node.                                                   *)
Controller ==
    /\ \/ \E p \in Pods, s \in PodState : ObservePod(p, s)
       \/ ObserveNode
       \/ handleUpdateEvent
       \/ \E w \in Workers : Reconcile(w) \/ SkipPolicy(w) \/ PatchNodeAnnotation(w)
       \/ Restart
    /\ pending' = IF anno' # anno THEN Append(pending, anno') ELSE pending
    /\ UNCHANGED <<node, view, hasty, failed>>

ControllerFails(w) ==
    /\ PatchFails(w)
    /\ failed' = failed + 1
    /\ UNCHANGED <<node, viewVars, hasty>>

AraNext ==
    \/ \E p \in Pods : Schedule(p) \/ DeletePod(p) \/ RemovePod(p)
    \/ ObserveView
    \/ Controller
    \/ \E w \in Workers : ControllerFails(w)

AraSpec == AraInit /\ [][AraNext]_araVars

-----------------------------------------------------------------------------

(* What a pod is expected to use; nobody knows it of a pod without usage.  *)
Known(p) ==
    /\ DeployOf[p] # NoDeploy
    /\ deploy[DeployOf[p]][Metric1] \notin {Absent, Expired}
UsageOf(p) == deploy[DeployOf[p]][Metric1]
Placed == {p \in Pods : pod[p] = "scheduled" /\ Known(p)}
Predicted(j) == node.range[j] * node.capacity + SumFunction([p \in Placed |-> UsageOf(p)[j]])

Comparable ==
    /\ node.range \notin {Absent, Expired} /\ node.limit # 0 /\ node.capacity # 0
    /\ \A p \in Pods : Known(p) => Len(UsageOf(p)) = Len(node.range)

(* How often a deleted pod was subtracted once more: its two changes came  *)
(* to the pod controller so late that both found a deletion timestamp.     *)
Repeated == SumFunction([p \in Pods |-> IF subs[Metric1][p] = 0 THEN 0 ELSE subs[Metric1][p] - 1])

Lapses == hasty + failed + restarts + Repeated

(* The pods that Filter has let onto the node are not expected to use more *)
(* than the limit, on top of what the node used the day before: not unless *)
(* pods came or went faster than their deltas, a patch failed, a pod was   *)
(* subtracted twice or the controller was restarted, and then by no more   *)
(* than a pod for each.                                                    *)
NotOverbooked ==
    Comparable /\ Placed # {} =>
        \A j \in DOMAIN node.range : Predicted(j) <= node.limit * node.capacity + MaxUsage * Lapses
=============================================================================
