-------------------------- MODULE MC_TopologyMatch --------------------------
(* Instances of TopologyMatch: what the framework and the plugin know of a *)
(* pod is computed from its containers and annotations by PodTarget.       *)
EXTENDS TopologyMatch, PodTarget, TLC

CONSTANTS p1, p2, p3, n1, n2, n3, n4, z1, z2

Container(cpu) == [cpu |-> cpu, limit |-> cpu]
Pod(awareness, cpus) ==
    [owner |-> "ReplicaSet", cpuPolicy |-> "absent", awareness |-> awareness,
     containers |-> cpus]

Requests(spec) == [p \in Pods |-> TargetRequest(spec[p], WholeCPU)]
Totals(spec) == [p \in Pods |-> AllRequests(spec[p])]
Daemons(spec) == {p \in Pods : IsDaemonsetPod(spec[p])}
Awareness(spec) == [p \in Pods |-> IsPodAwareOfTopology(spec[p])]

(* One node with two equal zones of three and a half CPUs, in halves.  Two *)
(* aware pods take two CPUs of a zone each; the third, whose sidecar       *)
(* shares CPUs, is spread over both zones.  When it comes last the node    *)
(* has three CPUs left for it and the zones two whole ones; when it comes  *)
(* first it keeps an aware pod out.                                        *)
OneNodePods ==
    p1 :> Pod("true", <<Container(4)>>) @@
    p2 :> Pod("true", <<Container(4)>>) @@
    p3 :> Pod("bogus", <<Container(6), [cpu |-> 0, limit |-> 1]>>)
OneNodeRequest == Requests(OneNodePods)
OneNodeTotal == Totals(OneNodePods)
OneNodeDaemons == Daemons(OneNodePods)
OneNodeAware == Awareness(OneNodePods)
OneNodeAlloc == n1 :> (z1 :> 7 @@ z2 :> 7)
OneNodeTotalAlloc == n1 :> 14

(* Zones like those of the plugin's tests (2.5 and 3.9 CPUs, here 2.5 and  *)
(* 3.5): the aware pods take 2 and 3 CPUs, which leaves a CPU in halves.   *)
FractionPods ==
    p1 :> Pod("true", <<Container(4)>>) @@
    p2 :> Pod("true", <<Container(6)>>) @@
    p3 :> Pod("false", <<Container(2)>>)
FractionRequest == Requests(FractionPods)
FractionTotal == Totals(FractionPods)
FractionDaemons == Daemons(FractionPods)
FractionAware == Awareness(FractionPods)
FractionAlloc == n1 :> (z1 :> 5 @@ z2 :> 7)
FractionTotalAlloc == n1 :> 12
ZoneSymmetry == Permutations({z1, z2})
OneNodeSymmetry == Permutations({p1, p2}) \cup Permutations({z1, z2})

(* A static node with the single-NUMA policy, one without it, a node whose *)
(* CPU manager is not static and one without a NodeResourceTopology; a pod *)
(* that leaves the awareness to the node and one of a daemon set.          *)
MixedPods ==
    p1 :> Pod("absent", <<Container(1), Container(1)>>) @@
    p2 :> [Pod("absent", <<Container(1)>>) EXCEPT !.owner = "DaemonSet"]
MixedRequest == Requests(MixedPods)
MixedTotal == Totals(MixedPods)
MixedDaemons == Daemons(MixedPods)
MixedAware == Awareness(MixedPods)
MixedAlloc ==
    n1 :> (z1 :> 2 @@ z2 :> 1) @@ n2 :> (z1 :> 1 @@ z2 :> 1) @@
    n3 :> (z1 :> 0 @@ z2 :> 0) @@ n4 :> (z1 :> 0 @@ z2 :> 0)
MixedTotalAlloc == n1 :> 3 @@ n2 :> 2 @@ n3 :> 2 @@ n4 :> 2
=============================================================================
