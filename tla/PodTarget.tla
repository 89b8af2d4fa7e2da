----------------------------- MODULE PodTarget ------------------------------
(***************************************************************************)
(* What the topology plugin reads off a pod (helper.go): which containers  *)
(* are to get CPUs of their own and what they request.  A pod is a record  *)
(*   [owner, cpuPolicy, awareness, containers]                             *)
(* where a container is [cpu, limit], its CPU request and limit, and       *)
(* "absent" stands for an annotation the pod does not have.                *)
(***************************************************************************)
EXTENDS Integers, Sequences, FiniteSets

SupportedPolicy == {"none", "exclusive", "numa", "immovable"}

(* strconv.ParseBool of the annotation; a value it rejects counts as none. *)
IsPodAwareOfTopology(pod) ==
    IF pod.awareness \in {"true", "false"} THEN pod.awareness ELSE "unset"

GetPodCPUPolicy(pod) ==
    IF pod.cpuPolicy \in SupportedPolicy THEN pod.cpuPolicy ELSE ""

(* CPUs of a guaranteed container, in units of which `whole' are one CPU:  *)
(* none unless request and limit agree on a whole number of CPUs.          *)
GuaranteedCPUs(c, whole) ==
    IF c.cpu # c.limit \/ c.cpu % whole # 0 THEN 0 ELSE c.cpu \div whole

GetPodTargetContainerIndices(pod, whole) ==
    IF GetPodCPUPolicy(pod) = "none"
    THEN {}
    ELSE {i \in DOMAIN pod.containers : GuaranteedCPUs(pod.containers[i], whole) > 0}

(* The sum of the CPU requests of the containers in indices.               *)
computeContainerSpecifiedResourceRequest(pod, indices) ==
    Cardinality(UNION {{i} \X (1..pod.containers[i].cpu) : i \in indices})

(* utils.IsDaemonsetPod                                                    *)
IsDaemonsetPod(pod) == pod.owner = "DaemonSet"

TargetRequest(pod, whole) ==
    computeContainerSpecifiedResourceRequest(pod, GetPodTargetContainerIndices(pod, whole))

(* What NodeResourcesFit sums: the requests of all containers.             *)
AllRequests(pod) == computeContainerSpecifiedResourceRequest(pod, DOMAIN pod.containers)
=============================================================================
