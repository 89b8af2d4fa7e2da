--------------------------- MODULE TopologyMatch ----------------------------
(***************************************************************************)
(* The NodeResourceTopologyMatch plugin (pkg/plugins/noderesourcetopology) *)
(* inside the scheduling framework.  One scheduling cycle runs at a time   *)
(* (PreFilter, Filter on every node, Reserve); the binding cycles it       *)
(* starts (PreBind, Bind or Unreserve) run in goroutines beside the next   *)
(* cycles, and so do the informer and the expiry loop of the plugin's      *)
(* assumed-pod cache.                                                      *)
(*                                                                         *)
(* CPU is the only topology-aware resource (the default arguments).  A     *)
(* ZoneList gives the CPU a pod takes in each NUMA zone; Empty is the list *)
(* of length 0, and so also an annotation or cache entry that is absent.   *)
(***************************************************************************)
EXTENDS Integers, FiniteSets

CONSTANTS
    Pods, Nodes, Zones,
    NoPod, NoNode,
    Request,      \* Request[p]: CPU of the target containers, 0 when there are none
    TotalCPU,     \* TotalCPU[p]: CPU of all containers, what NodeResourcesFit sums
    DaemonSet,    \* the pods for which IsDaemonsetPod holds
    PodAware,     \* the awareness annotation: "true", "false", or "unset"
    HasNRT,       \* nodes with a NodeResourceTopology object
    Static,       \* nodes whose CPU manager policy is static
    SingleNUMA,   \* nodes whose topology manager policy is single NUMA node
    Alloc,        \* Alloc[n][z]: allocatable CPU of a zone
    NodeAlloc,    \* NodeAlloc[n]: allocatable CPU of the node
    WholeCPU,     \* units of CPU in a whole one (1000 in the code)
    TTL,          \* life of a cache entry (30 minutes in New)
    MaxBindDelay  \* longest time from Reserve to the informer's bound pod

ASSUME SetsAssumption ==
    /\ IsFiniteSet(Pods) /\ NoPod \notin Pods
    /\ IsFiniteSet(Zones) /\ NoNode \notin Nodes /\ Static \subseteq Nodes
ASSUME CPUAssumption ==
    /\ Request \in [Pods -> Nat]
    /\ Alloc \in [Nodes -> [Zones -> Nat]]
    /\ WholeCPU \in Nat \ {0}
ASSUME TTLAssumption ==
    TTL \in Nat /\ MaxBindDelay \in Nat /\ MaxBindDelay <= TTL

VARIABLES
    \* the API server
    api,             \* [Pods -> [node, anno]]: spec.nodeName and the result annotation
    deleted,         \* pods whose object is gone
    \* the framework
    phase,           \* where each pod is on its way through the scheduler
    assumed,         \* [Pods -> [node, anno]]: the scheduler cache, assumed pods included
    \* the scheduling cycle
    cur,             \* the pod being scheduled
    curAnno,         \* the result annotation of the framework's copy of that pod
    snap,            \* the scheduler cache as it was when the cycle began
    filtered, fits,  \* nodes Filter ran on, and those that passed every filter
    byNode,          \* stateData.podTopologyByNode, a map from nodes to results
    \* the plugin
    topologyResult,  \* stateData.topologyResult of each pod's binding cycle
    podTopology,     \* cache.podTopology
    age,             \* time since the entry was made; its deadline passes after TTL
    \* history
    leftover         \* nodes on which a pod was assumed with another result's annotation

apiVars   == <<api, deleted>>
cycleVars == <<cur, curAnno, snap, filtered, fits, byNode>>
cacheVars == <<podTopology, age>>
vars == <<apiVars, phase, assumed, cycleVars, topologyResult, cacheVars, leftover>>

ZoneList == [Zones -> Nat]
Empty == [z \in Zones |-> 0]
Placement == [node : Nodes \cup {NoNode}, anno : ZoneList]
Unplaced == [node |-> NoNode, anno |-> Empty]
NoResults == [n \in {} |-> Empty]
Phase == {"pending", "reserved", "patched", "bound", "gone"}
InFlight == {"reserved", "patched"}

TypeOK ==
    /\ api \in [Pods -> Placement]
    /\ deleted \subseteq Pods
    /\ phase \in [Pods -> Phase]
    /\ assumed \in [Pods -> Placement]
    /\ cur \in Pods \cup {NoPod}
    /\ curAnno \in ZoneList
    /\ snap \in [Pods -> Placement]
    /\ filtered \subseteq Nodes
    /\ fits \subseteq filtered
    /\ DOMAIN byNode \subseteq Nodes
    /\ \A n \in DOMAIN byNode : byNode[n] \in ZoneList
    /\ topologyResult \in [Pods -> ZoneList]
    /\ podTopology \in [Pods -> ZoneList]
    /\ age \in [Pods -> 0..(TTL + 1)]
    /\ leftover \subseteq Nodes

Init ==
    /\ api = [p \in Pods |-> Unplaced]
    /\ deleted = {}
    /\ phase = [p \in Pods |-> "pending"]
    /\ assumed = [p \in Pods |-> Unplaced]
    /\ cur = NoPod
    /\ curAnno = Empty
    /\ snap = [p \in Pods |-> Unplaced]
    /\ filtered = {}
    /\ fits = {}
    /\ byNode = NoResults
    /\ topologyResult = [p \in Pods |-> Empty]
    /\ podTopology = [p \in Pods |-> Empty]
    /\ age = [p \in Pods |-> 0]
    /\ leftover = {}

-----------------------------------------------------------------------------
(* Sums are numbers of CPU units: x[e] units of an element e are the pairs *)
(* <<e, 1>> .. <<e, x[e]>>, and none when x[e] is negative.                *)
Units(S, x) == UNION {{e} \X (1..x[e]) : e \in S}
Total(S, x) == Cardinality(Units(S, x))

(* Mutant: the assumed cache is not asked.                                 *)
addPodAnnotated(view, p) == view[p].anno

(* addPod: the annotation if it has a result, else the assumed cache.      *)
addPod(view, p) == IF view[p].anno # Empty THEN view[p].anno ELSE podTopology[p]

(* initializeNodeWrapper: CPU requested in a zone by the pods of NodeInfo. *)
SnapPods(n) == {p \in Pods : snap[p].node = n}
Requested(n, z) == Total(SnapPods(n), [p \in Pods |-> addPod(snap, p)[z]])
Free(n, z) == Alloc[n][z] - Requested(n, z)

(* Filter passes over daemon pods and pods without target containers.      *)
IsTarget(p) == Request[p] > 0 /\ p \notin DaemonSet

(* The awareness of the pod overrides that of the node.                    *)
Aware(p, n) == IF PodAware[p] = "unset" THEN n \in SingleNUMA ELSE PodAware[p] = "true"

(* filterNUMANodeResource: the zones that hold the whole request.          *)
fitsRequestForNUMANode(p, n, z) == Request[p] <= Free(n, z)
FittingZones(p, n) == {z \in Zones : fitsRequestForNUMANode(p, n, z)}

(* assignTopologyResult of an aware pod: the whole request in the first of *)
(* the fitting zones.  Zones are sorted by free CPU, most free first, and  *)
(* sort.Slice is not stable: equal zones come in any order.                *)
FirstZones(p, n) ==
    {z \in FittingZones(p, n) : \A y \in FittingZones(p, n) : Free(n, z) >= Free(n, y)}

Ranks(n) ==
    {rank \in [Zones -> 1..Cardinality(Zones)] :
        \A y, z \in Zones : y # z =>
            rank[y] # rank[z] /\ (Free(n, y) > Free(n, z) => rank[y] < rank[z])}

(* The loop of assignTopologyResult for the other pods: each zone in turn  *)
(* gives its whole free CPUs to what the zones before it left of the       *)
(* request.  (NumaAssign has the loop itself.)                             *)
WholeFree(n, z) == ((Alloc[n][z] \div WholeCPU) * WholeCPU) - Requested(n, z)

(* Mutant: an overcommitted zone gives a negative amount.                  *)
AssignedSigned(left, free) == IF left < free THEN left ELSE free

Assigned(left, free) ==
    LET assigned == IF left < free THEN left ELSE free
    IN  IF assigned > 0 THEN assigned ELSE 0

(* Mutant: what a zone gives is not subtracted from the request.           *)
SpreadUnsubtracted(p, n, rank) ==
    [z \in Zones |-> Assigned(Request[p], WholeFree(n, z))]

Spread(p, n, rank) ==
    [z \in Zones |->
        LET before == {y \in Zones : rank[y] < rank[z]}
            left == Request[p] - Total(before, [y \in Zones |-> WholeFree(n, y)])
        IN  Assigned(left, WholeFree(n, z))]

assignTopologyResult(p, n) ==
    IF Aware(p, n)
    THEN {[Empty EXCEPT ![z] = Request[p]] : z \in FirstZones(p, n)}
    ELSE {Spread(p, n, rank) : rank \in Ranks(n)}

(* The NodeResourcesFit plugin, which filters the same nodes.              *)
NodeResourcesFit(p, n) ==
    Total(SnapPods(n), TotalCPU) + TotalCPU[p] <= NodeAlloc[n]

-----------------------------------------------------------------------------
(* The scheduling cycle.                                                   *)

EndCycle ==
    /\ cur' = NoPod
    /\ curAnno' = Empty
    /\ snap' = [p \in Pods |-> Unplaced]
    /\ filtered' = {}
    /\ fits' = {}
    /\ byNode' = NoResults

(* The framework pops a pod, whose copy may be older than the annotation   *)
(* that an earlier attempt left in the API server, and takes the snapshot. *)
(* (Of several attempts it may have an annotation in between: like the     *)
(* last one it is another result's, which `leftover' notes.)               *)
PreFilter(p) ==
    /\ cur = NoPod
    /\ phase[p] = "pending"
    /\ p \notin deleted
    /\ cur' = p
    /\ curAnno' \in {Empty, api[p].anno}
    /\ snap' = assumed
    /\ UNCHANGED <<apiVars, phase, assumed, filtered, fits, byNode, topologyResult, cacheVars, leftover>>

(* Filter on one node, with the verdict of NodeResourcesFit beside it.     *)
Filter(n) ==
    /\ cur # NoPod
    /\ n \notin filtered
    /\ filtered' = filtered \cup {n}
    /\ \/ /\ ~NodeResourcesFit(cur, n)
          /\ UNCHANGED <<fits, byNode>>
       \/ /\ NodeResourcesFit(cur, n)
          /\ ~IsTarget(cur)
          /\ fits' = fits \cup {n}
          /\ UNCHANGED byNode
       \/ /\ NodeResourcesFit(cur, n)
          /\ IsTarget(cur)
          /\ n \in HasNRT \ Static
          /\ fits' = fits \cup {n}
          /\ UNCHANGED byNode
       \/ /\ NodeResourcesFit(cur, n)
          /\ IsTarget(cur)
          /\ \/ n \notin HasNRT
             \/ n \in Static /\ Aware(cur, n) /\ FittingZones(cur, n) = {}
          /\ UNCHANGED <<fits, byNode>>
       \/ /\ NodeResourcesFit(cur, n)
          /\ IsTarget(cur)
          /\ n \in HasNRT \cap Static
          /\ Aware(cur, n) => FittingZones(cur, n) # {}
          /\ \E result \in assignTopologyResult(cur, n) :
                byNode' = [m \in DOMAIN byNode \cup {n} |-> IF m = n THEN result ELSE byNode[m]]
          /\ fits' = fits \cup {n}
    /\ UNCHANGED <<apiVars, phase, assumed, cur, curAnno, snap, topologyResult, cacheVars, leftover>>

FitError ==
    /\ cur # NoPod
    /\ filtered = Nodes
    /\ fits = {}
    /\ EndCycle
    /\ UNCHANGED <<apiVars, phase, assumed, topologyResult, cacheVars, leftover>>

(* Reserve without a result for the node: the framework assumes the pod.   *)
ReserveNothing(n) ==
    /\ n \notin DOMAIN byNode
    /\ phase' = [phase EXCEPT ![cur] = "reserved"]
    /\ assumed' = [assumed EXCEPT ![cur] = [node |-> n, anno |-> curAnno]]
    /\ UNCHANGED <<topologyResult, cacheVars, leftover>>

(* Reserve fails on an empty result or when AssumePod finds an entry of    *)
(* the pod; the framework then calls Unreserve, which forgets the pod.     *)
ReserveError(n) ==
    /\ n \in DOMAIN byNode
    /\ byNode[n] = Empty \/ podTopology[cur] # Empty
    /\ podTopology' = [podTopology EXCEPT ![cur] = Empty]
    /\ age' = [age EXCEPT ![cur] = 0]
    /\ UNCHANGED <<phase, assumed, topologyResult, leftover>>

AssumePod(n) ==
    /\ n \in DOMAIN byNode
    /\ byNode[n] # Empty /\ podTopology[cur] = Empty
    /\ topologyResult' = [topologyResult EXCEPT ![cur] = byNode[n]]
    /\ podTopology' = [podTopology EXCEPT ![cur] = byNode[n]]
    /\ age' = [age EXCEPT ![cur] = 0]
    /\ phase' = [phase EXCEPT ![cur] = "reserved"]
    /\ assumed' = [assumed EXCEPT ![cur] = [node |-> n, anno |-> curAnno]]
    /\ leftover' = IF curAnno \in {Empty, byNode[n]} THEN leftover ELSE leftover \cup {n}

(* Score divides by the length of every result; the scheduler panics on an *)
(* empty one (and restarts).  A node that is alone is not scored.          *)
Score == fits \in {{n} : n \in Nodes} \/ \A n \in fits \cap DOMAIN byNode : byNode[n] # Empty

(* The framework reserves any node that passed: scores choose among them,  *)
(* and it may stop filtering before it has seen every node.                *)
Reserve(n) ==
    /\ cur # NoPod
    /\ n \in fits
    /\ Score
    /\ ReserveNothing(n) \/ ReserveError(n) \/ AssumePod(n)
    /\ EndCycle
    /\ UNCHANGED apiVars

-----------------------------------------------------------------------------
(* The binding cycles.                                                     *)

(* Mutant: an error of the patch is ignored.                               *)
PreBindIgnoringError(p) ==
    /\ phase[p] = "reserved"
    /\ UNCHANGED api
    /\ phase' = [phase EXCEPT ![p] = "patched"]
    /\ UNCHANGED <<deleted, assumed, cycleVars, topologyResult, cacheVars, leftover>>

(* The result is written into the pod's annotations, if there is one.      *)
PreBind(p) ==
    /\ phase[p] = "reserved"
    /\ \/ /\ topologyResult[p] = Empty
          /\ UNCHANGED api
       \/ /\ topologyResult[p] # Empty
          /\ p \notin deleted
          /\ api' = [api EXCEPT ![p].anno = topologyResult[p]]
    /\ phase' = [phase EXCEPT ![p] = "patched"]
    /\ UNCHANGED <<deleted, assumed, cycleVars, topologyResult, cacheVars, leftover>>

Bind(p) ==
    /\ phase[p] = "patched"
    /\ p \notin deleted
    /\ api' = [api EXCEPT ![p].node = assumed[p].node]
    /\ phase' = [phase EXCEPT ![p] = "bound"]
    /\ topologyResult' = [topologyResult EXCEPT ![p] = Empty]
    /\ UNCHANGED <<deleted, assumed, cycleVars, cacheVars, leftover>>

(* Mutant: Unreserve does not forget the pod.                              *)
UnreserveKeeping(p) ==
    /\ phase' = [phase EXCEPT ![p] = IF p \in deleted THEN "gone" ELSE "pending"]
    /\ assumed' = [assumed EXCEPT ![p] = Unplaced]
    /\ topologyResult' = [topologyResult EXCEPT ![p] = Empty]
    /\ UNCHANGED <<deleted, cycleVars, cacheVars, leftover>>

(* A step of the binding cycle fails: Unreserve forgets the cache entry    *)
(* (there is one to forget only when Reserve had a result), the framework  *)
(* forgets the assumed pod and puts the pod back into its queue.           *)
Unreserve(p) ==
    /\ phase' = [phase EXCEPT ![p] = IF p \in deleted THEN "gone" ELSE "pending"]
    /\ assumed' = [assumed EXCEPT ![p] = Unplaced]
    /\ podTopology' = [podTopology EXCEPT ![p] = IF topologyResult[p] # Empty THEN Empty ELSE @]
    /\ age' = [age EXCEPT ![p] = IF topologyResult[p] # Empty THEN 0 ELSE @]
    /\ topologyResult' = [topologyResult EXCEPT ![p] = Empty]
    /\ UNCHANGED <<deleted, cycleVars, leftover>>

BindingFails(p) ==
    /\ phase[p] \in InFlight
    /\ Unreserve(p)
    /\ UNCHANGED api

(* The patch of PreBind is applied but its answer is an error: a timeout.  *)
PreBindReplyLost(p) ==
    /\ phase[p] = "reserved"
    /\ topologyResult[p] # Empty
    /\ p \notin deleted
    /\ Unreserve(p)
    /\ api' = [api EXCEPT ![p].anno = topologyResult[p]]

-----------------------------------------------------------------------------
(* The informer, the users, time, and a restart of the scheduler.          *)

(* The informer replaces the assumed pod by the bound pod.                 *)
ObserveBound(p) ==
    /\ phase[p] = "bound"
    /\ assumed[p] # api[p]
    /\ assumed' = [assumed EXCEPT ![p] = api[p]]
    /\ UNCHANGED <<apiVars, phase, cycleVars, topologyResult, cacheVars, leftover>>

ObserveDeleted(p) ==
    /\ phase[p] = "gone"
    /\ assumed[p] # Unplaced
    /\ assumed' = [assumed EXCEPT ![p] = Unplaced]
    /\ UNCHANGED <<apiVars, phase, cycleVars, topologyResult, cacheVars, leftover>>

(* A pod is deleted, before, while or after it is scheduled.  A binding    *)
(* cycle under way finds out by its next call.                             *)
Delete(p) ==
    /\ p \notin deleted
    /\ deleted' = deleted \cup {p}
    /\ phase' = [phase EXCEPT ![p] =
                    IF @ = "bound" \/ (@ = "pending" /\ cur # p) THEN "gone" ELSE @]
    /\ UNCHANGED <<api, assumed, cycleVars, topologyResult, cacheVars, leftover>>

(* Mutant: removePod deletes the deadline only.                            *)
cleanupDeadlines ==
    /\ \E p \in Pods : podTopology[p] # Empty /\ age[p] > TTL
    /\ age' = [p \in Pods |-> IF age[p] > TTL THEN 0 ELSE age[p]]
    /\ UNCHANGED <<apiVars, phase, assumed, cycleVars, topologyResult, podTopology, leftover>>

cleanupAssumedPods ==
    /\ \E p \in Pods : podTopology[p] # Empty /\ age[p] > TTL
    /\ podTopology' = [p \in Pods |-> IF age[p] > TTL THEN Empty ELSE podTopology[p]]
    /\ age' = [p \in Pods |-> IF age[p] > TTL THEN 0 ELSE age[p]]
    /\ UNCHANGED <<apiVars, phase, assumed, cycleVars, topologyResult, leftover>>

Held(p) == phase[p] \in {"reserved", "patched", "bound"}

(* A running scheduler knows of the CPU of this pod by the cache only.     *)
CacheNeeded(p) ==
    /\ Held(p)
    /\ \/ assumed[p].node # NoNode /\ assumed[p].anno = Empty
       \/ cur # NoPod /\ snap[p].node # NoNode /\ snap[p].anno = Empty

(* Time passes.  That a pod is bound, and the bound pod observed, within   *)
(* MaxBindDelay is what choosing 30 minutes for the TTL relies on.         *)
Tick ==
    /\ \A p \in Pods : podTopology[p] # Empty /\ CacheNeeded(p) => age[p] < MaxBindDelay
    /\ age' = [p \in Pods |-> IF podTopology[p] # Empty /\ age[p] <= TTL THEN age[p] + 1 ELSE age[p]]
    /\ UNCHANGED <<apiVars, phase, assumed, cycleVars, topologyResult, podTopology, leftover>>

(* The scheduler restarts: memory is lost, and its cache is built from the *)
(* bound pods of the API server.                                           *)
Restart ==
    /\ phase' = [p \in Pods |->
                    IF phase[p] \in InFlight \cup {"pending"}
                    THEN IF p \in deleted THEN "gone" ELSE "pending"
                    ELSE phase[p]]
    /\ assumed' = [p \in Pods |-> IF phase[p] = "bound" THEN api[p] ELSE Unplaced]
    /\ EndCycle
    /\ topologyResult' = [p \in Pods |-> Empty]
    /\ podTopology' = [p \in Pods |-> Empty]
    /\ age' = [p \in Pods |-> 0]
    /\ UNCHANGED <<apiVars, leftover>>

Next ==
    \/ \E p \in Pods : PreFilter(p)
    \/ \E n \in Nodes : Filter(n)
    \/ FitError
    \/ \E n \in Nodes : Reserve(n)
    \/ \E p \in Pods : PreBind(p)
    \/ \E p \in Pods : Bind(p)
    \/ \E p \in Pods : BindingFails(p)
    \/ \E p \in Pods : PreBindReplyLost(p)
    \/ \E p \in Pods : ObserveBound(p)
    \/ \E p \in Pods : ObserveDeleted(p)
    \/ \E p \in Pods : Delete(p)
    \/ cleanupAssumedPods
    \/ Tick
    \/ Restart

Spec == Init /\ [][Next]_vars

(* Binding cycles are goroutines that run to their end, the informer and   *)
(* the cleanup loop keep running, and the clock keeps going.               *)
Fairness ==
    /\ \A p \in Pods : WF_vars(Bind(p) \/ PreBind(p) \/ BindingFails(p))
    /\ \A p \in Pods : WF_vars(ObserveBound(p))
    /\ \A n \in Nodes : WF_vars(Filter(n))
    /\ WF_vars(FitError \/ \E n \in Nodes : Reserve(n))
    /\ WF_vars(cleanupAssumedPods)
    /\ WF_vars(Tick)

FairSpec == Spec /\ Fairness

-----------------------------------------------------------------------------

(* What a pod holds: until it is bound the result its binding cycle will   *)
(* write, then what its annotation says.                                   *)
Grant(p) == IF phase[p] = "bound" THEN api[p].anno ELSE topologyResult[p]
HeldPods(n) == {p \in Pods : Held(p) /\ assumed[p].node = n}
Used(n, z) == Total(HeldPods(n), [p \in Pods |-> Grant(p)[z]])

(* No zone of a static node is promised to more than it has: not to bound  *)
(* pods and not to pods still in flight, whatever the order of cycles,     *)
(* binding failures, informer events, cache expiry and restarts.  Nodes    *)
(* where a pod was assumed under the annotation of an earlier attempt are  *)
(* left out: ZoneNeverOvercommitted says what happens there.               *)
NoOvercommit ==
    \A n \in Static \ leftover, z \in Zones : Used(n, z) <= Alloc[n][z]

(* The same, of every static node: "If result not found, we check the      *)
(* assumed cache because pod may not be bound" takes a result that is      *)
(* found to be the one of the present attempt.                             *)
ZoneNeverOvercommitted ==
    \A n \in Static, z \in Zones : Used(n, z) <= Alloc[n][z]

(* The plugin implements CPUReservation: through all the copies of it in   *)
(* cycle states, cache and annotations a grant is made out of free CPUs,   *)
(* moves from Reserve to the bound pod unchanged, and is given back whole. *)
Granted ==
    [p \in Pods |-> [n \in Nodes |->
        IF Held(p) /\ assumed[p].node = n /\ n \in Static \ leftover THEN Grant(p) ELSE Empty]]
Reservation == INSTANCE CPUReservation WITH granted <- Granted
ImplementsReservation == Reservation!Spec

(* AssumePod never meets an entry of the pod it adds: every way back to    *)
(* the queue passes through ForgetPod or loses the whole cache.            *)
PendingNotCached == \A p \in Pods : phase[p] = "pending" => podTopology[p] = Empty

(* Whatever becomes of a result, Reserve finds one: of a length of 0 it    *)
(* says "Should never happen".                                             *)
ResultNeverEmpty ==
    \A n \in fits \cap DOMAIN byNode : byNode[n] # Empty

(* A target pod bound to a static node has a result annotation, for no     *)
(* more than its request, and for all of it in one zone when it is aware   *)
(* of the topology: although zones may have fractions of a CPU, which      *)
(* assignTopologyResult alone leaves out, and whatever annotations earlier *)
(* attempts left behind.                                                   *)
WithinRequest(p, n, list) ==
    /\ list # Empty
    /\ Total(Zones, list) <= Request[p]
    /\ Aware(p, n) => \E z \in Zones : list[z] = Request[p]

BoundWithinRequest ==
    \A p \in Pods :
        (phase[p] = "bound" /\ IsTarget(p) /\ api[p].node \in Static)
            => WithinRequest(p, api[p].node, api[p].anno)

(* The zones of static nodes are made of whole CPUs (others are rounded    *)
(* down by assignTopologyResult alone) and hold what the node has; a pod's *)
(* target containers are some of its containers.                           *)
WholeZones ==
    /\ \A n \in Static, z \in Zones : (Alloc[n][z] \div WholeCPU) * WholeCPU = Alloc[n][z]
    /\ \A n \in Static : NodeAlloc[n] \in Int /\ NodeAlloc[n] <= Total(Zones, Alloc[n])
    /\ \A p \in Pods : TotalCPU[p] \in Nat /\ Request[p] <= TotalCPU[p]

(* If static nodes have zones of whole CPUs (WholeZones), a target pod     *)
(* bound to one has its whole request in its annotation, in one zone when  *)
(* it is aware of the topology, even when attempts before it left other    *)
(* annotations behind.  With fractions of a CPU in its zones a node may    *)
(* pass Filter for a pod that is then bound with a part of its request.    *)
BoundAsRequested ==
    \A p \in Pods :
        (phase[p] = "bound" /\ IsTarget(p) /\ api[p].node \in Static)
            => /\ Total(Zones, api[p].anno) = Request[p]
               /\ Aware(p, api[p].node) => \E z \in Zones : api[p].anno[z] = Request[p]

(* Every entry of the cache is removed in the end.                         *)
CacheDrains == \A p \in Pods : podTopology[p] # Empty ~> podTopology[p] = Empty

-----------------------------------------------------------------------------
(* The inductive invariant from which NoOvercommit follows.                *)

(* What the plugin has noted agrees with how far each pod has come.        *)
Bookkeeping ==
    /\ cur # NoPod => phase[cur] = "pending" /\ curAnno \in {Empty, api[cur].anno}
    /\ \A p \in Pods :
        /\ phase[p] \notin InFlight => topologyResult[p] = Empty
        /\ topologyResult[p] = Empty /\ phase[p] \in InFlight \cup {"pending"} => podTopology[p] = Empty
        /\ topologyResult[p] # Empty \/ api[p].anno # Empty => IsTarget(p)
        /\ phase[p] = "patched" /\ topologyResult[p] # Empty => api[p].anno = topologyResult[p]
        /\ phase[p] = "bound" => api[p].node = assumed[p].node
        /\ assumed[p].anno # Empty => api[p].anno # Empty
        /\ phase[p] \in InFlight /\ topologyResult[p] = Empty /\ IsTarget(p)
              => assumed[p].node \notin Static
    /\ cur = NoPod => fits = {} /\ DOMAIN byNode = {}
    /\ cur # NoPod =>
        /\ \A n \in fits \cap Static : IsTarget(cur) => n \in DOMAIN byNode
        /\ DOMAIN byNode # {} => IsTarget(cur)

(* Whoever asks for what a pod holds on a node, by the scheduler's cache   *)
(* or by the snapshot of the cycle under way, is told its grant.           *)
Visible ==
    \A p \in Pods :
        Held(p) /\ assumed[p].node \in Static \ leftover =>
            /\ addPod(assumed, p) = Grant(p)
            /\ cur # NoPod => snap[p].node = assumed[p].node /\ addPod(snap, p) = Grant(p)

(* No entry that is still needed is near its deadline.                     *)
Fresh ==
    \A p \in Pods : podTopology[p] # Empty /\ CacheNeeded(p) => age[p] <= MaxBindDelay

(* A result noted by Filter still fits when the node is reserved.          *)
Room ==
    cur # NoPod =>
        \A n \in DOMAIN byNode \cap (Static \ leftover), z \in Zones :
            Used(n, z) + byNode[n][z] <= Alloc[n][z]

IndInv == TypeOK /\ Bookkeeping /\ Visible /\ Fresh /\ Room /\ NoOvercommit

(* What BoundAsRequested needs besides under WholeZones: no copy of a      *)
(* result is larger than the request, so that the pods of a node leave its *)
(* zones what they leave the node; results are complete from Filter on.    *)
AsRequested(p, n, list) ==
    /\ Total(Zones, list) = Request[p]
    /\ Aware(p, n) => \E z \in Zones : list[z] = Request[p]

NoneAbove ==
    \A p \in Pods : \A list \in {api[p].anno, assumed[p].anno, snap[p].anno, podTopology[p]} :
        Total(Zones, list) <= Request[p]

(* What BoundWithinRequest needs besides, whatever the zones: a result is  *)
(* within its pod's request from Filter on, unless it is empty, and then   *)
(* Reserve refuses it.                                                     *)
Within ==
    /\ \A n \in DOMAIN byNode : byNode[n] # Empty => WithinRequest(cur, n, byNode[n])
    /\ \A p \in Pods : topologyResult[p] # Empty => WithinRequest(p, assumed[p].node, topologyResult[p])
    /\ BoundWithinRequest

Complete ==
    /\ NoneAbove
    /\ \A n \in DOMAIN byNode : AsRequested(cur, n, byNode[n])
    /\ \A p \in Pods : topologyResult[p] # Empty => AsRequested(p, assumed[p].node, topologyResult[p])
    /\ BoundAsRequested
=============================================================================
