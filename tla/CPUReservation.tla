--------------------------- MODULE CPUReservation ---------------------------
(***************************************************************************)
(* What the topology plugin promises about the CPUs of NUMA zones, with    *)
(* neither cycles nor caches nor annotations: a pod is granted CPUs of the *)
(* zones of one node, out of what is free there; the grant stays as it is  *)
(* until it is given back.  Many pods may lose theirs at once, as when the *)
(* scheduler restarts.                                                     *)
(***************************************************************************)
EXTENDS Integers, FiniteSets

CONSTANTS Pods, Nodes, Zones, Alloc

VARIABLE granted  \* granted[p][n][z]: CPU that a pod holds in a zone

NoCPU == [z \in Zones |-> 0]
NoGrant == [n \in Nodes |-> NoCPU]

Taken(n, z) == Cardinality(UNION {{p} \X (1..granted[p][n][z]) : p \in Pods})

(* The ways to take CPUs of a node.                                        *)
Fitting(n) ==
    {g \in [Zones -> UNION {0..Alloc[n][z] : z \in Zones}] :
        \A z \in Zones : Taken(n, z) + g[z] <= Alloc[n][z]}

Init == granted = [p \in Pods |-> NoGrant]

Reserve(p) ==
    /\ granted[p] = NoGrant
    /\ \E n \in Nodes : \E g \in Fitting(n) :
          granted' = [granted EXCEPT ![p][n] = g]

Release(S) == granted' = [p \in Pods |-> IF p \in S THEN NoGrant ELSE granted[p]]

Next ==
    \/ \E S \in SUBSET Pods : Release(S)
    \/ \E p \in Pods : Reserve(p)

Spec == Init /\ [][Next]_granted
=============================================================================
