----------------------------- MODULE NumaAssign -----------------------------
(***************************************************************************)
(* How the topology plugin splits a request over the NUMA zones of a node  *)
(* (assignTopologyResult and assignRequestForNUMANode of helper.go), one   *)
(* step per round of the loop, with memory beside CPU.  The other          *)
(* resources are treated like memory.  TopologyMatch has the CPU part of   *)
(* the outcome in closed form; NumaAssign_proofs shows that the loop       *)
(* computes it, for all inputs.                                            *)
(***************************************************************************)
EXTENDS Integers, FiniteSets, Functions

CONSTANTS
    Zones,
    WholeCPU     \* units in a whole CPU (1000 in the code)

(* As TopologyMatch assumes them.                                          *)
ZonesAndUnits == IsFiniteSet(Zones) /\ WholeCPU \in Nat \ {0}

Resources == {"cpu", "mem"}
Resource(cpu, mem) == [r \in Resources |-> IF r = "cpu" THEN cpu ELSE mem]

VARIABLES
    allocatable, requested,  \* [Zones -> Resource]: the numaNodes
    request,                 \* the pod's request as it came in
    order,                   \* the zones as sort.Slice leaves them
    i,                       \* next round of the loop
    podRequest,              \* what is left of the request
    result,                  \* [Zones -> Resource]: nw.result
    done

vars == <<allocatable, requested, request, order, i, podRequest, result, done>>

FreeCPU(z) == allocatable[z]["cpu"] - requested[z]["cpu"]
None == Resource(0, 0)

(* Results are given to containers with a whole number of CPUs (see        *)
(* PodTarget!GuaranteedCPUs), out of zones rounded to whole CPUs; a zone   *)
(* may have more in use than it is made of.                                *)
Init ==
    /\ allocatable \in [Zones -> [Resources -> Nat]]
    /\ requested \in [Zones -> {Resource(c, 0) : c \in {u \in Nat : u % WholeCPU = 0}}]
    /\ request \in [Resources -> Nat]
    /\ order \in {o \in Bijection(1..Cardinality(Zones), Zones) :
                    \A j, k \in DOMAIN o : j < k => FreeCPU(o[j]) >= FreeCPU(o[k])}
    /\ i = 1
    /\ podRequest = request
    /\ result = [z \in Zones |-> None]
    /\ done = FALSE

minimum(a, b) == IF a < b THEN a ELSE b

(* Whole CPUs only are given: allocatable.MilliCPU / 1000 * 1000.          *)
wholeFree(z) ==
    Resource(((allocatable[z]["cpu"] \div WholeCPU) * WholeCPU) - requested[z]["cpu"],
             allocatable[z]["mem"] - requested[z]["mem"])

(* assignRequestForNUMANode: what a zone gives of the request, and whether *)
(* that completes it.                                                      *)
assigned(z) == [r \in Resources |-> minimum(podRequest[r], wholeFree(z)[r])]
finished(z) == \A r \in Resources : podRequest[r] - assigned(z)[r] <= 0

(* ResourceListIgnoreZeroResources: amounts above zero; that of memory is  *)
(* built from r.MilliCPU.                                                  *)
ResourceListIgnoreZeroResources(res) ==
    Resource(IF res["cpu"] > 0 THEN res["cpu"] ELSE 0,
             IF res["mem"] > 0 THEN res["cpu"] ELSE 0)

(* One round; with nothing requested a zone gives nothing and the loop     *)
(* goes on.                                                                *)
AssignRound ==
    /\ ~done
    /\ i <= Cardinality(Zones)
    /\ LET z == order[i]
       IN  IF podRequest = None
           THEN UNCHANGED <<podRequest, result, done>>
           ELSE /\ podRequest' = [r \in Resources |-> podRequest[r] - assigned(z)[r]]
                /\ result' = [result EXCEPT ![z] = ResourceListIgnoreZeroResources(assigned(z))]
                /\ done' = finished(z)
    /\ i' = i + 1
    /\ UNCHANGED <<allocatable, requested, request, order>>

Return ==
    /\ ~done
    /\ i > Cardinality(Zones)
    /\ done' = TRUE
    /\ UNCHANGED <<allocatable, requested, request, order, i, podRequest, result>>

Next == AssignRound \/ Return

Spec == Init /\ [][Next]_vars

-----------------------------------------------------------------------------

Positive(x) == IF x > 0 THEN x ELSE 0
CPUBefore(z) ==
    SumFunction([y \in {x \in Zones : \E j, k \in DOMAIN order : j < k /\ order[j] = x /\ order[k] = z}
                    |-> Positive(wholeFree(y)["cpu"])])

(* The loop, which subtracts from the request as it goes, breaks out early *)
(* and may meet zones that are already overcommitted, computes what        *)
(* TopologyMatch!Spread says: a zone gives its whole free CPUs to what the *)
(* zones with more free CPU left of the request.                           *)
LoopComputesSpread ==
    done => \A z \in Zones :
        result[z]["cpu"] = Positive(minimum(request["cpu"] - CPUBefore(z), wholeFree(z)["cpu"]))

(* When the whole CPUs suffice, the loop ends with a result for all of the *)
(* CPU request, in no zone more than is free there, even if memory is not  *)
(* enough and the loop goes on after the CPU request is met.               *)
RequestMet ==
    (done /\ SumFunction([z \in Zones |-> Positive(wholeFree(z)["cpu"])]) >= request["cpu"])
        => /\ SumFunction([z \in Zones |-> result[z]["cpu"]]) = request["cpu"]
           /\ \A z \in Zones : result[z]["cpu"] > 0 => result[z]["cpu"] <= FreeCPU(z)
=============================================================================
