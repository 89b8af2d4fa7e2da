------------------------ MODULE TopologyMatch_proofs ------------------------
(***************************************************************************)
(* Proofs about TopologyMatch, for any pods, nodes, zones and amounts of   *)
(* CPU: the type invariant, that no zone is overcommitted, that a bound    *)
(* pod has a result within its request, and when zones are made of whole   *)
(* CPUs, for the whole of its request.                                     *)
(***************************************************************************)
EXTENDS TopologyMatch, SumTheorems, FunctionTheorems

-----------------------------------------------------------------------------
(* Sums of CPU units.                                                      *)

(* The units of a finite set are finitely many, so their total is a number.*)
LEMMA UnitsFinite ==
    ASSUME NEW S, IsFiniteSet(S), NEW x, \A e \in S : x[e] \in Int
    PROVE  IsFiniteSet(Units(S, x)) /\ Total(S, x) \in Nat
<1> DEFINE f == [e \in S |-> {e} \X (1..x[e])]
           T == {{e} \X (1..x[e]) : e \in S}
<1>1. f \in Surjection(S, T)
  <2>1. f \in [S -> T]
    OBVIOUS
  <2>2. \A t \in T : \E e \in S : f[e] = t
    OBVIOUS
  <2> QED
    BY <2>1, <2>2 DEF Surjection
<1>2. IsFiniteSet(T)
  BY <1>1, FS_Surjection
<1>3. \A t \in T : IsFiniteSet(t)
  <2> SUFFICES ASSUME NEW e \in S
               PROVE  IsFiniteSet({e} \X (1..x[e]))
    OBVIOUS
  <2>1. IsFiniteSet({e})
    BY FS_Singleton
  <2>2. IsFiniteSet(1..x[e])
    BY FS_Interval
  <2> QED
    BY <2>1, <2>2, FS_Product
<1>4. IsFiniteSet(UNION T)
  BY <1>2, <1>3, FS_UNION
<1> QED
  BY <1>4, FS_CardinalityType DEF Units, Total

(* A total grows with the set and with the amounts.                        *)
LEMMA TotalMono ==
    ASSUME NEW T, IsFiniteSet(T), NEW S \in SUBSET T, NEW x, NEW y,
           \A e \in S : x[e] \in Int,
           \A e \in T : y[e] \in Int,
           \A e \in S : x[e] <= y[e]
    PROVE  Total(S, x) <= Total(T, y)
<1>1. Units(S, x) \subseteq Units(T, y)
  <2> SUFFICES ASSUME NEW e \in S, NEW i \in 1..x[e]
               PROVE  <<e, i>> \in Units(T, y)
    BY DEF Units
  <2>1. i \in 1..y[e]
    OBVIOUS
  <2> QED
    BY <2>1 DEF Units
<1>2. IsFiniteSet(Units(T, y))
  BY UnitsFinite
<1> QED
  BY <1>1, <1>2, FS_Subset DEF Total

(* A new element adds its amount.                                          *)
LEMMA TotalAdd ==
    ASSUME NEW S, IsFiniteSet(S), NEW e, e \notin S, NEW x,
           \A d \in S : x[d] \in Int, x[e] \in Nat
    PROVE  Total(S \cup {e}, x) = Total(S, x) + x[e]
<1> DEFINE E == {e} \X (1..x[e])
<1>1. Units(S \cup {e}, x) = Units(S, x) \cup E
  BY DEF Units
<1>2. Units(S, x) \cap E = {}
  BY DEF Units
<1>3. IsFiniteSet(E) /\ Cardinality(E) = x[e]
  <2>1. IsFiniteSet({e}) /\ Cardinality({e}) = 1
    BY FS_Singleton
  <2>2. IsFiniteSet(1..x[e]) /\ Cardinality(1..x[e]) = x[e]
    BY FS_Interval, SMTT(30)
  <2>3. IsFiniteSet(E) /\ Cardinality(E) = Cardinality({e}) * Cardinality(1..x[e])
    BY <2>1, <2>2, FS_Product
  <2> QED
    BY <2>1, <2>2, <2>3
<1>4. IsFiniteSet(Units(S, x)) /\ Total(S, x) \in Nat
  BY UnitsFinite
<1>5. Cardinality(Units(S, x) \cup E)
          = Cardinality(Units(S, x)) + Cardinality(E) - Cardinality(Units(S, x) \cap E)
  BY <1>3, <1>4, FS_Union
<1> HIDE DEF E
<1>6. Cardinality(Units(S, x) \cap E) = 0
  BY <1>2, FS_EmptySet, Zenon
<1>7. Total(S, x) = Cardinality(Units(S, x))
  BY DEF Total
<1>8. Cardinality(Units(S, x) \cup E) = Total(S, x) + x[e]
  BY <1>3, <1>4, <1>5, <1>6, <1>7
<1>9. Total(S \cup {e}, x) = Cardinality(Units(S, x) \cup E)
  BY <1>1, Zenon DEF Total
<1> QED
  BY <1>8, <1>9

-----------------------------------------------------------------------------
(* What Filter computes.                                                   *)

(* The whole CPUs of an amount are no more than the amount.                *)
LEMMA WholeBelow ==
    ASSUME NEW a \in Nat, NEW w \in Nat \ {0}
    PROVE  (a \div w) * w \in Nat /\ (a \div w) * w <= a
OBVIOUS

(* The CPU requested in a zone is a number, and so is what is free.        *)
LEMMA RequestedType ==
    ASSUME TypeOK, NEW n \in Nodes, NEW z \in Zones
    PROVE  /\ IsFiniteSet(SnapPods(n))
           /\ Requested(n, z) \in Nat
           /\ Free(n, z) \in Int
           /\ WholeFree(n, z) \in Int
           /\ WholeFree(n, z) <= Free(n, z)
<1> DEFINE x == [p \in Pods |-> addPod(snap, p)[z]]
<1>1. IsFiniteSet(SnapPods(n))
  BY SetsAssumption, FS_Subset DEF SnapPods
<1>2. \A p \in SnapPods(n) : x[p] \in Int
  BY DEF TypeOK, SnapPods, addPod, Placement, ZoneList
<1>3. Requested(n, z) \in Nat
  BY <1>1, <1>2, UnitsFinite DEF Requested
<1>4. Alloc[n][z] \in Nat
  BY CPUAssumption
<1>5. (Alloc[n][z] \div WholeCPU) * WholeCPU \in Nat /\ (Alloc[n][z] \div WholeCPU) * WholeCPU <= Alloc[n][z]
  BY <1>4, CPUAssumption, WholeBelow
<1> QED
  BY <1>1, <1>3, <1>4, <1>5 DEF Free, WholeFree

(* A result of assignTopologyResult takes nothing that is not free.        *)
LEMMA ResultFits ==
    ASSUME TypeOK, NEW p \in Pods, NEW n \in Nodes, NEW r \in assignTopologyResult(p, n)
    PROVE  r \in ZoneList /\ \A z \in Zones : r[z] = 0 \/ r[z] <= Free(n, z)
<1>1. CASE Aware(p, n)
  <2>1. PICK z \in FirstZones(p, n) : r = [Empty EXCEPT ![z] = Request[p]]
    BY <1>1 DEF assignTopologyResult
  <2>2. z \in Zones /\ Request[p] <= Free(n, z)
    BY <2>1 DEF FirstZones, FittingZones, fitsRequestForNUMANode
  <2> QED
    BY <2>1, <2>2, CPUAssumption DEF Empty, ZoneList
<1>2. CASE ~Aware(p, n)
  <2>1. PICK rank \in Ranks(n) : r = Spread(p, n, rank)
    BY <1>2 DEF assignTopologyResult
  <2> DEFINE before(z) == {y \in Zones : rank[y] < rank[z]}
             left(z) == Request[p] - Total(before(z), [y \in Zones |-> WholeFree(n, y)])
  <2>2. r = [z \in Zones |-> Assigned(left(z), WholeFree(n, z))]
    BY <2>1 DEF Spread
  <2>3. ASSUME NEW z \in Zones
        PROVE  left(z) \in Int
    <3>1. IsFiniteSet(before(z))
      BY SetsAssumption, FS_Subset
    <3>2. \A y \in before(z) : [u \in Zones |-> WholeFree(n, u)][y] \in Int
      BY RequestedType
    <3>3. Total(before(z), [y \in Zones |-> WholeFree(n, y)]) \in Nat
      BY <3>1, <3>2, UnitsFinite
    <3> QED
      BY <3>3, CPUAssumption
  <2>4. ASSUME NEW z \in Zones
        PROVE  /\ Assigned(left(z), WholeFree(n, z)) \in Nat
               /\ \/ Assigned(left(z), WholeFree(n, z)) = 0
                  \/ Assigned(left(z), WholeFree(n, z)) <= Free(n, z)
    <3> HIDE DEF left
    <3> QED
      BY <2>3, RequestedType DEF Assigned
  <2> HIDE DEF left
  <2> QED
    BY <2>2, <2>4 DEF ZoneList
<1> QED
  BY <1>1, <1>2

-----------------------------------------------------------------------------
(* Types.                                                                  *)

(* The empty list and the unplaced pod are of their types.                 *)
LEMMA EmptyType == Empty \in ZoneList /\ Unplaced \in Placement
BY DEF Empty, ZoneList, Unplaced, Placement

(* The end of a scheduling cycle leaves its variables well typed.          *)
LEMMA EndCycleType ==
    ASSUME EndCycle
    PROVE  /\ cur' \in Pods \cup {NoPod}
           /\ curAnno' \in ZoneList
           /\ snap' \in [Pods -> Placement]
           /\ filtered' \subseteq Nodes
           /\ fits' \subseteq filtered'
           /\ DOMAIN byNode' \subseteq Nodes
           /\ \A n \in DOMAIN byNode' : byNode'[n] \in ZoneList
BY EmptyType DEF EndCycle, NoResults

(* A patch of the annotation changes nothing else of the pod.              *)
LEMMA AnnotateType ==
    ASSUME api \in [Pods -> Placement], NEW p \in Pods, NEW r \in ZoneList,
           api' = [api EXCEPT ![p].anno = r]
    PROVE  /\ api' \in [Pods -> Placement]
           /\ api'[p].anno = r
           /\ \A q \in Pods : api'[q].node = api[q].node
           /\ \A q \in Pods \ {p} : api'[q] = api[q]
BY DEF Placement

(* Every step keeps every variable in its type.                            *)
LEMMA TypeStep == TypeOK /\ [Next]_vars => TypeOK'
<1> SUFFICES ASSUME TypeOK, [Next]_vars
             PROVE  TypeOK'
  OBVIOUS
<1> USE EmptyType, TTLAssumption
<1>1. ASSUME NEW p \in Pods, PreFilter(p) PROVE TypeOK'
  BY <1>1 DEF TypeOK, PreFilter, apiVars, cacheVars, Placement
<1>2. ASSUME NEW n \in Nodes, Filter(n) PROVE TypeOK'
  <2>1. /\ filtered' = filtered \cup {n}
        /\ fits' = fits \/ fits' = fits \cup {n}
        /\ \/ byNode' = byNode
           \/ \E result \in assignTopologyResult(cur, n) :
                 byNode' = [m \in DOMAIN byNode \cup {n} |-> IF m = n THEN result ELSE byNode[m]]
    BY <1>2 DEF Filter
  <2>2. cur \in Pods
    BY <1>2 DEF Filter, TypeOK
  <2>3. DOMAIN byNode' \subseteq Nodes /\ \A m \in DOMAIN byNode' : byNode'[m] \in ZoneList
    <3>1. CASE byNode' = byNode
      BY <3>1 DEF TypeOK
    <3>2. CASE byNode' # byNode
      <4>1. PICK result \in assignTopologyResult(cur, n) :
                 byNode' = [m \in DOMAIN byNode \cup {n} |-> IF m = n THEN result ELSE byNode[m]]
        BY <3>2, <2>1
      <4>2. result \in ZoneList
        BY <2>2, ResultFits
      <4> QED
        BY <4>1, <4>2 DEF TypeOK
    <3> QED
      BY <3>1, <3>2
  <2>4. UNCHANGED <<apiVars, phase, assumed, cur, curAnno, snap, topologyResult, cacheVars, leftover>>
    BY <1>2 DEF Filter
  <2> QED
    BY <2>1, <2>3, <2>4 DEF TypeOK, apiVars, cacheVars
<1>3. CASE FitError
  BY <1>3, EndCycleType DEF TypeOK, FitError, apiVars, cacheVars
<1>4. ASSUME NEW n \in Nodes, Reserve(n) PROVE TypeOK'
  <2>1. cur \in Pods /\ EndCycle /\ UNCHANGED apiVars /\ n \in Nodes
    BY <1>4 DEF Reserve, TypeOK
  <2>2. CASE ReserveNothing(n)
    BY <2>1, <2>2, EndCycleType DEF TypeOK, ReserveNothing, apiVars, cacheVars, Placement, Phase
  <2>3. CASE ReserveError(n)
    <3>1. podTopology' \in [Pods -> ZoneList] /\ age' \in [Pods -> 0..(TTL + 1)]
      BY <2>1, <2>3 DEF TypeOK, ReserveError
    <3>2. UNCHANGED <<phase, assumed, topologyResult, leftover>>
      BY <2>3 DEF ReserveError
    <3> QED
      BY <2>1, <3>1, <3>2, EndCycleType DEF TypeOK, apiVars
  <2>4. CASE AssumePod(n)
    <3>1. podTopology' \in [Pods -> ZoneList] /\ age' \in [Pods -> 0..(TTL + 1)]
      BY <2>1, <2>4 DEF TypeOK, AssumePod
    <3>2. topologyResult' \in [Pods -> ZoneList] /\ leftover' \subseteq Nodes
      BY <2>1, <2>4 DEF TypeOK, AssumePod
    <3>3. phase' \in [Pods -> Phase] /\ assumed' \in [Pods -> Placement]
      BY <2>1, <2>4 DEF TypeOK, AssumePod, Phase, Placement
    <3> QED
      BY <2>1, <3>1, <3>2, <3>3, EndCycleType DEF TypeOK, apiVars
  <2> QED
    BY <1>4, <2>2, <2>3, <2>4 DEF Reserve
<1>5. ASSUME NEW p \in Pods, PreBind(p) PROVE TypeOK'
  <2>1. api' \in [Pods -> Placement]
    BY <1>5, AnnotateType DEF PreBind, TypeOK
  <2> QED
    BY <1>5, <2>1 DEF TypeOK, PreBind, cycleVars, cacheVars, Phase
<1>6. ASSUME NEW p \in Pods, Bind(p) PROVE TypeOK'
  BY <1>6 DEF TypeOK, Bind, cycleVars, cacheVars, Placement, Phase
<1>7. ASSUME NEW p \in Pods, BindingFails(p) PROVE TypeOK'
  BY <1>7 DEF TypeOK, BindingFails, Unreserve, cycleVars, Phase
<1>8. ASSUME NEW p \in Pods, PreBindReplyLost(p) PROVE TypeOK'
  <2>1. api' \in [Pods -> Placement]
    BY <1>8, AnnotateType DEF PreBindReplyLost, TypeOK
  <2> QED
    BY <1>8, <2>1 DEF TypeOK, PreBindReplyLost, Unreserve, cycleVars, Phase
<1>9. ASSUME NEW p \in Pods, ObserveBound(p) PROVE TypeOK'
  BY <1>9 DEF TypeOK, ObserveBound, apiVars, cycleVars, cacheVars
<1>10. ASSUME NEW p \in Pods, ObserveDeleted(p) PROVE TypeOK'
  BY <1>10 DEF TypeOK, ObserveDeleted, apiVars, cycleVars, cacheVars
<1>11. ASSUME NEW p \in Pods, Delete(p) PROVE TypeOK'
  BY <1>11 DEF TypeOK, Delete, cycleVars, cacheVars, Phase
<1>12. CASE cleanupAssumedPods
  BY <1>12 DEF TypeOK, cleanupAssumedPods, apiVars, cycleVars
<1>13. CASE Tick
  BY <1>13 DEF TypeOK, Tick, apiVars, cycleVars
<1>14. CASE Restart
  BY <1>14, EndCycleType DEF TypeOK, Restart, apiVars, Phase
<1>15. CASE UNCHANGED vars
  BY <1>15 DEF TypeOK, vars, apiVars, cycleVars, cacheVars
<1> QED
  BY <1>1, <1>2, <1>3, <1>4, <1>5, <1>6, <1>7, <1>8, <1>9, <1>10, <1>11, <1>12, <1>13, <1>14, <1>15 DEF Next

(* Every variable stays in its type.                                       *)
THEOREM TypeCorrect == Spec => []TypeOK
<1>1. Init => TypeOK
  BY EmptyType, TTLAssumption DEF Init, TypeOK, Phase, NoResults
<1> QED
  BY <1>1, TypeStep, PTL DEF Spec

-----------------------------------------------------------------------------
(* No zone is overcommitted: the inductive invariant.                      *)

(* The plugin's notes keep agreeing with the phases of the pods.           *)
LEMMA BookkeepingStep ==
    ASSUME TypeOK, TypeOK', Bookkeeping, [Next]_vars
    PROVE  Bookkeeping'
<1> USE SetsAssumption DEF Bookkeeping, InFlight, Unplaced, NoResults
<1>1. ASSUME NEW p \in Pods, PreFilter(p) PROVE Bookkeeping'
  BY <1>1 DEF TypeOK, PreFilter, apiVars, cacheVars, IsTarget
<1>2. ASSUME NEW n \in Nodes, Filter(n) PROVE Bookkeeping'
  BY <1>2 DEF TypeOK, Filter, apiVars, cacheVars, IsTarget
<1>3. CASE FitError
  BY <1>3 DEF FitError, EndCycle, apiVars, cacheVars, IsTarget
<1>4. ASSUME NEW n \in Nodes, Reserve(n) PROVE Bookkeeping'
  <2>1. cur \in Pods /\ EndCycle /\ UNCHANGED apiVars /\ n \in fits
    BY <1>4 DEF Reserve, TypeOK
  <2>2. CASE ReserveNothing(n)
    BY <2>1, <2>2 DEF TypeOK, ReserveNothing, EndCycle, apiVars, cacheVars, IsTarget
  <2>3. CASE ReserveError(n)
    BY <2>1, <2>3 DEF TypeOK, ReserveError, EndCycle, apiVars, IsTarget
  <2>4. CASE AssumePod(n)
    BY <2>1, <2>4 DEF TypeOK, AssumePod, EndCycle, apiVars, IsTarget
  <2> QED
    BY <1>4, <2>2, <2>3, <2>4 DEF Reserve
<1>5. ASSUME NEW p \in Pods, PreBind(p) PROVE Bookkeeping'
  <2>1. CASE topologyResult[p] = Empty
    BY <1>5, <2>1 DEF TypeOK, PreBind, cycleVars, cacheVars, IsTarget
  <2>2. CASE topologyResult[p] # Empty
    <3>1. /\ api'[p].anno = topologyResult[p]
          /\ \A q \in Pods : api'[q].node = api[q].node
          /\ \A q \in Pods \ {p} : api'[q] = api[q]
      <4>1. /\ api \in [Pods -> Placement] /\ topologyResult[p] \in ZoneList
            /\ api' = [api EXCEPT ![p].anno = topologyResult[p]]
        BY <1>5, <2>2 DEF TypeOK, PreBind
      <4> QED
        BY <4>1, AnnotateType
    <3>2. phase[p] = "reserved" /\ phase' = [phase EXCEPT ![p] = "patched"]
      BY <1>5 DEF PreBind
    <3>3. UNCHANGED <<assumed, cur, curAnno, fits, byNode, topologyResult, podTopology>>
      BY <1>5 DEF PreBind, cycleVars, cacheVars
    <3> QED
      BY <2>2, <3>1, <3>2, <3>3 DEF TypeOK, IsTarget
  <2> QED
    BY <2>1, <2>2
<1>6. ASSUME NEW p \in Pods, Bind(p) PROVE Bookkeeping'
  BY <1>6 DEF TypeOK, Bind, cycleVars, cacheVars, IsTarget, Placement
<1>7. ASSUME NEW p \in Pods, BindingFails(p) PROVE Bookkeeping'
  BY <1>7 DEF TypeOK, BindingFails, Unreserve, cycleVars, IsTarget
<1>8. ASSUME NEW p \in Pods, PreBindReplyLost(p) PROVE Bookkeeping'
  BY <1>8, AnnotateType DEF TypeOK, PreBindReplyLost, Unreserve, cycleVars, IsTarget
<1>9. ASSUME NEW p \in Pods, ObserveBound(p) PROVE Bookkeeping'
  BY <1>9 DEF TypeOK, ObserveBound, apiVars, cycleVars, cacheVars, IsTarget
<1>10. ASSUME NEW p \in Pods, ObserveDeleted(p) PROVE Bookkeeping'
  BY <1>10 DEF TypeOK, ObserveDeleted, apiVars, cycleVars, cacheVars, IsTarget
<1>11. ASSUME NEW p \in Pods, Delete(p) PROVE Bookkeeping'
  BY <1>11 DEF TypeOK, Delete, cycleVars, cacheVars, IsTarget
<1>12. CASE cleanupAssumedPods
  BY <1>12 DEF TypeOK, cleanupAssumedPods, apiVars, cycleVars, IsTarget
<1>13. CASE Tick
  BY <1>13 DEF TypeOK, Tick, apiVars, cycleVars, IsTarget
<1>14. CASE Restart
  BY <1>14 DEF TypeOK, Restart, EndCycle, apiVars, IsTarget
<1>15. CASE UNCHANGED vars
  BY <1>15 DEF vars, apiVars, cycleVars, cacheVars, IsTarget
<1> QED
  BY <1>1, <1>2, <1>3, <1>4, <1>5, <1>6, <1>7, <1>8, <1>9, <1>10, <1>11, <1>12, <1>13, <1>14, <1>15 DEF Next

(* Time passes a needed entry by only before its deadline.                 *)
LEMMA FreshStep ==
    ASSUME TypeOK, TypeOK', Bookkeeping, Fresh, [Next]_vars
    PROVE  Fresh'
<1> USE SetsAssumption, TTLAssumption DEF Fresh, CacheNeeded, Held
<1>1. ASSUME NEW p \in Pods, PreFilter(p) PROVE Fresh'
  BY <1>1 DEF TypeOK, PreFilter, apiVars, cacheVars
<1>2. ASSUME NEW n \in Nodes, Filter(n) PROVE Fresh'
  BY <1>2 DEF TypeOK, Filter, apiVars, cacheVars
<1>3. CASE FitError
  BY <1>3 DEF FitError, EndCycle, apiVars, cacheVars
<1>4. ASSUME NEW n \in Nodes, Reserve(n) PROVE Fresh'
  <2>1. cur \in Pods /\ EndCycle /\ UNCHANGED apiVars /\ n \in fits /\ phase[cur] = "pending"
    BY <1>4 DEF Reserve, TypeOK, Bookkeeping
  <2>2. CASE ReserveNothing(n)
    <3>1. podTopology[cur] = Empty
      BY <2>1 DEF Bookkeeping, InFlight
    <3> QED
      BY <2>1, <2>2, <3>1 DEF TypeOK, ReserveNothing, EndCycle, cacheVars
  <2>3. CASE ReserveError(n)
    BY <2>1, <2>3 DEF TypeOK, ReserveError, EndCycle
  <2>4. CASE AssumePod(n)
    BY <2>1, <2>4 DEF TypeOK, AssumePod, EndCycle
  <2> QED
    BY <1>4, <2>2, <2>3, <2>4 DEF Reserve
<1>5. ASSUME NEW p \in Pods, PreBind(p) PROVE Fresh'
  BY <1>5 DEF TypeOK, PreBind, cycleVars, cacheVars
<1>6. ASSUME NEW p \in Pods, Bind(p) PROVE Fresh'
  BY <1>6 DEF TypeOK, Bind, cycleVars, cacheVars
<1>7. ASSUME NEW p \in Pods, BindingFails(p) PROVE Fresh'
  BY <1>7 DEF TypeOK, BindingFails, Unreserve, cycleVars
<1>8. ASSUME NEW p \in Pods, PreBindReplyLost(p) PROVE Fresh'
  BY <1>8 DEF TypeOK, PreBindReplyLost, Unreserve, cycleVars
<1>9. ASSUME NEW p \in Pods, ObserveBound(p) PROVE Fresh'
  BY <1>9 DEF TypeOK, ObserveBound, Bookkeeping, apiVars, cycleVars, cacheVars
<1>10. ASSUME NEW p \in Pods, ObserveDeleted(p) PROVE Fresh'
  BY <1>10 DEF TypeOK, ObserveDeleted, apiVars, cycleVars, cacheVars
<1>11. ASSUME NEW p \in Pods, Delete(p) PROVE Fresh'
  BY <1>11 DEF TypeOK, Delete, cycleVars, cacheVars
<1>12. CASE cleanupAssumedPods
  BY <1>12 DEF TypeOK, cleanupAssumedPods, apiVars, cycleVars
<1>13. CASE Tick
  BY <1>13 DEF TypeOK, Tick, apiVars, cycleVars
<1>14. CASE Restart
  BY <1>14 DEF TypeOK, Restart, EndCycle
<1>15. CASE UNCHANGED vars
  BY <1>15 DEF vars, apiVars, cycleVars, cacheVars
<1> QED
  BY <1>1, <1>2, <1>3, <1>4, <1>5, <1>6, <1>7, <1>8, <1>9, <1>10, <1>11, <1>12, <1>13, <1>14, <1>15 DEF Next

(* On the node that reserves it a pod is seen with its new grant.          *)
LEMMA VisibleReserve ==
    ASSUME TypeOK, TypeOK', Bookkeeping, Visible, NEW n \in Nodes, Reserve(n)
    PROVE  Visible'
<1> USE DEF Visible, Held, Grant, addPod
<1>1. /\ cur \in Pods /\ EndCycle /\ UNCHANGED apiVars /\ n \in fits
      /\ phase[cur] = "pending" /\ topologyResult[cur] = Empty /\ podTopology[cur] = Empty
  BY DEF Reserve, TypeOK, Bookkeeping, InFlight
<1>2. CASE ReserveNothing(n)
  <2>1. n \in Static => curAnno = Empty
    BY <1>1, <1>2 DEF ReserveNothing, Bookkeeping, Reserve
  <2> QED
    BY <1>1, <1>2, <2>1, SetsAssumption DEF TypeOK, ReserveNothing, EndCycle, apiVars, cacheVars
<1>3. CASE ReserveError(n)
  BY <1>1, <1>3, SetsAssumption DEF TypeOK, ReserveError, EndCycle, apiVars
<1>4. CASE AssumePod(n)
  BY <1>1, <1>4, SetsAssumption DEF TypeOK, AssumePod, EndCycle, apiVars
<1> QED
  BY <1>2, <1>3, <1>4 DEF Reserve

(* A pod keeps its grant when it is bound to a static node.                *)
LEMMA BindKeepsGrant ==
    ASSUME TypeOK, Bookkeeping, NEW p \in Pods, Bind(p), assumed[p].node \in Static
    PROVE  api[p].anno = topologyResult[p] /\ Grant(p)' = Grant(p)
<1>1. phase[p] = "patched" /\ api'[p].anno = api[p].anno /\ phase'[p] = "bound"
  BY DEF Bind, TypeOK, Placement
<1>2. api[p].anno = topologyResult[p]
  BY <1>1 DEF Bookkeeping, InFlight
<1> QED
  BY <1>1, <1>2 DEF Grant

(* Every step leaves the grants visible.                                   *)
LEMMA VisibleStep ==
    ASSUME TypeOK, TypeOK', Bookkeeping, Visible, Fresh, [Next]_vars
    PROVE  Visible'
<1> USE SetsAssumption DEF Visible, Held, Grant, addPod
<1>1. ASSUME NEW p \in Pods, PreFilter(p) PROVE Visible'
  BY <1>1 DEF TypeOK, PreFilter, apiVars, cacheVars
<1>2. ASSUME NEW n \in Nodes, Filter(n) PROVE Visible'
  BY <1>2 DEF TypeOK, Filter, apiVars, cacheVars
<1>3. CASE FitError
  BY <1>3 DEF FitError, EndCycle, apiVars, cacheVars
<1>4. ASSUME NEW n \in Nodes, Reserve(n) PROVE Visible'
  BY <1>4, VisibleReserve
<1>5. ASSUME NEW p \in Pods, PreBind(p) PROVE Visible'
  BY <1>5 DEF TypeOK, PreBind, cycleVars, cacheVars
<1>6. ASSUME NEW p \in Pods, Bind(p) PROVE Visible'
  <2>1. /\ \A q \in Pods \ {p} : api'[q] = api[q] /\ phase'[q] = phase[q] /\ topologyResult'[q] = topologyResult[q]
        /\ UNCHANGED <<assumed, cur, snap, podTopology, leftover>>
        /\ Held(p)
    BY <1>6 DEF TypeOK, Bind, cycleVars, cacheVars
  <2>2. assumed[p].node \in Static => Grant(p)' = Grant(p)
    BY <1>6, BindKeepsGrant
  <2> QED
    BY <2>1, <2>2
<1>7. ASSUME NEW p \in Pods, BindingFails(p) PROVE Visible'
  BY <1>7 DEF TypeOK, BindingFails, Unreserve, cycleVars
<1>8. ASSUME NEW p \in Pods, PreBindReplyLost(p) PROVE Visible'
  BY <1>8 DEF TypeOK, PreBindReplyLost, Unreserve, cycleVars
<1>9. ASSUME NEW p \in Pods, ObserveBound(p) PROVE Visible'
  BY <1>9 DEF TypeOK, ObserveBound, Bookkeeping, apiVars, cycleVars, cacheVars
<1>10. ASSUME NEW p \in Pods, ObserveDeleted(p) PROVE Visible'
  BY <1>10 DEF TypeOK, ObserveDeleted, apiVars, cycleVars, cacheVars
<1>11. ASSUME NEW p \in Pods, Delete(p) PROVE Visible'
  BY <1>11 DEF TypeOK, Delete, cycleVars, cacheVars
<1>12. CASE cleanupAssumedPods
  <2>1. \A p \in Pods : CacheNeeded(p) => podTopology'[p] = podTopology[p]
    BY <1>12, TTLAssumption DEF TypeOK, cleanupAssumedPods, Fresh
  <2>2. UNCHANGED <<api, phase, assumed, cur, snap, topologyResult, leftover>>
    BY <1>12 DEF cleanupAssumedPods, apiVars, cycleVars
  <2>3. NoNode \notin Static
    OBVIOUS
  <2> QED
    BY <2>1, <2>2, <2>3 DEF CacheNeeded
<1>13. CASE Tick
  BY <1>13 DEF TypeOK, Tick, apiVars, cycleVars
<1>14. CASE Restart
  BY <1>14 DEF TypeOK, Restart, EndCycle, apiVars, InFlight
<1>15. CASE UNCHANGED vars
  BY <1>15 DEF vars, apiVars, cycleVars, cacheVars
<1> QED
  BY <1>1, <1>2, <1>3, <1>4, <1>5, <1>6, <1>7, <1>8, <1>9, <1>10, <1>11, <1>12, <1>13, <1>14, <1>15 DEF Next

-----------------------------------------------------------------------------
(* What is used of a zone, and the room that Filter found in it.           *)

(* The CPU used in a zone is a number.                                     *)
LEMMA UsedType ==
    ASSUME TypeOK, NEW n, NEW z \in Zones
    PROVE  /\ IsFiniteSet(HeldPods(n)) /\ Used(n, z) \in Nat
           /\ \A p \in Pods : Grant(p)[z] \in Nat
<1>1. IsFiniteSet(HeldPods(n))
  BY SetsAssumption, FS_Subset DEF HeldPods
<1>2. \A p \in Pods : Grant(p)[z] \in Nat
  BY DEF TypeOK, Grant, Placement, ZoneList
<1>3. \A p \in HeldPods(n) : [q \in Pods |-> Grant(q)[z]][p] \in Int
  BY <1>2 DEF HeldPods
<1> QED
  BY <1>1, <1>2, <1>3, UnitsFinite DEF Used

(* When a node gains no pod and no pod on it gains CPU, it uses no more.   *)
LEMMA UsedShrinks ==
    ASSUME TypeOK, TypeOK', NEW n, NEW z \in Zones,
           \A p \in Pods : Held(p)' /\ assumed'[p].node = n =>
               Held(p) /\ assumed[p].node = n /\ Grant(p)' = Grant(p)
    PROVE  Used(n, z)' <= Used(n, z) /\ Used(n, z) \in Nat /\ Used(n, z)' \in Nat
<1> DEFINE x == [p \in Pods |-> Grant(p)'[z]]
           y == [p \in Pods |-> Grant(p)[z]]
           S == {p \in Pods : Held(p)' /\ assumed'[p].node = n}
           T == {p \in Pods : Held(p) /\ assumed[p].node = n}
<1>1. S \in SUBSET T
  OBVIOUS
<1>2. IsFiniteSet(T)
  BY SetsAssumption, FS_Subset
<1>3. \A p \in Pods : x[p] \in Nat /\ y[p] \in Nat
  BY DEF TypeOK, Grant, Placement, ZoneList
<1>4. \A p \in S : x[p] = y[p]
  OBVIOUS
<1>5. Total(S, x) <= Total(T, y)
  <2> HIDE DEF x, y
  <2>1. /\ \A p \in S : x[p] \in Int
        /\ \A p \in T : y[p] \in Int
        /\ \A p \in S : x[p] <= y[p]
    BY <1>3, <1>4
  <2> HIDE DEF S, T
  <2> QED
    BY <1>1, <1>2, <2>1, TotalMono
<1>6. Total(S, x) \in Nat /\ Total(T, y) \in Nat
  <2> HIDE DEF x, y
  <2>1. IsFiniteSet(S)
    BY SetsAssumption, FS_Subset
  <2>2. Total(S, x) \in Nat
    BY <2>1, <1>3, UnitsFinite
  <2>3. Total(T, y) \in Nat
    BY <1>2, <1>3, UnitsFinite
  <2> QED
    BY <2>2, <2>3
<1>7. Used(n, z)' = Total(S, x) /\ Used(n, z) = Total(T, y)
  BY DEF Used, HeldPods, Total, Units
<1> QED
  BY <1>5, <1>6, <1>7

(* Filter counts everything that is used of a zone.                        *)
LEMMA UsedRequested ==
    ASSUME TypeOK, Visible, cur # NoPod, NEW n \in Static \ leftover, NEW z \in Zones
    PROVE  Used(n, z) <= Requested(n, z)
<1> DEFINE x == [p \in Pods |-> Grant(p)[z]]
           y == [p \in Pods |-> addPod(snap, p)[z]]
<1>1. HeldPods(n) \in SUBSET SnapPods(n)
  BY DEF HeldPods, SnapPods, Visible
<1>2. \A p \in HeldPods(n) : x[p] = y[p]
  BY DEF HeldPods, Visible
<1>3. \A p \in Pods : x[p] \in Nat /\ y[p] \in Nat
  BY DEF TypeOK, Grant, addPod, Placement, ZoneList
<1>4. IsFiniteSet(SnapPods(n))
  BY SetsAssumption, FS_Subset DEF SnapPods
<1> HIDE DEF x, y
<1>5. /\ \A p \in HeldPods(n) : x[p] \in Int
      /\ \A p \in SnapPods(n) : y[p] \in Int
      /\ \A p \in HeldPods(n) : x[p] <= y[p]
  BY <1>2, <1>3 DEF HeldPods, SnapPods
<1>6. Total(HeldPods(n), x) <= Total(SnapPods(n), y)
  BY <1>1, <1>4, <1>5, TotalMono
<1> QED
  BY <1>6 DEF Used, Requested, x, y

(* A pod that is reserved adds its grant to its node.                      *)
LEMMA UsedAdds ==
    ASSUME TypeOK, TypeOK', NEW c \in Pods, NEW n, NEW z \in Zones, ~Held(c),
           \A p \in Pods \ {c} : (Held(p)' <=> Held(p)) /\ assumed'[p] = assumed[p] /\ Grant(p)' = Grant(p)
    PROVE  Used(n, z)' <= Used(n, z) + Grant(c)'[z] /\ Used(n, z) \in Nat /\ Used(n, z)' \in Nat
<1> DEFINE x == [p \in Pods |-> Grant(p)'[z]]
           y == [p \in Pods |-> Grant(p)[z]]
           S == {p \in Pods : Held(p)' /\ assumed'[p].node = n}
           T == {p \in Pods : Held(p) /\ assumed[p].node = n}
<1>1. S \in SUBSET (T \cup {c}) /\ T \subseteq Pods /\ c \notin T
  OBVIOUS
<1>2. IsFiniteSet(T) /\ IsFiniteSet(T \cup {c})
  BY <1>1, SetsAssumption, FS_Subset
<1>3. \A p \in Pods : x[p] \in Nat /\ y[p] \in Nat
  BY DEF TypeOK, Grant, Placement, ZoneList
<1>4. \A p \in T : x[p] = y[p]
  BY <1>1
<1>5. Used(n, z)' = Total(S, x) /\ Used(n, z) = Total(T, y) /\ x[c] = Grant(c)'[z]
  BY DEF Used, HeldPods, Total, Units
<1> HIDE DEF x, y, S, T
<1>6. Total(S, x) <= Total(T \cup {c}, x)
  <2>1. /\ \A p \in S : x[p] \in Int
        /\ \A p \in T \cup {c} : x[p] \in Int
        /\ \A p \in S : x[p] <= x[p]
    BY <1>1, <1>3
  <2> QED
    BY <1>1, <1>2, <2>1, TotalMono
<1>7. Total(T \cup {c}, x) = Total(T, x) + x[c]
  <2>1. \A p \in T : x[p] \in Int
    BY <1>1, <1>3
  <2> QED
    BY <1>1, <1>2, <1>3, <2>1, TotalAdd
<1>8. Total(T, x) <= Total(T, y)
  <2>1. /\ \A p \in T : x[p] \in Int
        /\ \A p \in T : y[p] \in Int
        /\ \A p \in T : x[p] <= y[p]
    BY <1>1, <1>3, <1>4
  <2> QED
    BY <1>1, <1>2, <2>1, TotalMono
<1>9. Total(S, x) \in Nat /\ Total(T, x) \in Nat /\ Total(T, y) \in Nat /\ x[c] \in Nat
  <2>1. IsFiniteSet(S)
    BY <1>1, <1>2, FS_Subset
  <2>2. /\ \A p \in S : x[p] \in Int
        /\ \A p \in T : x[p] \in Int
        /\ \A p \in T : y[p] \in Int
    BY <1>1, <1>3
  <2>3. Total(S, x) \in Nat
    BY <2>1, <2>2, UnitsFinite
  <2>4. Total(T, x) \in Nat
    BY <1>2, <2>2, UnitsFinite
  <2>5. Total(T, y) \in Nat
    BY <1>2, <2>2, UnitsFinite
  <2> QED
    BY <1>3, <2>3, <2>4, <2>5
<1> QED
  BY <1>5, <1>6, <1>7, <1>8, <1>9

(* No other step than Reserve adds to what is used of a static node.       *)
LEMMA OthersShrink ==
    ASSUME TypeOK, TypeOK', Bookkeeping, [Next]_vars, \A n \in Nodes : ~Reserve(n),
           NEW m \in Static, NEW q \in Pods, Held(q)', assumed'[q].node = m
    PROVE  Held(q) /\ assumed[q].node = m /\ Grant(q)' = Grant(q)
<1> USE SetsAssumption DEF Held, Grant
<1>1. ASSUME NEW p \in Pods, PreFilter(p) PROVE Held(q) /\ assumed[q].node = m /\ Grant(q)' = Grant(q)
  BY <1>1 DEF TypeOK, PreFilter, apiVars
<1>2. ASSUME NEW n \in Nodes, Filter(n) PROVE Held(q) /\ assumed[q].node = m /\ Grant(q)' = Grant(q)
  BY <1>2 DEF Filter, apiVars
<1>3. CASE FitError
  BY <1>3 DEF FitError, apiVars
<1>4. ASSUME NEW p \in Pods, PreBind(p) PROVE Held(q) /\ assumed[q].node = m /\ Grant(q)' = Grant(q)
  BY <1>4 DEF TypeOK, PreBind
<1>5. ASSUME NEW p \in Pods, Bind(p) PROVE Held(q) /\ assumed[q].node = m /\ Grant(q)' = Grant(q)
  <2>1. CASE q = p
    BY <1>5, <2>1, BindKeepsGrant DEF Bind
  <2>2. CASE q # p
    BY <1>5, <2>2 DEF TypeOK, Bind
  <2> QED
    BY <2>1, <2>2
<1>6. ASSUME NEW p \in Pods, BindingFails(p) PROVE Held(q) /\ assumed[q].node = m /\ Grant(q)' = Grant(q)
  BY <1>6 DEF TypeOK, BindingFails, Unreserve
<1>7. ASSUME NEW p \in Pods, PreBindReplyLost(p) PROVE Held(q) /\ assumed[q].node = m /\ Grant(q)' = Grant(q)
  BY <1>7 DEF TypeOK, PreBindReplyLost, Unreserve
<1>8. ASSUME NEW p \in Pods, ObserveBound(p) PROVE Held(q) /\ assumed[q].node = m /\ Grant(q)' = Grant(q)
  BY <1>8 DEF TypeOK, ObserveBound, Bookkeeping, apiVars
<1>9. ASSUME NEW p \in Pods, ObserveDeleted(p) PROVE Held(q) /\ assumed[q].node = m /\ Grant(q)' = Grant(q)
  BY <1>9 DEF TypeOK, ObserveDeleted, apiVars
<1>10. ASSUME NEW p \in Pods, Delete(p) PROVE Held(q) /\ assumed[q].node = m /\ Grant(q)' = Grant(q)
  BY <1>10 DEF TypeOK, Delete
<1>11. CASE cleanupAssumedPods
  BY <1>11 DEF cleanupAssumedPods, apiVars
<1>12. CASE Tick
  BY <1>12 DEF Tick, apiVars
<1>13. CASE Restart
  BY <1>13 DEF TypeOK, Restart, Bookkeeping, apiVars, InFlight
<1>14. CASE UNCHANGED vars
  BY <1>14 DEF vars, apiVars
<1> QED
  BY <1>1, <1>2, <1>3, <1>4, <1>5, <1>6, <1>7, <1>8, <1>9, <1>10, <1>11, <1>12, <1>13, <1>14 DEF Next

(* What Reserve adds to the node is the result that Filter found room for. *)
LEMMA ReserveKeepsRoom ==
    ASSUME TypeOK, TypeOK', Bookkeeping, Room, NoOvercommit, NEW n \in Nodes, Reserve(n)
    PROVE  Room' /\ NoOvercommit'
<1>1. /\ cur \in Pods /\ EndCycle /\ UNCHANGED apiVars /\ n \in fits /\ cur # NoPod
      /\ phase[cur] = "pending" /\ topologyResult[cur] = Empty
  BY DEF Reserve, TypeOK, Bookkeeping, InFlight
<1>2. Room'
  BY <1>1 DEF Room, EndCycle
<1> PICK c \in Pods : c = cur
  BY <1>1
<1>3. ~Held(c)
  BY <1>1 DEF Held
<1>4. \A p \in Pods \ {c} : (Held(p)' <=> Held(p)) /\ assumed'[p] = assumed[p] /\ Grant(p)' = Grant(p)
  BY <1>1 DEF Reserve, ReserveNothing, ReserveError, AssumePod, TypeOK, Held, Grant, apiVars
<1>5. leftover \subseteq leftover'
  BY DEF Reserve, ReserveNothing, ReserveError, AssumePod
<1> SUFFICES ASSUME NEW m \in Static \ leftover', NEW z \in Zones
             PROVE  Used(m, z)' <= Alloc[m][z]
  BY <1>2 DEF NoOvercommit
<1>6. m \in Static \ leftover /\ m \in Nodes /\ Used(m, z) <= Alloc[m][z] /\ Alloc[m][z] \in Nat
  BY <1>5, SetsAssumption, CPUAssumption DEF NoOvercommit
<1>7. CASE ~(Held(c)' /\ assumed'[c].node = m)
  <2>1. \A p \in Pods : Held(p)' /\ assumed'[p].node = m =>
               Held(p) /\ assumed[p].node = m /\ Grant(p)' = Grant(p)
    BY <1>4, <1>7
  <2>2. Used(m, z)' <= Used(m, z) /\ Used(m, z) \in Nat /\ Used(m, z)' \in Nat
    BY <2>1, UsedShrinks
  <2> QED
    BY <1>6, <2>2
<1>8. CASE Held(c)' /\ assumed'[c].node = m
  <2>1. Used(m, z)' <= Used(m, z) + Grant(c)'[z] /\ Used(m, z) \in Nat /\ Used(m, z)' \in Nat
    BY <1>3, <1>4, UsedAdds
  <2>4. CASE ReserveNothing(n)
    <3>1. Grant(c)'[z] = 0
      BY <1>1, <2>4 DEF ReserveNothing, Grant, TypeOK, Empty
    <3> QED
      BY <1>6, <2>1, <3>1
  <2>5. CASE ReserveError(n)
    BY <1>3, <1>8, <2>5 DEF ReserveError, Held
  <2>6. CASE AssumePod(n)
    <3>1. m = n /\ n \in DOMAIN byNode /\ Grant(c)'[z] = byNode[n][z]
      BY <1>1, <1>8, <2>6 DEF AssumePod, Grant, TypeOK, Placement
    <3>2. Used(m, z) + byNode[n][z] <= Alloc[m][z] /\ byNode[n][z] \in Nat
      BY <1>1, <1>6, <3>1 DEF Room, TypeOK, ZoneList
    <3> QED
      BY <1>6, <2>1, <3>1, <3>2
  <2> QED
    BY <2>4, <2>5, <2>6 DEF Reserve
<1> QED
  BY <1>7, <1>8

(* A result is noted only where it fits beside all that is used.           *)
LEMMA FilterFindsRoom ==
    ASSUME TypeOK, TypeOK', Visible, Room, NoOvercommit, NEW n \in Nodes, Filter(n),
           \A m \in Static \ leftover, z \in Zones : Used(m, z)' <= Used(m, z)
    PROVE  Room'
<1>1. /\ cur \in Pods /\ cur # NoPod /\ cur' = cur /\ leftover' = leftover
      /\ \/ byNode' = byNode
         \/ \E result \in assignTopologyResult(cur, n) :
               byNode' = [m \in DOMAIN byNode \cup {n} |-> IF m = n THEN result ELSE byNode[m]]
  BY DEF Filter, TypeOK
<1> SUFFICES ASSUME NEW m \in DOMAIN byNode' \cap (Static \ leftover), NEW z \in Zones
             PROVE  Used(m, z)' + byNode'[m][z] <= Alloc[m][z]
  BY <1>1 DEF Room
<1>2. /\ Used(m, z) \in Nat /\ Used(m, z)' \in Nat /\ Used(m, z)' <= Used(m, z)
      /\ m \in Nodes /\ Alloc[m][z] \in Nat /\ byNode'[m][z] \in Nat
  <2>1. Used(m, z) \in Nat
    BY UsedType
  <2>2. UNCHANGED <<phase, api, assumed, topologyResult>>
    BY DEF Filter, apiVars
  <2>3. Used(m, z)' = Used(m, z)
    BY <2>2 DEF Used, HeldPods, Held, Grant, Total, Units
  <2> QED
    BY <2>1, <2>3, SetsAssumption, CPUAssumption DEF TypeOK, ZoneList
<1>3. CASE m \in DOMAIN byNode /\ byNode'[m] = byNode[m]
  <2>1. Used(m, z) + byNode[m][z] <= Alloc[m][z]
    BY <1>1, <1>3 DEF Room
  <2> QED
    BY <1>2, <1>3, <2>1
<1>4. CASE ~(m \in DOMAIN byNode /\ byNode'[m] = byNode[m])
  <2>1. PICK r \in assignTopologyResult(cur, n) :
            byNode' = [k \in DOMAIN byNode \cup {n} |-> IF k = n THEN r ELSE byNode[k]]
    BY <1>1, <1>4
  <2>2. m = n /\ byNode'[m] = r
    BY <1>4, <2>1
  <2>3. r \in ZoneList /\ (r[z] = 0 \/ r[z] <= Free(m, z))
    BY <1>1, <2>2, ResultFits
  <2>4. Used(m, z) <= Requested(m, z) /\ Used(m, z) <= Alloc[m][z]
    BY <1>1, UsedRequested DEF NoOvercommit
  <2>5. Requested(m, z) \in Nat
    BY <1>2, RequestedType
  <2> QED
    BY <1>2, <2>2, <2>3, <2>4, <2>5 DEF Free
<1> QED
  BY <1>3, <1>4

(* Room and the bound of every zone are kept by every step.                *)
LEMMA RoomStep ==
    ASSUME TypeOK, TypeOK', Bookkeeping, Visible, Room, NoOvercommit, [Next]_vars
    PROVE  Room' /\ NoOvercommit'
<1>1. CASE \E n \in Nodes : Reserve(n)
  BY <1>1, ReserveKeepsRoom
<1>2. CASE \A n \in Nodes : ~Reserve(n)
  <2>1. ASSUME NEW m \in Static, NEW z \in Zones
        PROVE  Used(m, z)' <= Used(m, z) /\ Used(m, z) \in Nat /\ Used(m, z)' \in Nat
    <3>1. \A q \in Pods : Held(q)' /\ assumed'[q].node = m =>
              Held(q) /\ assumed[q].node = m /\ Grant(q)' = Grant(q)
      BY <1>2, OthersShrink
    <3> QED
      BY <3>1, UsedShrinks
  <2>2. leftover' = leftover
    BY <1>2 DEF Next, vars, PreFilter, Filter, FitError, PreBind, Bind, BindingFails, Unreserve,
                PreBindReplyLost, ObserveBound, ObserveDeleted, Delete, cleanupAssumedPods, Tick, Restart
  <2>3. NoOvercommit'
    <3> SUFFICES ASSUME NEW m \in Static \ leftover, NEW z \in Zones
                 PROVE  Used(m, z)' <= Alloc[m][z]
      BY <2>2 DEF NoOvercommit
    <3>1. Used(m, z) <= Alloc[m][z] /\ Alloc[m][z] \in Nat
      BY SetsAssumption, CPUAssumption DEF NoOvercommit
    <3> QED
      BY <2>1, <3>1
  <2>4. ASSUME NEW n \in Nodes, Filter(n) PROVE Room'
    BY <2>1, <2>4, FilterFindsRoom
  <2>5. CASE cur' = NoPod \/ DOMAIN byNode' = {}
    BY <2>3, <2>5 DEF Room
  <2>6. CASE cur' = cur /\ byNode' = byNode
    <3> SUFFICES ASSUME cur # NoPod, NEW m \in DOMAIN byNode \cap (Static \ leftover), NEW z \in Zones
                 PROVE  Used(m, z)' + byNode[m][z] <= Alloc[m][z]
      BY <2>2, <2>3, <2>6 DEF Room
    <3>1. Used(m, z) + byNode[m][z] <= Alloc[m][z] /\ Alloc[m][z] \in Nat /\ byNode[m][z] \in Nat
      BY SetsAssumption, CPUAssumption DEF Room, TypeOK, ZoneList
    <3> QED
      BY <2>1, <3>1
  <2>7. \/ \E n \in Nodes : Filter(n)
        \/ cur' = NoPod \/ DOMAIN byNode' = {}
        \/ cur' = cur /\ byNode' = byNode
    <3>1. ASSUME NEW p \in Pods, PreFilter(p) PROVE DOMAIN byNode' = {}
      BY <3>1 DEF PreFilter, Bookkeeping
    <3>2. CASE FitError \/ Restart
      BY <3>2 DEF FitError, Restart, EndCycle
    <3>3. CASE Tick \/ cleanupAssumedPods \/ UNCHANGED vars
      BY <3>3 DEF Tick, cleanupAssumedPods, vars, cycleVars
    <3>4. ASSUME NEW p \in Pods,
                 \/ PreBind(p) \/ Bind(p) \/ BindingFails(p) \/ PreBindReplyLost(p)
                 \/ ObserveBound(p) \/ ObserveDeleted(p) \/ Delete(p)
          PROVE  cur' = cur /\ byNode' = byNode
      BY <3>4 DEF PreBind, Bind, BindingFails, PreBindReplyLost, Unreserve,
                  ObserveBound, ObserveDeleted, Delete, cycleVars
    <3> QED
      BY <1>2, <3>1, <3>2, <3>3, <3>4 DEF Next
  <2> QED
    BY <2>3, <2>4, <2>5, <2>6, <2>7
<1> QED
  BY <1>1, <1>2

(* The invariant is inductive.                                             *)
THEOREM Inductive == Spec => []IndInv
<1>1. Init => IndInv
  <2> SUFFICES ASSUME Init
               PROVE  IndInv
    OBVIOUS
  <2>1. TypeOK
    BY EmptyType, TTLAssumption DEF Init, TypeOK, Phase, NoResults
  <2>2. Bookkeeping
    BY SetsAssumption DEF Init, Bookkeeping, InFlight, NoResults, Unplaced
  <2>3. Visible /\ Fresh /\ Room
    BY DEF Init, Visible, Fresh, Room, CacheNeeded, Held
  <2>4. NoOvercommit
    <3> SUFFICES ASSUME NEW n \in Static, NEW z \in Zones
                 PROVE  Used(n, z) <= Alloc[n][z]
      BY DEF NoOvercommit
    <3>1. Units(HeldPods(n), [p \in Pods |-> Grant(p)[z]]) = {}
      BY DEF Init, Units, HeldPods, Held
    <3>2. Used(n, z) = 0
      BY <3>1, FS_EmptySet, Zenon DEF Used, Total
    <3> QED
      BY <3>2, SetsAssumption, CPUAssumption
  <2> QED
    BY <2>1, <2>2, <2>3, <2>4 DEF IndInv
<1>2. IndInv /\ [Next]_vars => IndInv'
  <2> SUFFICES ASSUME IndInv, [Next]_vars
               PROVE  IndInv'
    OBVIOUS
  <2>1. TypeOK /\ Bookkeeping /\ Visible /\ Fresh /\ Room /\ NoOvercommit
    BY DEF IndInv
  <2>2. TypeOK'
    BY <2>1, TypeStep
  <2>3. Bookkeeping'
    BY <2>1, <2>2, BookkeepingStep
  <2>4. Visible'
    BY <2>1, <2>2, VisibleStep
  <2>5. Fresh'
    BY <2>1, <2>2, FreshStep
  <2>6. Room' /\ NoOvercommit'
    BY <2>1, <2>2, RoomStep
  <2> QED
    BY <2>2, <2>3, <2>4, <2>5, <2>6 DEF IndInv
<1> QED
  BY <1>1, <1>2, PTL DEF Spec

(* No zone is promised to more pods than it has CPUs for, except on nodes  *)
(* where a pod was assumed under another result's annotation: whatever the *)
(* framework, the informer, the users and restarts do, as long as binding  *)
(* takes no longer than the life of a cache entry.                         *)
THEOREM ZonesNotOvercommitted == Spec => []NoOvercommit
<1>1. IndInv => NoOvercommit
  BY DEF IndInv
<1> QED
  BY <1>1, Inductive, PTL

(* AssumePod never finds the pod it adds in the cache.                     *)
THEOREM AssumePodNeverFails == Spec => []PendingNotCached
<1>1. IndInv => PendingNotCached
  BY DEF IndInv, Bookkeeping, PendingNotCached, InFlight
<1> QED
  BY <1>1, Inductive, PTL

-----------------------------------------------------------------------------
(* The plugin implements CPUReservation.                                   *)

(* What the reservation counts as taken of a zone is what pods use of it.  *)
LEMMA TakenIsUsed ==
    ASSUME NEW n \in Nodes, n \in Static \ leftover, NEW z \in Zones
    PROVE  Reservation!Taken(n, z) = Used(n, z)
<1> DEFINE x == [p \in Pods |-> Grant(p)[z]]
           T == UNION {{p} \X (1..Granted[p][n][z]) : p \in Pods}
<1>1. \A p \in Pods : p \in HeldPods(n) => Granted[p][n][z] = x[p]
  BY DEF Granted, HeldPods
<1>2. \A p \in Pods : p \notin HeldPods(n) => Granted[p][n][z] = 0
  BY DEF Granted, HeldPods, Empty
<1>3. T = Units(HeldPods(n), x)
  <2> HIDE DEF x
  <2>1. HeldPods(n) \subseteq Pods
    BY DEF HeldPods
  <2>2. \A p \in Pods \ HeldPods(n) : 1..Granted[p][n][z] = {}
    BY <1>2
  <2>3. \A p \in Pods : p \in HeldPods(n) => {p} \X (1..Granted[p][n][z]) = {p} \X (1..x[p])
    BY <1>1
  <2>4. ASSUME NEW u, NEW p \in Pods, u \in {p} \X (1..Granted[p][n][z])
        PROVE  p \in HeldPods(n)
    BY <2>2, <2>4
  <2> QED
    BY <2>1, <2>3, <2>4 DEF Units
<1>4. Used(n, z) = Cardinality(Units(HeldPods(n), x))
  BY DEF Used, Total
<1>5. Reservation!Taken(n, z) = Cardinality(T)
  BY Zenon DEF Reservation!Taken, Reservation!Cardinality, Cardinality
<1> HIDE DEF x, T
<1> QED
  BY <1>3, <1>4, <1>5, Zenon

(* A pod that takes nothing new keeps its grant, or has none.              *)
LEMMA GrantKeptOrGiven ==
    ASSUME NEW p \in Pods, leftover \subseteq leftover',
           (Held(p)' /\ assumed'[p].node \in Static \ leftover') =>
               \/ Held(p) /\ assumed[p].node = assumed'[p].node /\ Grant(p)' = Grant(p)
               \/ Grant(p)' = Empty
    PROVE  Granted'[p] \in {Reservation!NoGrant, Granted[p]}
<1>1. Granted'[p] = [n \in Nodes |->
          IF Held(p)' /\ assumed'[p].node = n /\ n \in Static \ leftover' THEN Grant(p)' ELSE Empty]
  BY DEF Granted
<1>2. Granted[p] = [n \in Nodes |->
          IF Held(p) /\ assumed[p].node = n /\ n \in Static \ leftover THEN Grant(p) ELSE Empty]
  BY DEF Granted
<1>3. Reservation!NoGrant = [n \in Nodes |-> Empty]
  BY DEF Reservation!NoGrant, Reservation!NoCPU, Empty
<1>4. CASE Held(p)' /\ assumed'[p].node \in Static \ leftover' /\ Grant(p)' # Empty
  <2>1. Held(p) /\ assumed[p].node = assumed'[p].node /\ Grant(p)' = Grant(p)
    BY <1>4
  <2>2. assumed[p].node \in Static \ leftover
    BY <1>4, <2>1
  <2> QED
    BY <1>1, <1>2, <1>4, <2>1, <2>2
<1>5. CASE ~(Held(p)' /\ assumed'[p].node \in Static \ leftover' /\ Grant(p)' # Empty)
  <2>1. \A n \in Nodes : (IF Held(p)' /\ assumed'[p].node = n /\ n \in Static \ leftover'
                          THEN Grant(p)' ELSE Empty) = Empty
    BY <1>5
  <2> QED
    BY <1>1, <1>3, <2>1
<1> QED
  BY <1>4, <1>5

(* When every pod keeps its grant or has none, some gave theirs back.      *)
LEMMA ReleaseStep ==
    ASSUME \A p \in Pods : Granted'[p] \in {Reservation!NoGrant, Granted[p]}
    PROVE  \E S \in SUBSET Pods : Reservation!Release(S)
<1> DEFINE S == {p \in Pods : Granted'[p] # Granted[p]}
<1>1. Granted' = [p \in Pods |-> Granted'[p]]
  BY DEF Granted
<1>2. Granted' = [p \in Pods |-> IF p \in S THEN Reservation!NoGrant ELSE Granted[p]]
  BY <1>1
<1> QED
  BY <1>2 DEF Reservation!Release

(* Reserve takes a grant out of free CPUs, or leaves the grants alone.     *)
LEMMA ReserveReserves ==
    ASSUME IndInv, NEW n \in Nodes, Reserve(n)
    PROVE  Reservation!Next
<1>1. /\ TypeOK /\ Bookkeeping /\ Room
      /\ cur \in Pods /\ cur # NoPod /\ phase[cur] = "pending" /\ topologyResult[cur] = Empty
      /\ UNCHANGED apiVars
  BY DEF IndInv, Reserve, TypeOK, Bookkeeping, InFlight
<1> PICK c \in Pods : c = cur
  BY <1>1
<1>2. \A p \in Pods \ {c} : (Held(p)' <=> Held(p)) /\ assumed'[p] = assumed[p] /\ Grant(p)' = Grant(p)
  BY <1>1 DEF Reserve, ReserveNothing, ReserveError, AssumePod, TypeOK, Held, Grant, apiVars
<1>3. leftover \subseteq leftover'
  BY DEF Reserve, ReserveNothing, ReserveError, AssumePod
<1>4. \A p \in Pods \ {c} : Granted'[p] \in {Reservation!NoGrant, Granted[p]}
  BY <1>2, <1>3, GrantKeptOrGiven
<1>5. CASE (Held(c)' /\ assumed'[c].node \in Static \ leftover') => Grant(c)' = Empty
  <2>1. Granted'[c] \in {Reservation!NoGrant, Granted[c]}
    BY <1>3, <1>5, GrantKeptOrGiven
  <2> QED
    BY <1>4, <2>1, ReleaseStep DEF Reservation!Next
<1>6. CASE Held(c)' /\ assumed'[c].node \in Static \ leftover' /\ Grant(c)' # Empty
  <2>1. AssumePod(n)
    <3>1. CASE ReserveNothing(n)
      BY <1>1, <1>6, <3>1 DEF ReserveNothing, Grant, TypeOK
    <3>2. CASE ReserveError(n)
      BY <1>1, <1>6, <3>2 DEF ReserveError, Held
    <3> QED
      BY <3>1, <3>2 DEF Reserve
  <2> DEFINE g == byNode[n]
  <2>2. /\ n \in DOMAIN byNode /\ g \in ZoneList /\ assumed'[c].node = n /\ Grant(c)' = g
    BY <1>1, <2>1 DEF AssumePod, TypeOK, Grant, Placement
  <2>3. n \in Static \ leftover' /\ n \in Static \ leftover
    BY <1>3, <1>6, <2>2
  <2>4. leftover' = leftover
    BY <2>1, <2>3 DEF AssumePod
  <2>5. g \in Reservation!Fitting(n)
    <3>1. ASSUME NEW z \in Zones
          PROVE  /\ Reservation!Taken(n, z) + g[z] <= Alloc[n][z]
                 /\ g[z] \in 0..Alloc[n][z]
      <4>1. Used(n, z) + g[z] <= Alloc[n][z]
        BY <1>1, <2>2, <2>3 DEF Room
      <4>2. Used(n, z) \in Nat /\ g[z] \in Nat /\ Alloc[n][z] \in Nat
        BY <1>1, <2>2, UsedType, CPUAssumption DEF ZoneList
      <4>3. Reservation!Taken(n, z) = Used(n, z)
        BY <2>3, TakenIsUsed
      <4> HIDE DEF g
      <4> QED
        BY <4>1, <4>2, <4>3
    <3>2. g \in [Zones -> UNION {0..Alloc[n][z] : z \in Zones}]
      BY <2>2, <3>1 DEF ZoneList
    <3> HIDE DEF g
    <3> QED
      BY <3>1, <3>2 DEF Reservation!Fitting
  <2>6. Granted[c] = Reservation!NoGrant
    BY <1>1 DEF Granted, Held, Reservation!NoGrant, Reservation!NoCPU, Empty
  <2>7. Granted' = [Granted EXCEPT ![c][n] = g]
    <3>1. \A p \in Pods \ {c} : Granted'[p] = Granted[p]
      BY <1>2, <2>4 DEF Granted
    <3>2. Granted'[c] = [m \in Nodes |-> IF m = n THEN g ELSE Empty]
      <4>1. Granted'[c] = [m \in Nodes |->
                IF Held(c)' /\ assumed'[c].node = m /\ m \in Static \ leftover' THEN Grant(c)' ELSE Empty]
        BY DEF Granted
      <4> QED
        BY <1>6, <2>2, <2>3, <4>1
    <3>3. Granted[c] = [m \in Nodes |-> Empty]
      BY <2>6 DEF Reservation!NoGrant, Reservation!NoCPU, Empty
    <3>4. /\ Granted = [p \in Pods |-> Granted[p]]
          /\ Granted' = [p \in Pods |-> Granted'[p]]
      BY DEF Granted
    <3> HIDE DEF g
    <3> QED
      BY <3>1, <3>2, <3>3, <3>4
  <2> HIDE DEF g
  <2>8. Reservation!Reserve(c)
    BY <2>5, <2>6, <2>7 DEF Reservation!Reserve
  <2> QED
    BY <2>8 DEF Reservation!Next
<1> QED
  BY <1>5, <1>6

(* The plugin implements CPUReservation: Reserve is the only step that     *)
(* takes CPUs, and takes free ones; from there to the annotation of the    *)
(* bound pod every copy is the same grant, which other steps at most give  *)
(* back whole.                                                             *)
THEOREM PluginImplementsReservation == Spec => ImplementsReservation
<1>1. Init => Reservation!Init
  BY DEF Init, Reservation!Init, Reservation!NoGrant, Reservation!NoCPU, Granted, Held, Empty
<1>2. IndInv /\ IndInv' /\ [Next]_vars => [Reservation!Next]_Granted
  <2> SUFFICES ASSUME IndInv, IndInv', [Next]_vars
               PROVE  Reservation!Next
    OBVIOUS
  <2>1. CASE \E n \in Nodes : Reserve(n)
    BY <2>1, ReserveReserves
  <2>2. CASE \A n \in Nodes : ~Reserve(n)
    <3>1. TypeOK /\ TypeOK' /\ Bookkeeping
      BY DEF IndInv
    <3>2. leftover' = leftover
      BY <2>2 DEF Next, vars, PreFilter, Filter, FitError, PreBind, Bind, BindingFails, Unreserve,
                  PreBindReplyLost, ObserveBound, ObserveDeleted, Delete, cleanupAssumedPods, Tick, Restart
    <3>3. ASSUME NEW p \in Pods, Held(p)', assumed'[p].node \in Static \ leftover'
          PROVE  Held(p) /\ assumed[p].node = assumed'[p].node /\ Grant(p)' = Grant(p)
      BY <2>2, <3>1, <3>3, OthersShrink
    <3>4. \A p \in Pods : Granted'[p] \in {Reservation!NoGrant, Granted[p]}
      BY <3>2, <3>3, GrantKeptOrGiven
    <3> QED
      BY <3>4, ReleaseStep DEF Reservation!Next
  <2> QED
    BY <2>1, <2>2
<1> QED
  BY <1>1, <1>2, Inductive, PTL DEF Spec, ImplementsReservation, Reservation!Spec

-----------------------------------------------------------------------------
(***************************************************************************)
(* Zones of whole CPUs.                                                    *)
(***************************************************************************)

(* Least and greatest elements.                                            *)

(* Among finitely many numbered elements one has the least number and one  *)
(* the greatest.                                                           *)
LEMMA Extremes ==
    ASSUME NEW N \in Nat, NEW Z, NEW rank \in [Z -> 0..N], NEW S \in SUBSET Z, S # {}
    PROVE  /\ \E z \in S : \A y \in S : rank[z] <= rank[y]
           /\ \E z \in S : \A y \in S : rank[y] <= rank[z]
<1> DEFINE R == OpToRel(<, Nat)
<1>1. ASSUME NEW T \in SUBSET Nat, T # {}
      PROVE  \E m \in T : \A k \in T : m <= k
  <2>1. PICK m \in T : \A k \in T : ~(<<k, m>> \in R)
    <3>1. IsWellFoundedOn(R, Nat)
      BY NatLessThanWellFounded
    <3> HIDE DEF R
    <3> QED
      BY <1>1, <3>1, WFMin
  <2>2. \A k \in T : ~(k < m)
    BY <2>1 DEF OpToRel
  <2> QED
    BY <2>2
<1>2. \E z \in S : \A y \in S : rank[z] <= rank[y]
  <2> DEFINE T == {rank[z] : z \in S}
  <2>1. T \in SUBSET Nat /\ T # {}
    OBVIOUS
  <2>2. PICK m \in T : \A k \in T : m <= k
    <3> HIDE DEF T
    <3> QED
      BY <1>1, <2>1
  <2> QED
    BY <2>2
<1>3. \E z \in S : \A y \in S : rank[y] <= rank[z]
  <2> DEFINE T == {N - rank[z] : z \in S}
  <2>1. T \in SUBSET Nat /\ T # {}
    OBVIOUS
  <2>2. PICK m \in T : \A k \in T : m <= k
    <3> HIDE DEF T
    <3> QED
      BY <1>1, <2>1
  <2>3. PICK z \in S : m = N - rank[z]
    BY <2>2
  <2>4. ASSUME NEW y \in S
        PROVE  rank[y] <= rank[z]
    <3>1. N - rank[z] <= N - rank[y]
      BY <2>2, <2>3
    <3> QED
      BY <3>1
  <2> QED
    BY <2>4
<1> QED
  BY <1>2, <1>3

-----------------------------------------------------------------------------
(* More about sums of CPU units.                                           *)

(* Totals of disjoint sets add up.                                         *)
LEMMA TotalSplit ==
    ASSUME NEW S, IsFiniteSet(S), NEW T, IsFiniteSet(T), S \cap T = {},
           NEW x, \A e \in S \cup T : x[e] \in Int
    PROVE  /\ Total(S \cup T, x) = Total(S, x) + Total(T, x)
           /\ Total(S, x) \in Nat /\ Total(T, x) \in Nat
<1>1. Units(S \cup T, x) = Units(S, x) \cup Units(T, x)
  BY DEF Units
<1>2. Units(S, x) \cap Units(T, x) = {}
  BY DEF Units
<1>3. /\ IsFiniteSet(Units(S, x)) /\ Total(S, x) \in Nat
      /\ IsFiniteSet(Units(T, x)) /\ Total(T, x) \in Nat
  BY UnitsFinite
<1>4. Cardinality(Units(S, x) \cup Units(T, x))
          = Cardinality(Units(S, x)) + Cardinality(Units(T, x)) - Cardinality(Units(S, x) \cap Units(T, x))
  BY <1>3, FS_Union
<1>5. Cardinality(Units(S, x) \cap Units(T, x)) = 0
  BY <1>2, FS_EmptySet, Zenon
<1>6. Total(S \cup T, x) = Cardinality(Units(S, x) \cup Units(T, x))
  BY <1>1, Zenon DEF Total
<1>7. Total(S, x) = Cardinality(Units(S, x)) /\ Total(T, x) = Cardinality(Units(T, x))
  BY DEF Total
<1> QED
  BY <1>3, <1>4, <1>5, <1>6, <1>7

(* Only the positive amounts count.                                        *)
LEMMA TotalSame ==
    ASSUME NEW S, NEW x, NEW y,
           \A e \in S : x[e] \in Int /\ y[e] \in Int,
           \A e \in S : x[e] = y[e] \/ (x[e] <= 0 /\ y[e] <= 0)
    PROVE  Total(S, x) = Total(S, y)
<1>1. \A e \in S : 1..x[e] = 1..y[e]
  OBVIOUS
<1>2. Units(S, x) = Units(S, y)
  BY <1>1 DEF Units
<1> QED
  BY <1>2, Zenon DEF Total

(* The total of one element is its amount, if that is positive.            *)
LEMMA TotalOne ==
    ASSUME NEW e, NEW x, x[e] \in Int
    PROVE  Total({e}, x) = IF x[e] > 0 THEN x[e] ELSE 0
<1>1. Units({e}, x) = {e} \X (1..x[e])
  BY DEF Units
<1>2. IsFiniteSet({e}) /\ Cardinality({e}) = 1
  BY FS_Singleton
<1>3. IsFiniteSet(1..x[e]) /\ Cardinality(1..x[e]) = IF x[e] > 0 THEN x[e] ELSE 0
  BY FS_Interval
<1>4. Cardinality({e} \X (1..x[e])) = Cardinality({e}) * Cardinality(1..x[e])
  BY <1>2, <1>3, FS_Product
<1>5. Total({e}, x) = Cardinality({e} \X (1..x[e]))
  BY <1>1, Zenon DEF Total
<1> QED
  BY <1>2, <1>3, <1>4, <1>5

(* No positive amounts: a total of zero.                                   *)
LEMMA TotalZero ==
    ASSUME NEW S, NEW x, \A e \in S : x[e] \in Int /\ x[e] <= 0
    PROVE  Total(S, x) = 0
<1>1. \A e \in S : 1..x[e] = {}
  OBVIOUS
<1>2. Units(S, x) = {}
  BY <1>1 DEF Units
<1> QED
  BY <1>2, FS_EmptySet, Zenon DEF Total

(* What is covered by two amounts is no more than their totals.            *)
LEMMA TotalCovered ==
    ASSUME NEW S, IsFiniteSet(S), NEW x, NEW y, NEW w,
           \A e \in S : x[e] \in Nat /\ y[e] \in Nat /\ w[e] \in Int,
           \A e \in S : x[e] <= y[e] \/ x[e] <= w[e] + y[e]
    PROVE  Total(S, x) <= Total(S, y) + Total(S, w)
<1> DEFINE X == Units(S, x)
           Low == {u \in X : u[2] <= y[u[1]]}
           High == {u \in X : u[2] > y[u[1]]}
           shift == [u \in High |-> <<u[1], u[2] - y[u[1]]>>]
<1>1. /\ IsFiniteSet(X)
      /\ IsFiniteSet(Units(S, y)) /\ Total(S, y) \in Nat
      /\ IsFiniteSet(Units(S, w)) /\ Total(S, w) \in Nat
  BY UnitsFinite
<1>2. \A u \in X : u[1] \in S /\ u[2] \in 1..x[u[1]] /\ u = <<u[1], u[2]>>
  BY DEF Units
<1>3. Low \in SUBSET Units(S, y)
  <2> SUFFICES ASSUME NEW u \in Low
               PROVE  u \in Units(S, y)
    OBVIOUS
  <2>1. u[1] \in S /\ u[2] \in 1..y[u[1]] /\ u = <<u[1], u[2]>>
    BY <1>2
  <2> QED
    BY <2>1 DEF Units
<1>4. shift \in [High -> Units(S, w)]
  <2> SUFFICES ASSUME NEW u \in High
               PROVE  <<u[1], u[2] - y[u[1]]>> \in Units(S, w)
    OBVIOUS
  <2>1. u[1] \in S /\ u[2] - y[u[1]] \in 1..w[u[1]]
    BY <1>2
  <2> QED
    BY <2>1 DEF Units
<1>5. shift \in Injection(High, Units(S, w))
  <2>1. ASSUME NEW u \in High, NEW v \in High, shift[u] = shift[v]
        PROVE  u = v
    <3>1. u[1] = v[1] /\ u[2] - y[u[1]] = v[2] - y[v[1]]
      BY <2>1
    <3>2. u[2] \in Int /\ v[2] \in Int /\ y[u[1]] \in Int
      BY <1>2
    <3>3. u[2] = v[2]
      BY <3>1, <3>2
    <3> QED
      BY <1>2, <3>1, <3>3
  <2> HIDE DEF shift, High
  <2> QED
    BY <1>4, <2>1, Fun_IsInj
<1>6. /\ IsFiniteSet(Low) /\ Cardinality(Low) <= Total(S, y)
      /\ IsFiniteSet(High) /\ Cardinality(High) <= Total(S, w)
  <2> HIDE DEF shift, High, Low
  <2>1. IsFiniteSet(Low) /\ Cardinality(Low) <= Total(S, y)
    BY <1>1, <1>3, FS_Subset DEF Total
  <2>2. IsFiniteSet(High) /\ Cardinality(High) <= Total(S, w)
    BY <1>1, <1>5, FS_Injection DEF Total
  <2> QED
    BY <2>1, <2>2
<1>7. X = Low \cup High /\ Low \cap High = {}
  BY <1>2
<1> HIDE DEF X, Low, High
<1>8. Cardinality(Low \cup High) = Cardinality(Low) + Cardinality(High) - Cardinality(Low \cap High)
  BY <1>6, FS_Union
<1>9. Cardinality(Low \cap High) = 0
  BY <1>7, FS_EmptySet, Zenon
<1>10. Cardinality(Low) \in Nat /\ Cardinality(High) \in Nat
  BY <1>6, FS_CardinalityType
<1>11. Total(S, x) = Cardinality(X)
  BY DEF Total, X
<1> QED
  BY <1>1, <1>6, <1>7, <1>8, <1>9, <1>10, <1>11

(* Summing over the zones what all the elements take there is summing over *)
(* the elements what each takes in all the zones: f[z][e] units are taken  *)
(* by e in z, a[z] in all of the zone, and no more than b[e] by e.         *)
LEMMA TotalExchange ==
    ASSUME NEW Z, IsFiniteSet(Z), NEW P, IsFiniteSet(P), NEW f, NEW g, NEW a, NEW b,
           \A z \in Z, e \in P : f[z][e] \in Nat /\ g[e][z] = f[z][e],
           \A z \in Z : a[z] = Total(P, f[z]),
           \A e \in P : b[e] \in Nat /\ Total(Z, g[e]) <= b[e]
    PROVE  Total(Z, a) <= Total(P, b)
<1> DEFINE In(z) == Units(P, f[z])
           Of(e) == Units(Z, g[e])
           pick == [z \in Z |-> CHOOSE h : h \in Injection(1..a[z], In(z))]
           num == [e \in P |-> CHOOSE h : h \in Injection(Of(e), 1..b[e])]
<1>1. ASSUME NEW z \in Z
      PROVE  a[z] \in Nat /\ pick[z] \in Injection(1..a[z], In(z))
  <2>1. IsFiniteSet(In(z)) /\ Total(P, f[z]) \in Nat
    BY UnitsFinite
  <2>2. a[z] = Cardinality(In(z))
    BY DEF Total
  <2>3. ExistsBijection(1..a[z], In(z))
    BY <2>1, <2>2, FS_CardinalityType
  <2>4. \E h : h \in Injection(1..a[z], In(z))
    BY <2>3 DEF ExistsBijection, Bijection
  <2> QED
    BY <2>1, <2>4
<1>2. ASSUME NEW e \in P
      PROVE  num[e] \in Injection(Of(e), 1..b[e])
  <2> DEFINE N == Cardinality(Of(e))
  <2>1. IsFiniteSet(Of(e)) /\ Total(Z, g[e]) \in Nat
    BY UnitsFinite
  <2>2. N \in Nat /\ N <= b[e] /\ b[e] \in Nat
    BY <2>1 DEF Total
  <2>3. ExistsBijection(1..N, Of(e))
    BY <2>1, FS_CardinalityType
  <2> HIDE DEF N, Of
  <2>4. PICK h : h \in Bijection(Of(e), 1..N)
    <3>1. PICK k : k \in Bijection(1..N, Of(e))
      BY <2>3 DEF ExistsBijection
    <3> QED
      BY <3>1, Fun_BijInverse
  <2>5. h \in [Of(e) -> 1..b[e]] /\ \A u, v \in Of(e) : h[u] = h[v] => u = v
    <3>1. h \in [Of(e) -> 1..N] /\ \A u, v \in Of(e) : h[u] = h[v] => u = v
      BY <2>4 DEF Bijection, Injection, IsInjective
    <3>2. \A i \in 1..N : i \in 1..b[e]
      BY <2>2
    <3> QED
      BY <3>1, <3>2
  <2>6. h \in Injection(Of(e), 1..b[e])
    BY <2>5, Fun_IsInj
  <2> QED
    BY <2>6
<1> DEFINE elem(u) == pick[u[1]][u[2]]
           F == [u \in Units(Z, a) |-> <<elem(u)[1], num[elem(u)[1]][<<u[1], elem(u)[2]>>]>>]
<1>3. ASSUME NEW u \in Units(Z, a)
      PROVE  /\ u[1] \in Z /\ u[2] \in 1..a[u[1]] /\ u = <<u[1], u[2]>>
             /\ elem(u) \in In(u[1])
             /\ elem(u)[1] \in P
             /\ elem(u) = <<elem(u)[1], elem(u)[2]>>
             /\ <<u[1], elem(u)[2]>> \in Of(elem(u)[1])
  <2>1. u[1] \in Z /\ u[2] \in 1..a[u[1]] /\ u = <<u[1], u[2]>>
    BY DEF Units
  <2>2. elem(u) \in In(u[1])
    <3> HIDE DEF pick, In
    <3> QED
      BY <1>1, <2>1, Fun_InjectionProperties
  <2> HIDE DEF elem
  <2>3. elem(u)[1] \in P /\ elem(u)[2] \in 1..f[u[1]][elem(u)[1]] /\ elem(u) = <<elem(u)[1], elem(u)[2]>>
    BY <2>2 DEF Units
  <2>4. elem(u)[2] \in 1..g[elem(u)[1]][u[1]]
    BY <2>1, <2>3
  <2>5. <<u[1], elem(u)[2]>> \in Of(elem(u)[1])
    BY <2>1, <2>4 DEF Units
  <2> QED
    BY <2>1, <2>2, <2>3, <2>5
<1>4. F \in [Units(Z, a) -> Units(P, b)]
  <2> SUFFICES ASSUME NEW u \in Units(Z, a)
               PROVE  <<elem(u)[1], num[elem(u)[1]][<<u[1], elem(u)[2]>>]>> \in Units(P, b)
    BY Zenon
  <2> HIDE DEF elem, num, Of
  <2>1. num[elem(u)[1]][<<u[1], elem(u)[2]>>] \in 1..b[elem(u)[1]]
    BY <1>2, <1>3, Fun_InjectionProperties
  <2> QED
    BY <1>3, <2>1 DEF Units
<1>5. ASSUME NEW u \in Units(Z, a), NEW v \in Units(Z, a), F[u] = F[v]
      PROVE  u = v
  <2>1. /\ elem(u)[1] = elem(v)[1]
        /\ num[elem(u)[1]][<<u[1], elem(u)[2]>>] = num[elem(v)[1]][<<v[1], elem(v)[2]>>]
    <3> HIDE DEF elem, num
    <3> QED
      BY <1>5
  <2>2. <<u[1], elem(u)[2]>> = <<v[1], elem(v)[2]>>
    <3> HIDE DEF elem, num, Of
    <3>1. /\ <<u[1], elem(u)[2]>> \in Of(elem(u)[1])
          /\ <<v[1], elem(v)[2]>> \in Of(elem(u)[1])
          /\ num[elem(u)[1]] \in Injection(Of(elem(u)[1]), 1..b[elem(u)[1]])
      BY <1>2, <1>3, <2>1
    <3> QED
      BY <2>1, <3>1, Fun_InjectionProperties
  <2>3. u[1] = v[1] /\ elem(u) = elem(v)
    <3> HIDE DEF elem
    <3> QED
      BY <1>3, <2>1, <2>2
  <2>4. u[2] = v[2]
    <3>1. pick[u[1]][u[2]] = pick[u[1]][v[2]] /\ u[2] \in 1..a[u[1]] /\ v[2] \in 1..a[u[1]] /\ u[1] \in Z
      <4> HIDE DEF pick
      <4> QED
        BY <1>3, <2>3
    <3> HIDE DEF pick, In
    <3>2. pick[u[1]] \in Injection(1..a[u[1]], In(u[1]))
      BY <1>1, <3>1
    <3> QED
      BY <3>1, <3>2 DEF Injection, IsInjective
  <2> QED
    BY <1>3, <2>3, <2>4
<1> HIDE DEF F
<1>6. F \in Injection(Units(Z, a), Units(P, b))
  BY <1>4, <1>5, Fun_IsInj
<1>7. IsFiniteSet(Units(P, b))
  <2>1. \A e \in P : b[e] \in Int
    OBVIOUS
  <2> QED
    BY <2>1, UnitsFinite
<1> QED
  BY <1>6, <1>7, FS_Injection DEF Total

-----------------------------------------------------------------------------
(* What assignTopologyResult gives in all.                                 *)

(* The loop over the zones gives the whole request when the zones have as  *)
(* much free: up to the last zone that something is left for, every zone   *)
(* gives all it has, that one gives the rest, and the others nothing.      *)
LEMMA LoopGivesAll ==
    ASSUME IsFiniteSet(Zones), NEW N \in Nat, NEW rank \in [Zones -> 1..N],
           \A y, z \in Zones : y # z => rank[y] # rank[z],
           NEW req \in Nat \ {0}, NEW w, \A z \in Zones : w[z] \in Int,
           Total(Zones, w) >= req,
           NEW s,
           \A z \in Zones :
               s[z] = Assigned(req - Total({y \in Zones : rank[y] < rank[z]}, w), w[z])
    PROVE  Total(Zones, s) = req
<1> DEFINE before(z) == {y \in Zones : rank[y] < rank[z]}
           after(z) == {y \in Zones : rank[z] < rank[y]}
           upto(z) == before(z) \cup {z}
           given(z) == IF w[z] > 0 THEN w[z] ELSE 0
           S == {z \in Zones : Total(before(z), w) < req}
<1>1. \A z \in Zones : rank[z] \in Nat
  OBVIOUS
<1>2. ASSUME NEW T \in SUBSET Zones
      PROVE  IsFiniteSet(T) /\ Total(T, w) \in Nat
  <2>1. IsFiniteSet(T)
    BY FS_Subset
  <2> QED
    BY <2>1, UnitsFinite
<1>3. ASSUME NEW z \in Zones
      PROVE  Total(upto(z), w) = Total(before(z), w) + given(z) /\ Total(before(z), w) \in Nat
  <2>1. before(z) \cap {z} = {} /\ before(z) \in SUBSET Zones /\ {z} \in SUBSET Zones
    BY <1>1
  <2> HIDE DEF before
  <2>2. IsFiniteSet(before(z)) /\ IsFiniteSet({z}) /\ Total(before(z), w) \in Nat
    BY <1>2, <2>1
  <2>3. \A e \in before(z) \cup {z} : w[e] \in Int
    BY <2>1
  <2>4. Total(upto(z), w) = Total(before(z), w) + Total({z}, w)
    BY <2>1, <2>2, <2>3, TotalSplit
  <2>5. Total({z}, w) = given(z)
    BY TotalOne
  <2> QED
    BY <2>2, <2>4, <2>5
<1>4. S # {}
  <2>1. Zones # {}
    <3> SUFFICES ASSUME Zones = {}
                 PROVE  FALSE
      OBVIOUS
    <3>1. Total(Zones, w) = 0
      BY TotalZero
    <3> QED
      BY <3>1
  <2>2. PICK z \in Zones : \A y \in Zones : rank[z] <= rank[y]
    BY <2>1, Extremes, SMTT(30)
  <2>3. before(z) = {}
    BY <1>1, <2>2
  <2>4. Total(before(z), w) = 0
    BY <2>3, TotalZero
  <2> QED
    BY <2>4
<1>5. PICK c \in S : \A y \in S : rank[y] <= rank[c]
  <2>1. S \in SUBSET Zones
    OBVIOUS
  <2> HIDE DEF S
  <2> QED
    BY <1>4, <2>1, Extremes
<1>6. c \in Zones /\ Total(before(c), w) < req /\ Total(before(c), w) \in Nat
  BY <1>2, <1>5
<1>7. Total(upto(c), w) >= req
  <2> SUFFICES ASSUME Total(upto(c), w) < req
               PROVE  FALSE
    <3>1. upto(c) \in SUBSET Zones
      BY <1>6
    <3>2. Total(upto(c), w) \in Nat
      BY <1>2, <3>1
    <3> QED
      BY <3>2
  <2>1. CASE after(c) = {}
    <3>1. upto(c) = Zones
      BY <1>1, <1>6, <2>1
    <3>2. Total(upto(c), w) = Total(Zones, w) /\ Total(Zones, w) \in Nat
      BY <1>2, <3>1
    <3> QED
      BY <3>2
  <2>2. CASE after(c) # {}
    <3>1. PICK d \in after(c) : \A y \in after(c) : rank[d] <= rank[y]
      <4>1. after(c) \in SUBSET Zones
        OBVIOUS
      <4> HIDE DEF after
      <4> QED
        BY <2>2, <4>1, Extremes
    <3>2. before(d) = upto(c)
      BY <1>1, <1>6, <3>1
    <3>3. d \in S
      BY <3>2
    <3> QED
      BY <1>1, <1>5, <1>6, <3>1, <3>3
  <2> QED
    BY <2>1, <2>2
<1>8. s[c] = req - Total(before(c), w) /\ s[c] \in Nat
  <2>1. given(c) >= req - Total(before(c), w) /\ req - Total(before(c), w) > 0
    BY <1>3, <1>6, <1>7
  <2>2. s[c] = Assigned(req - Total(before(c), w), w[c])
    BY <1>6
  <2> HIDE DEF before
  <2> QED
    BY <1>6, <2>1, <2>2 DEF Assigned
<1>9. ASSUME NEW y \in before(c)
      PROVE  s[y] = given(y)
  <2>1. y \in Zones /\ upto(y) \in SUBSET before(c)
    BY <1>1, <1>6
  <2>2. IsFiniteSet(before(c)) /\ \A e \in before(c) : w[e] \in Int
    BY <1>2
  <2>3. Total(upto(y), w) <= Total(before(c), w)
    <3> HIDE DEF before, upto
    <3> QED
      BY <2>1, <2>2, TotalMono
  <2>4. s[y] = Assigned(req - Total(before(y), w), w[y]) /\ w[y] \in Int
    BY <2>1
  <2>5. Total(upto(y), w) = Total(before(y), w) + given(y) /\ Total(before(y), w) \in Nat
    BY <1>3, <2>1
  <2> HIDE DEF before, upto
  <2>6. given(y) < req - Total(before(y), w)
    BY <1>6, <2>3, <2>4, <2>5
  <2> QED
    BY <2>4, <2>5, <2>6 DEF Assigned
<1>10. ASSUME NEW y \in after(c)
       PROVE  s[y] = 0
  <2>1. y \in Zones /\ y \notin S
    BY <1>1, <1>5, <1>6
  <2>2. ~(Total(before(y), w) < req) /\ Total(before(y), w) \in Nat
    BY <1>2, <2>1
  <2>3. s[y] = Assigned(req - Total(before(y), w), w[y]) /\ w[y] \in Int
    BY <2>1
  <2> HIDE DEF before
  <2> QED
    BY <2>2, <2>3 DEF Assigned
<1>11. Total(before(c), s) = Total(before(c), w)
  <2>1. \A y \in before(c) : w[y] \in Int
    OBVIOUS
  <2> HIDE DEF before
  <2>2. \A y \in before(c) : s[y] \in Int /\ (s[y] = w[y] \/ (s[y] <= 0 /\ w[y] <= 0))
    BY <1>9, <2>1
  <2> QED
    BY <2>1, <2>2, TotalSame
<1>12. Total(after(c), s) = 0
  <2> HIDE DEF after
  <2>1. \A y \in after(c) : s[y] \in Int /\ s[y] <= 0
    BY <1>10
  <2> QED
    BY <2>1, TotalZero
<1>13. /\ Zones = (before(c) \cup {c}) \cup after(c)
       /\ (before(c) \cup {c}) \cap after(c) = {}
       /\ before(c) \cap {c} = {}
       /\ before(c) \in SUBSET Zones /\ after(c) \in SUBSET Zones /\ {c} \in SUBSET Zones
  BY <1>1, <1>6
<1>14. \A y \in Zones : s[y] \in Int
  <2>1. \A y \in before(c) : s[y] \in Int
    BY <1>9
  <2> HIDE DEF before, after
  <2> QED
    BY <1>8, <1>10, <1>13, <2>1
<1>15. /\ IsFiniteSet(before(c)) /\ IsFiniteSet(after(c)) /\ IsFiniteSet({c})
       /\ IsFiniteSet(before(c) \cup {c})
  <2> HIDE DEF before, after
  <2>1. before(c) \cup {c} \in SUBSET Zones
    BY <1>13
  <2> QED
    BY <1>2, <1>13, <2>1
<1> HIDE DEF before, after
<1>16. Total(before(c) \cup {c}, s) = Total(before(c), s) + Total({c}, s)
  <2>1. \A y \in before(c) \cup {c} : s[y] \in Int
    BY <1>13, <1>14
  <2>2. before(c) \cap {c} = {}
    BY <1>13
  <2> QED
    BY <1>15, <2>1, <2>2, TotalSplit
<1>17. Total((before(c) \cup {c}) \cup after(c), s) = Total(before(c) \cup {c}, s) + Total(after(c), s)
  <2>1. \A y \in (before(c) \cup {c}) \cup after(c) : s[y] \in Int
    BY <1>13, <1>14
  <2>2. (before(c) \cup {c}) \cap after(c) = {}
    BY <1>13
  <2> QED
    BY <1>15, <2>1, <2>2, TotalSplit, ZenonT(30)
<1>18. Total({c}, s) = s[c]
  BY <1>8, TotalOne
<1>19. Total(Zones, s) = Total((before(c) \cup {c}) \cup after(c), s)
  BY <1>13
<1> QED
  BY <1>6, <1>8, <1>11, <1>12, <1>16, <1>17, <1>18, <1>19

(* Whatever the zones have, the loop gives no more than the request.       *)
LEMMA LoopGivesNoMore ==
    ASSUME IsFiniteSet(Zones), NEW N \in Nat, NEW rank \in [Zones -> 1..N],
           \A y, z \in Zones : y # z => rank[y] # rank[z],
           NEW req \in Nat \ {0}, NEW w, \A z \in Zones : w[z] \in Int,
           NEW s,
           \A z \in Zones :
               s[z] = Assigned(req - Total({y \in Zones : rank[y] < rank[z]}, w), w[z])
    PROVE  Total(Zones, s) \in 0..req
<1> DEFINE g == [z \in Zones |-> IF w[z] > 0 THEN w[z] ELSE 0]
           before(z) == {y \in Zones : rank[y] < rank[z]}
<1>1. Total(Zones, w) \in Nat
  BY UnitsFinite
<1>2. \A z \in Zones : g[z] \in Int /\ (g[z] = w[z] \/ (g[z] <= 0 /\ w[z] <= 0))
  OBVIOUS
<1>3. ASSUME NEW z \in Zones
      PROVE  s[z] \in Int /\ s[z] <= g[z]
  <2>1. IsFiniteSet(before(z)) /\ \A y \in before(z) : w[y] \in Int
    BY FS_Subset
  <2> HIDE DEF before
  <2>2. Total(before(z), w) \in Nat
    BY <2>1, UnitsFinite
  <2>3. s[z] = Assigned(req - Total(before(z), w), w[z])
    BY DEF before
  <2> QED
    BY <2>2, <2>3 DEF Assigned
<1> HIDE DEF g
<1>4. Total(Zones, g) = Total(Zones, w)
  BY <1>2, TotalSame
<1>5. Total(Zones, s) <= Total(Zones, g) /\ Total(Zones, s) \in Nat
  BY <1>2, <1>3, TotalMono, UnitsFinite
<1>6. CASE Total(Zones, w) >= req
  <2>1. Total(Zones, s) = req
    BY <1>6, LoopGivesAll, SMTT(60)
  <2> QED
    BY <2>1
<1>7. CASE Total(Zones, w) < req
  BY <1>1, <1>4, <1>5, <1>7
<1> QED
  BY <1>1, <1>6, <1>7

(* A list with one zone amounts to what is in that zone.                   *)
LEMMA OneZoneTotal ==
    ASSUME NEW z \in Zones, NEW k \in Nat
    PROVE  Total(Zones, [Empty EXCEPT ![z] = k]) = k
<1> DEFINE x == [Empty EXCEPT ![z] = k]
           others == Zones \ {z}
<1>1. x[z] = k /\ \A y \in others : x[y] \in Int /\ x[y] <= 0
  BY DEF Empty
<1>2. others \cup {z} = Zones /\ z \notin others /\ IsFiniteSet(others)
  BY SetsAssumption, FS_Subset
<1> HIDE DEF x, others
<1>3. Total(others, x) = 0
  BY <1>1, TotalZero
<1>4. Total(others \cup {z}, x) = Total(others, x) + x[z]
  BY <1>1, <1>2, TotalAdd
<1>5. Total(others \cup {z}, x) = Total(Zones, x)
  BY <1>2
<1> QED
  BY <1>1, <1>3, <1>4, <1>5 DEF x

(* The zones of a node have at least as much free as the node has.         *)
LEMMA ZonesHaveRoom ==
    ASSUME WholeZones, TypeOK, NoneAbove, NEW p \in Pods, NEW n \in Static, NodeResourcesFit(p, n)
    PROVE  Request[p] <= Total(Zones, [z \in Zones |-> WholeFree(n, z)])
<1> DEFINE w == [z \in Zones |-> WholeFree(n, z)]
           a == [z \in Zones |-> Requested(n, z)]
           P == SnapPods(n)
           f == [z \in Zones |-> [q \in Pods |-> addPod(snap, q)[z]]]
           g == [q \in Pods |-> addPod(snap, q)]
<1>1. n \in Nodes /\ Alloc[n] \in [Zones -> Nat] /\ IsFiniteSet(Zones) /\ P \in SUBSET Pods /\ IsFiniteSet(P)
  BY SetsAssumption, CPUAssumption, FS_Subset DEF SnapPods
<1>2. \A z \in Zones : a[z] \in Nat /\ w[z] \in Int /\ w[z] = Alloc[n][z] - a[z]
  BY <1>1, RequestedType DEF WholeFree, WholeZones
<1>3. \A z \in Zones : a[z] = Total(P, f[z])
  BY DEF Requested
<1>4. \A z \in Zones, q \in P : f[z][q] \in Nat /\ g[q][z] = f[z][q]
  <2>1. \A q \in Pods : addPod(snap, q) \in ZoneList
    BY DEF TypeOK, addPod, Placement
  <2> QED
    BY <1>1, <2>1 DEF ZoneList
<1>5. \A q \in P : TotalCPU[q] \in Nat /\ Total(Zones, g[q]) <= TotalCPU[q]
  <2> SUFFICES ASSUME NEW q \in Pods
               PROVE  TotalCPU[q] \in Nat /\ Total(Zones, addPod(snap, q)) <= TotalCPU[q]
    BY <1>1
  <2>1. Total(Zones, addPod(snap, q)) <= Request[q]
    BY DEF NoneAbove, addPod
  <2>2. Total(Zones, addPod(snap, q)) \in Nat
    <3>1. addPod(snap, q) \in ZoneList
      BY DEF TypeOK, addPod, Placement
    <3>2. \A z \in Zones : addPod(snap, q)[z] \in Int
      BY <3>1 DEF ZoneList
    <3> QED
      BY <1>1, <3>2, UnitsFinite
  <2>3. Request[q] \in Nat /\ TotalCPU[q] \in Nat /\ Request[q] <= TotalCPU[q]
    BY CPUAssumption DEF WholeZones
  <2> QED
    BY <2>1, <2>2, <2>3
<1> HIDE DEF f, g
<1>6. Total(Zones, a) <= Total(P, TotalCPU)
  <2> HIDE DEF a, P
  <2> QED
    BY <1>1, <1>3, <1>4, <1>5, TotalExchange
<1> HIDE DEF a, w, P
<1>7. Total(Zones, Alloc[n]) <= Total(Zones, a) + Total(Zones, w)
  <2>1. \A z \in Zones : Alloc[n][z] \in Nat /\ a[z] \in Nat /\ w[z] \in Int
    BY <1>1, <1>2
  <2>2. \A z \in Zones : Alloc[n][z] <= a[z] \/ Alloc[n][z] <= w[z] + a[z]
    BY <1>2, <2>1
  <2> QED
    BY <1>1, <2>1, <2>2, TotalCovered
<1>8. /\ Total(Zones, Alloc[n]) \in Nat /\ Total(Zones, a) \in Nat /\ Total(Zones, w) \in Nat
      /\ Total(P, TotalCPU) \in Nat
  <2>1. /\ \A z \in Zones : Alloc[n][z] \in Int /\ a[z] \in Int /\ w[z] \in Int
        /\ \A q \in P : TotalCPU[q] \in Int
    BY <1>1, <1>2, <1>5
  <2>2. Total(Zones, Alloc[n]) \in Nat
    BY <1>1, <2>1, UnitsFinite
  <2>3. Total(Zones, a) \in Nat
    BY <1>1, <2>1, UnitsFinite
  <2>4. Total(Zones, w) \in Nat
    BY <1>1, <2>1, UnitsFinite
  <2>5. Total(P, TotalCPU) \in Nat
    BY <1>1, <2>1, UnitsFinite
  <2> QED
    BY <2>2, <2>3, <2>4, <2>5
<1>9. Total(P, TotalCPU) + TotalCPU[p] <= NodeAlloc[n]
  BY DEF NodeResourcesFit, P
<1>10. /\ NodeAlloc[n] \in Int /\ NodeAlloc[n] <= Total(Zones, Alloc[n])
       /\ TotalCPU[p] \in Nat /\ Request[p] <= TotalCPU[p] /\ Request[p] \in Nat
  BY CPUAssumption DEF WholeZones
<1>11. Request[p] <= Total(Zones, w)
  BY <1>6, <1>7, <1>8, <1>9, <1>10
<1> QED
  BY <1>11 DEF w

(* Filter notes a result for the whole request, in one zone for a pod that *)
(* is aware of the topology.                                               *)
LEMMA ResultAsRequested ==
    ASSUME WholeZones, TypeOK, NoneAbove, NEW p \in Pods, IsTarget(p), NEW n \in Static,
           NodeResourcesFit(p, n), NEW r \in assignTopologyResult(p, n)
    PROVE  AsRequested(p, n, r)
<1>1. n \in Nodes /\ Request[p] \in Nat \ {0} /\ IsFiniteSet(Zones)
  BY SetsAssumption, CPUAssumption DEF IsTarget
<1>2. CASE Aware(p, n)
  <2>1. PICK z \in FirstZones(p, n) : r = [Empty EXCEPT ![z] = Request[p]]
    BY <1>2 DEF assignTopologyResult
  <2>2. z \in Zones
    BY DEF FirstZones, FittingZones
  <2>3. Total(Zones, r) = Request[p]
    BY <1>1, <2>1, <2>2, OneZoneTotal
  <2>4. r[z] = Request[p]
    BY <2>1, <2>2 DEF Empty
  <2> QED
    BY <2>2, <2>3, <2>4 DEF AsRequested
<1>3. CASE ~Aware(p, n)
  <2> DEFINE w == [y \in Zones |-> WholeFree(n, y)]
  <2>1. PICK rank \in Ranks(n) : r = Spread(p, n, rank)
    BY <1>3 DEF assignTopologyResult
  <2>2. /\ Cardinality(Zones) \in Nat
        /\ rank \in [Zones -> 1..Cardinality(Zones)]
        /\ \A y, z \in Zones : y # z => rank[y] # rank[z]
    BY <1>1, FS_CardinalityType DEF Ranks
  <2>3. \A z \in Zones : w[z] \in Int
    BY <1>1, RequestedType
  <2>4. Total(Zones, w) >= Request[p]
    <3>1. Request[p] <= Total(Zones, w)
      BY ZonesHaveRoom
    <3>2. Total(Zones, w) \in Nat
      <4> HIDE DEF w
      <4> QED
        BY <1>1, <2>3, UnitsFinite
    <3> QED
      BY <1>1, <3>1, <3>2
  <2>5. \A z \in Zones :
            r[z] = Assigned(Request[p] - Total({y \in Zones : rank[y] < rank[z]}, w), w[z])
    BY <2>1 DEF Spread
  <2> HIDE DEF w
  <2>6. Total(Zones, r) = Request[p]
    BY <1>1, <2>2, <2>3, <2>4, <2>5, LoopGivesAll
  <2> QED
    BY <1>3, <2>6 DEF AsRequested
<1> QED
  BY <1>2, <1>3

(* Whatever the zones have, a result that is not empty is within the       *)
(* request, and all of it in one zone for a pod that is aware.             *)
LEMMA ResultWithinRequest ==
    ASSUME TypeOK, NEW p \in Pods, IsTarget(p), NEW n \in Nodes,
           NEW r \in assignTopologyResult(p, n), r # Empty
    PROVE  WithinRequest(p, n, r)
<1>1. Request[p] \in Nat \ {0} /\ IsFiniteSet(Zones)
  BY SetsAssumption, CPUAssumption DEF IsTarget
<1>2. CASE Aware(p, n)
  <2>1. PICK z \in FirstZones(p, n) : r = [Empty EXCEPT ![z] = Request[p]]
    BY <1>2 DEF assignTopologyResult
  <2>2. z \in Zones
    BY DEF FirstZones, FittingZones
  <2>3. Total(Zones, r) = Request[p]
    BY <1>1, <2>1, <2>2, OneZoneTotal
  <2>4. Total(Zones, r) <= Request[p]
    BY <1>1, <2>3
  <2>5. r[z] = Request[p]
    BY <2>1, <2>2 DEF Empty
  <2> QED
    BY <2>2, <2>4, <2>5 DEF WithinRequest
<1>3. CASE ~Aware(p, n)
  <2> DEFINE w == [y \in Zones |-> WholeFree(n, y)]
  <2>1. PICK rank \in Ranks(n) : r = Spread(p, n, rank)
    BY <1>3 DEF assignTopologyResult
  <2>2. /\ Cardinality(Zones) \in Nat
        /\ rank \in [Zones -> 1..Cardinality(Zones)]
        /\ \A y, z \in Zones : y # z => rank[y] # rank[z]
    BY <1>1, FS_CardinalityType DEF Ranks
  <2>3. \A z \in Zones : w[z] \in Int
    BY RequestedType
  <2>4. \A z \in Zones :
            r[z] = Assigned(Request[p] - Total({y \in Zones : rank[y] < rank[z]}, w), w[z])
    BY <2>1 DEF Spread
  <2> HIDE DEF w
  <2>5. Total(Zones, r) \in 0..Request[p]
    BY <1>1, <2>2, <2>3, <2>4, LoopGivesNoMore
  <2>6. Total(Zones, r) <= Request[p]
    BY <1>1, <2>5
  <2> QED
    BY <1>3, <2>6 DEF WithinRequest
<1> QED
  BY <1>2, <1>3

-----------------------------------------------------------------------------
(* A result on its way to the bound pod stays what it is.  G[p][n] is a    *)
(* set of lists that will do for the pod on the node.                      *)

(* If every result of Filter will do, then those noted in the cycle do.    *)
LEMMA NotedStep ==
    ASSUME TypeOK, TypeOK', Bookkeeping, [Next]_vars, NEW G,
           \A m \in DOMAIN byNode : byNode[m] \in G[cur][m],
           cur # NoPod => \A n \in Static : \A r \in assignTopologyResult(cur, n) :
               NodeResourcesFit(cur, n) /\ IsTarget(cur) => r \in G[cur][n]
    PROVE  \A m \in DOMAIN byNode' : byNode'[m] \in G[cur'][m]
<1>2. ASSUME NEW n \in Nodes, Filter(n)
      PROVE  \A m \in DOMAIN byNode' : byNode'[m] \in G[cur'][m]
  <2>1. cur # NoPod /\ cur' = cur
    BY <1>2 DEF Filter
  <2>2. CASE byNode' = byNode
    BY <2>1, <2>2
  <2>3. CASE byNode' # byNode
    <3>1. PICK r \in assignTopologyResult(cur, n) :
              /\ byNode' = [m \in DOMAIN byNode \cup {n} |-> IF m = n THEN r ELSE byNode[m]]
              /\ NodeResourcesFit(cur, n) /\ IsTarget(cur) /\ n \in Static
      BY <1>2, <2>3 DEF Filter
    <3>2. r \in G[cur][n]
      BY <2>1, <3>1
    <3> QED
      BY <2>1, <3>1, <3>2
  <2> QED
    BY <2>2, <2>3
<1>3. ASSUME NEW p \in Pods, PreFilter(p) PROVE DOMAIN byNode' = {}
  BY <1>3 DEF PreFilter, Bookkeeping
<1>4. ASSUME FitError \/ Restart \/ \E n \in Nodes : Reserve(n) PROVE DOMAIN byNode' = {}
  BY <1>4 DEF FitError, Restart, Reserve, EndCycle, NoResults
<1>5. CASE Tick \/ cleanupAssumedPods \/ UNCHANGED vars
  BY <1>5 DEF Tick, cleanupAssumedPods, vars, cycleVars
<1>6. ASSUME NEW p \in Pods,
             \/ PreBind(p) \/ Bind(p) \/ BindingFails(p) \/ PreBindReplyLost(p)
             \/ ObserveBound(p) \/ ObserveDeleted(p) \/ Delete(p)
      PROVE  cur' = cur /\ byNode' = byNode
  BY <1>6 DEF PreBind, Bind, BindingFails, PreBindReplyLost, Unreserve,
              ObserveBound, ObserveDeleted, Delete, cycleVars
<1> QED
  BY <1>2, <1>3, <1>4, <1>5, <1>6 DEF Next

(* If those noted in the cycle do, unless they are empty, then a pod in    *)
(* flight keeps one that does, and so does a bound pod.                    *)
LEMMA HeldStep ==
    ASSUME TypeOK, TypeOK', Bookkeeping, [Next]_vars, NEW G,
           \A m \in DOMAIN byNode : byNode[m] # Empty => byNode[m] \in G[cur][m],
           \A p \in Pods : topologyResult[p] # Empty => topologyResult[p] \in G[p][assumed[p].node],
           \A p \in Pods : phase[p] = "bound" /\ IsTarget(p) /\ api[p].node \in Static
                             => api[p].anno \in G[p][api[p].node]
    PROVE  /\ \A p \in Pods : topologyResult'[p] # Empty => topologyResult'[p] \in G[p][assumed'[p].node]
           /\ \A p \in Pods : phase'[p] = "bound" /\ IsTarget(p) /\ api'[p].node \in Static
                                => api'[p].anno \in G[p][api'[p].node]
<1> DEFINE flight(p) == topologyResult[p] # Empty => topologyResult[p] \in G[p][assumed[p].node]
           bound(p) == phase[p] = "bound" /\ IsTarget(p) /\ api[p].node \in Static
                           => api[p].anno \in G[p][api[p].node]
<1>1. \A p \in Pods : flight(p) /\ bound(p)
  OBVIOUS
<1> SUFFICES ASSUME NEW q \in Pods
             PROVE  flight(q)' /\ bound(q)'
  BY DEF IsTarget, Empty
<1>2. ASSUME UNCHANGED <<topologyResult, assumed, api, phase>>
      PROVE  flight(q)' /\ bound(q)'
  BY <1>1, <1>2 DEF IsTarget
<1>3. /\ topologyResult[q] # Empty => phase[q] \in InFlight
      /\ phase[q] = "bound" => api[q].node = assumed[q].node
      /\ phase[q] \in InFlight /\ topologyResult[q] = Empty /\ IsTarget(q) => assumed[q].node \notin Static
      /\ phase[q] = "patched" /\ topologyResult[q] # Empty => api[q].anno = topologyResult[q]
  BY DEF Bookkeeping
<1>4. ASSUME NEW p \in Pods, PreFilter(p) PROVE flight(q)' /\ bound(q)'
  BY <1>2, <1>4 DEF PreFilter, apiVars
<1>5. ASSUME NEW n \in Nodes, Filter(n) PROVE flight(q)' /\ bound(q)'
  BY <1>2, <1>5 DEF Filter, apiVars
<1>6. CASE FitError \/ Tick \/ cleanupAssumedPods \/ UNCHANGED vars
  BY <1>2, <1>6 DEF FitError, Tick, cleanupAssumedPods, vars, apiVars
<1>7. ASSUME NEW n \in Nodes, Reserve(n) PROVE flight(q)' /\ bound(q)'
  <2>1. cur \in Pods /\ UNCHANGED api /\ phase[cur] = "pending" /\ topologyResult[cur] = Empty
    BY <1>7 DEF Reserve, TypeOK, apiVars, Bookkeeping, InFlight
  <2>2. CASE ReserveError(n)
    BY <1>2, <2>1, <2>2 DEF ReserveError
  <2>3. CASE q # cur
    BY <1>1, <1>7, <2>1, <2>3 DEF Reserve, ReserveNothing, ReserveError, AssumePod, TypeOK, IsTarget
  <2>4. CASE q = cur /\ ReserveNothing(n)
    BY <2>1, <2>4 DEF ReserveNothing, TypeOK
  <2>5. CASE q = cur /\ AssumePod(n)
    <3>1. /\ topologyResult'[q] = byNode[n] /\ assumed'[q].node = n /\ phase'[q] = "reserved"
          /\ n \in DOMAIN byNode
      BY <2>1, <2>5 DEF AssumePod, TypeOK
    <3> QED
      BY <2>5, <3>1 DEF AssumePod
  <2> QED
    BY <1>7, <2>2, <2>3, <2>4, <2>5 DEF Reserve
<1>8. ASSUME NEW p \in Pods, PreBind(p) PROVE flight(q)' /\ bound(q)'
  <2>1. UNCHANGED <<topologyResult, assumed>>
    BY <1>8 DEF PreBind
  <2>2. CASE q = p
    BY <1>1, <1>8, <2>1, <2>2 DEF PreBind, TypeOK
  <2>3. CASE q # p
    <3>1. phase'[q] = phase[q] /\ api'[q] = api[q]
      BY <1>8, <2>3 DEF PreBind, TypeOK
    <3> QED
      BY <1>1, <2>1, <3>1 DEF IsTarget
  <2> QED
    BY <2>2, <2>3
<1>9. ASSUME NEW p \in Pods, Bind(p) PROVE flight(q)' /\ bound(q)'
  <2>1. CASE q = p
    <3>1. /\ topologyResult'[q] = Empty
          /\ phase[q] = "patched" /\ api'[q].node = assumed[q].node /\ api'[q].anno = api[q].anno
      BY <1>9, <2>1 DEF Bind, TypeOK, Placement
    <3>2. IsTarget(q) /\ assumed[q].node \in Static => api[q].anno \in G[q][assumed[q].node]
      BY <1>1, <1>3, <3>1 DEF InFlight
    <3> QED
      BY <3>1, <3>2 DEF IsTarget
  <2>2. CASE q # p
    <3>1. phase'[q] = phase[q] /\ api'[q] = api[q] /\ topologyResult'[q] = topologyResult[q] /\ assumed' = assumed
      BY <1>9, <2>2 DEF Bind, TypeOK
    <3> QED
      BY <1>1, <3>1 DEF IsTarget
  <2> QED
    BY <2>1, <2>2
<1>10. ASSUME NEW p \in Pods, BindingFails(p) \/ PreBindReplyLost(p) PROVE flight(q)' /\ bound(q)'
  <2>1. CASE q = p
    BY <1>10, <2>1 DEF BindingFails, PreBindReplyLost, Unreserve, TypeOK
  <2>2. CASE q # p
    <3>1. /\ phase'[q] = phase[q] /\ api'[q] = api[q]
          /\ topologyResult'[q] = topologyResult[q] /\ assumed'[q] = assumed[q]
      BY <1>10, <2>2 DEF BindingFails, PreBindReplyLost, Unreserve, TypeOK
    <3> QED
      BY <1>1, <3>1 DEF IsTarget
  <2> QED
    BY <2>1, <2>2
<1>11. ASSUME NEW p \in Pods, ObserveBound(p) PROVE flight(q)' /\ bound(q)'
  <2>1. UNCHANGED <<topologyResult, api, phase>> /\ assumed'[q] \in {assumed[q], api[q]}
    BY <1>11 DEF ObserveBound, TypeOK, apiVars
  <2>2. phase[q] # "bound" => assumed'[q] = assumed[q]
    BY <1>11 DEF ObserveBound, TypeOK
  <2> QED
    BY <1>1, <1>3, <2>1, <2>2 DEF IsTarget, InFlight
<1>12. ASSUME NEW p \in Pods, ObserveDeleted(p) PROVE flight(q)' /\ bound(q)'
  <2>1. UNCHANGED <<topologyResult, api, phase>>
    BY <1>12 DEF ObserveDeleted, apiVars
  <2>2. phase[q] # "gone" => assumed'[q] = assumed[q]
    BY <1>12 DEF ObserveDeleted, TypeOK
  <2> QED
    BY <1>1, <1>3, <2>1, <2>2 DEF IsTarget, InFlight
<1>13. ASSUME NEW p \in Pods, Delete(p) PROVE flight(q)' /\ bound(q)'
  <2>1. UNCHANGED <<topologyResult, api, assumed>> /\ (phase'[q] = "bound" => phase[q] = "bound")
    BY <1>13 DEF Delete, TypeOK
  <2> QED
    BY <1>1, <2>1 DEF IsTarget
<1>14. CASE Restart
  <2>1. topologyResult'[q] = Empty /\ UNCHANGED api /\ (phase'[q] = "bound" => phase[q] = "bound")
    BY <1>14 DEF Restart, TypeOK, apiVars
  <2> QED
    BY <1>1, <2>1 DEF IsTarget
<1> QED
  BY <1>4, <1>5, <1>6, <1>7, <1>8, <1>9, <1>10, <1>11, <1>12, <1>13, <1>14 DEF Next

-----------------------------------------------------------------------------
(* Whatever the zones have, results stay within their pod's request.       *)

(* Every result is within its request: in the cycle, in flight and bound.  *)
THEOREM ResultsStayWithin == Spec => []Within
<1> DEFINE G == [p \in Pods |-> [n \in Nodes \cup {NoNode} |->
                    {l \in ZoneList : l # Empty => WithinRequest(p, n, l)}]]
<1>1. Init => Within
  BY DEF Init, Within, BoundWithinRequest, NoResults
<1>2. IndInv /\ IndInv' /\ Within /\ [Next]_vars => Within'
  <2> SUFFICES ASSUME IndInv, IndInv', Within, [Next]_vars
               PROVE  Within'
    OBVIOUS
  <2>1. TypeOK /\ TypeOK' /\ Bookkeeping /\ Bookkeeping'
    BY DEF IndInv
  <2>2. \A p \in Pods, n \in Nodes \cup {NoNode}, l \in ZoneList :
            l \in G[p][n] <=> (l # Empty => WithinRequest(p, n, l))
    OBVIOUS
  <2> HIDE DEF G
  <2>3. (DOMAIN byNode # {} => cur \in Pods) /\ (DOMAIN byNode' # {} => cur' \in Pods)
    BY <2>1 DEF TypeOK, Bookkeeping
  <2>4. \A m \in DOMAIN byNode : byNode[m] \in G[cur][m]
    BY <2>1, <2>2, <2>3 DEF Within, TypeOK
  <2>5. cur # NoPod => \A n \in Static : \A r \in assignTopologyResult(cur, n) :
            NodeResourcesFit(cur, n) /\ IsTarget(cur) => r \in G[cur][n]
    <3> SUFFICES ASSUME cur # NoPod, NEW n \in Static, NEW r \in assignTopologyResult(cur, n),
                        IsTarget(cur)
                 PROVE  r \in G[cur][n]
      OBVIOUS
    <3>1. cur \in Pods /\ n \in Nodes
      BY <2>1, SetsAssumption DEF TypeOK
    <3>2. r \in ZoneList
      BY <2>1, <3>1, ResultFits
    <3>3. r # Empty => WithinRequest(cur, n, r)
      BY <2>1, <3>1, ResultWithinRequest
    <3> QED
      BY <2>2, <3>1, <3>2, <3>3
  <2>6. \A m \in DOMAIN byNode' : byNode'[m] \in G[cur'][m]
    BY <2>1, <2>4, <2>5, NotedStep
  <2>7. /\ \A p \in Pods : topologyResult[p] \in ZoneList /\ topologyResult'[p] \in ZoneList
        /\ \A p \in Pods : assumed[p].node \in Nodes \cup {NoNode} /\ assumed'[p].node \in Nodes \cup {NoNode}
        /\ \A p \in Pods : api[p].anno \in ZoneList /\ api'[p].anno \in ZoneList
        /\ \A p \in Pods : api[p].node \in Nodes \cup {NoNode} /\ api'[p].node \in Nodes \cup {NoNode}
    BY <2>1 DEF TypeOK, Placement
  <2> DEFINE H == [p \in Pods |-> [n \in Nodes \cup {NoNode} |-> {l \in ZoneList : WithinRequest(p, n, l)}]]
  <2>8. \A p \in Pods, n \in Nodes \cup {NoNode}, l \in ZoneList : l \in H[p][n] <=> WithinRequest(p, n, l)
    OBVIOUS
  <2> HIDE DEF H
  <2>9. \A m \in DOMAIN byNode : byNode[m] # Empty => byNode[m] \in H[cur][m]
    BY <2>1, <2>3, <2>8 DEF Within, TypeOK
  <2>10. \A p \in Pods : topologyResult[p] # Empty => topologyResult[p] \in H[p][assumed[p].node]
    BY <2>7, <2>8 DEF Within
  <2>11. \A p \in Pods : phase[p] = "bound" /\ IsTarget(p) /\ api[p].node \in Static
                             => api[p].anno \in H[p][api[p].node]
    BY <2>7, <2>8 DEF Within, BoundWithinRequest
  <2>12. /\ \A p \in Pods : topologyResult'[p] # Empty => topologyResult'[p] \in H[p][assumed'[p].node]
         /\ \A p \in Pods : phase'[p] = "bound" /\ IsTarget(p) /\ api'[p].node \in Static
                              => api'[p].anno \in H[p][api'[p].node]
    BY <2>1, <2>9, <2>10, <2>11, HeldStep
  <2>13. \A m \in DOMAIN byNode' : byNode'[m] # Empty => WithinRequest(cur', m, byNode'[m])
    BY <2>1, <2>2, <2>3, <2>6 DEF TypeOK
  <2>14. \A p \in Pods : topologyResult'[p] # Empty => WithinRequest(p, assumed'[p].node, topologyResult'[p])
    BY <2>7, <2>8, <2>12
  <2>15. \A p \in Pods : phase'[p] = "bound" /\ IsTarget(p) /\ api'[p].node \in Static
                             => WithinRequest(p, api'[p].node, api'[p].anno)
    BY <2>7, <2>8, <2>12
  <2> QED
    BY <2>13, <2>14, <2>15 DEF Within, BoundWithinRequest, WithinRequest, Aware, IsTarget, Empty, Total, Units
<1> QED
  BY <1>1, <1>2, Inductive, PTL DEF Spec

(* A target pod bound to a static node has a result, for no more than its  *)
(* request and, when it is aware of the topology, for all of it in one     *)
(* zone: for any zones, those with fractions of a CPU included, and        *)
(* whatever attempts, failures and restarts came before.                   *)
THEOREM PodsBoundWithinRequest == Spec => []BoundWithinRequest
<1>1. Within => BoundWithinRequest
  BY DEF Within
<1> QED
  BY <1>1, ResultsStayWithin, PTL

-----------------------------------------------------------------------------
(* Results stay complete on their way to the bound pod.                    *)

(* An absent list amounts to nothing.                                      *)
LEMMA EmptyTotal == Total(Zones, Empty) = 0 /\ \A p \in Pods : Request[p] \in Nat /\ Total(Zones, Empty) <= Request[p]
<1>1. Total(Zones, Empty) = 0
  BY TotalZero DEF Empty
<1> QED
  BY <1>1, CPUAssumption

(* A list for the whole request is none above it.                          *)
LEMMA CompleteNotAbove ==
    ASSUME NEW p \in Pods, NEW n, NEW list, AsRequested(p, n, list)
    PROVE  Total(Zones, list) <= Request[p]
BY CPUAssumption DEF AsRequested

(* No step lets a copy of a result grow over the request.                  *)
LEMMA NoneAboveStep ==
    ASSUME TypeOK, TypeOK', Bookkeeping, Complete, [Next]_vars
    PROVE  NoneAbove'
<1> DEFINE ok(p, list) == Total(Zones, list) <= Request[p]
<1>1. \A p \in Pods : ok(p, api[p].anno) /\ ok(p, assumed[p].anno) /\ ok(p, snap[p].anno) /\ ok(p, podTopology[p])
  BY DEF Complete, NoneAbove
<1>2. \A p \in Pods : ok(p, Empty) /\ ok(p, Unplaced.anno)
  BY EmptyTotal DEF Unplaced
<1>3. \A p \in Pods : topologyResult[p] # Empty => ok(p, topologyResult[p])
  BY CompleteNotAbove DEF Complete
<1>4. cur # NoPod => \A n \in DOMAIN byNode : ok(cur, byNode[n])
  BY CompleteNotAbove DEF Complete, TypeOK
<1>5. cur # NoPod => ok(cur, curAnno)
  BY <1>1, <1>2 DEF Bookkeeping, TypeOK
<1> HIDE DEF ok
<1> SUFFICES ASSUME NEW q \in Pods
             PROVE  ok(q, api'[q].anno) /\ ok(q, assumed'[q].anno) /\ ok(q, snap'[q].anno) /\ ok(q, podTopology'[q])
  BY DEF NoneAbove, ok
<1> DEFINE goal == ok(q, api'[q].anno) /\ ok(q, assumed'[q].anno) /\ ok(q, snap'[q].anno) /\ ok(q, podTopology'[q])
<1>6. ASSUME NEW p \in Pods, PreFilter(p) PROVE goal
  BY <1>1, <1>6 DEF PreFilter, apiVars, cacheVars
<1>7. ASSUME NEW n \in Nodes, Filter(n) PROVE goal
  BY <1>1, <1>7 DEF Filter, apiVars, cacheVars
<1>8. CASE FitError
  BY <1>1, <1>2, <1>8 DEF FitError, EndCycle, apiVars, cacheVars
<1>9. ASSUME NEW n \in Nodes, Reserve(n) PROVE goal
  <2>1. cur \in Pods /\ cur # NoPod /\ EndCycle /\ UNCHANGED api
    BY <1>9 DEF Reserve, TypeOK, apiVars
  <2>2. ok(q, api'[q].anno) /\ ok(q, snap'[q].anno)
    BY <1>1, <1>2, <2>1 DEF EndCycle
  <2>3. CASE ReserveNothing(n)
    BY <1>1, <1>5, <2>1, <2>2, <2>3 DEF ReserveNothing, TypeOK, cacheVars
  <2>4. CASE ReserveError(n)
    BY <1>1, <1>2, <2>1, <2>2, <2>4 DEF ReserveError, TypeOK
  <2>5. CASE AssumePod(n)
    BY <1>1, <1>4, <1>5, <2>1, <2>2, <2>5 DEF AssumePod, TypeOK
  <2> QED
    BY <1>9, <2>3, <2>4, <2>5 DEF Reserve
<1>10. ASSUME NEW p \in Pods, PreBind(p) PROVE goal
  <2>1. ok(q, api'[q].anno)
    <3>1. CASE topologyResult[p] = Empty
      BY <1>1, <1>10, <3>1 DEF PreBind
    <3>2. CASE topologyResult[p] # Empty
      <4>1. api'[p].anno = topologyResult[p] /\ \A o \in Pods \ {p} : api'[o] = api[o]
        BY <1>10, <3>2, AnnotateType DEF PreBind, TypeOK
      <4> QED
        BY <1>1, <1>3, <3>2, <4>1
    <3> QED
      BY <3>1, <3>2
  <2> QED
    BY <1>1, <1>10, <2>1 DEF PreBind, cycleVars, cacheVars
<1>11. ASSUME NEW p \in Pods, Bind(p) PROVE goal
  BY <1>1, <1>11 DEF Bind, TypeOK, Placement, cycleVars, cacheVars
<1>12. ASSUME NEW p \in Pods, BindingFails(p) PROVE goal
  BY <1>1, <1>2, <1>12 DEF BindingFails, Unreserve, TypeOK, cycleVars
<1>13. ASSUME NEW p \in Pods, PreBindReplyLost(p) PROVE goal
  <2>1. api'[p].anno = topologyResult[p] /\ \A o \in Pods \ {p} : api'[o] = api[o]
    BY <1>13, AnnotateType DEF PreBindReplyLost, TypeOK
  <2>2. ok(q, api'[q].anno)
    BY <1>1, <1>3, <1>13, <2>1 DEF PreBindReplyLost
  <2> QED
    BY <1>1, <1>2, <1>13, <2>2 DEF PreBindReplyLost, Unreserve, TypeOK, cycleVars
<1>14. ASSUME NEW p \in Pods, ObserveBound(p) PROVE goal
  BY <1>1, <1>14 DEF ObserveBound, TypeOK, apiVars, cycleVars, cacheVars
<1>15. ASSUME NEW p \in Pods, ObserveDeleted(p) PROVE goal
  BY <1>1, <1>2, <1>15 DEF ObserveDeleted, TypeOK, apiVars, cycleVars, cacheVars
<1>16. ASSUME NEW p \in Pods, Delete(p) PROVE goal
  BY <1>1, <1>16 DEF Delete, cycleVars, cacheVars
<1>17. CASE cleanupAssumedPods
  BY <1>1, <1>2, <1>17 DEF cleanupAssumedPods, apiVars, cycleVars
<1>18. CASE Tick
  BY <1>1, <1>18 DEF Tick, apiVars, cycleVars
<1>19. CASE Restart
  BY <1>1, <1>2, <1>19 DEF Restart, EndCycle, apiVars
<1>20. CASE UNCHANGED vars
  BY <1>1, <1>20 DEF vars, apiVars, cycleVars, cacheVars
<1> QED
  BY <1>6, <1>7, <1>8, <1>9, <1>10, <1>11, <1>12, <1>13, <1>14, <1>15, <1>16, <1>17, <1>18, <1>19, <1>20
     DEF Next

(* Every result is complete: in the cycle, in flight and when bound.       *)
THEOREM ResultsStayComplete == ASSUME WholeZones PROVE Spec => []Complete
<1>1. Init => Complete
  <2> SUFFICES ASSUME Init
               PROVE  Complete
    OBVIOUS
  <2>1. NoneAbove
    BY EmptyTotal DEF Init, NoneAbove, Unplaced
  <2> QED
    BY <2>1 DEF Init, Complete, BoundAsRequested, NoResults
<1>2. IndInv /\ IndInv' /\ Complete /\ [Next]_vars => Complete'
  <2> SUFFICES ASSUME IndInv, IndInv', Complete, [Next]_vars
               PROVE  Complete'
    OBVIOUS
  <2>1. TypeOK /\ TypeOK' /\ Bookkeeping /\ Bookkeeping'
    BY DEF IndInv
  <2>2. NoneAbove'
    BY <2>1, NoneAboveStep
  <2> DEFINE G == [p \in Pods |-> [n \in Nodes \cup {NoNode} |-> {l \in ZoneList : AsRequested(p, n, l)}]]
  <2>3. \A p \in Pods, n \in Nodes \cup {NoNode}, l \in ZoneList : l \in G[p][n] <=> AsRequested(p, n, l)
    OBVIOUS
  <2> HIDE DEF G
  <2>4. (DOMAIN byNode # {} => cur \in Pods) /\ (DOMAIN byNode' # {} => cur' \in Pods)
    BY <2>1 DEF TypeOK, Bookkeeping
  <2>5. \A m \in DOMAIN byNode : byNode[m] \in G[cur][m]
    BY <2>1, <2>3, <2>4 DEF Complete, TypeOK
  <2>6. cur # NoPod => \A n \in Static : \A r \in assignTopologyResult(cur, n) :
            NodeResourcesFit(cur, n) /\ IsTarget(cur) => r \in G[cur][n]
    <3> SUFFICES ASSUME cur # NoPod, NEW n \in Static, NEW r \in assignTopologyResult(cur, n),
                        NodeResourcesFit(cur, n), IsTarget(cur)
                 PROVE  r \in G[cur][n]
      OBVIOUS
    <3>1. cur \in Pods /\ n \in Nodes
      BY <2>1, SetsAssumption DEF TypeOK
    <3>2. r \in ZoneList
      BY <2>1, <3>1, ResultFits
    <3>3. AsRequested(cur, n, r)
      BY <2>1, <3>1, ResultAsRequested DEF Complete
    <3> QED
      BY <2>3, <3>1, <3>2, <3>3
  <2>7. \A m \in DOMAIN byNode' : byNode'[m] \in G[cur'][m]
    BY <2>1, <2>5, <2>6, NotedStep
  <2>8. /\ \A p \in Pods : topologyResult[p] \in ZoneList /\ topologyResult'[p] \in ZoneList
        /\ \A p \in Pods : assumed[p].node \in Nodes \cup {NoNode} /\ assumed'[p].node \in Nodes \cup {NoNode}
        /\ \A p \in Pods : api[p].anno \in ZoneList /\ api'[p].anno \in ZoneList
        /\ \A p \in Pods : api[p].node \in Nodes \cup {NoNode} /\ api'[p].node \in Nodes \cup {NoNode}
    BY <2>1 DEF TypeOK, Placement
  <2>9. \A p \in Pods : topologyResult[p] # Empty => topologyResult[p] \in G[p][assumed[p].node]
    BY <2>3, <2>8 DEF Complete
  <2>10. \A p \in Pods : phase[p] = "bound" /\ IsTarget(p) /\ api[p].node \in Static
                             => api[p].anno \in G[p][api[p].node]
    BY <2>3, <2>8 DEF Complete, BoundAsRequested, AsRequested
  <2>11. /\ \A p \in Pods : topologyResult'[p] # Empty => topologyResult'[p] \in G[p][assumed'[p].node]
         /\ \A p \in Pods : phase'[p] = "bound" /\ IsTarget(p) /\ api'[p].node \in Static
                              => api'[p].anno \in G[p][api'[p].node]
    BY <2>1, <2>5, <2>9, <2>10, HeldStep
  <2>12. \A m \in DOMAIN byNode' : AsRequested(cur', m, byNode'[m])
    BY <2>1, <2>3, <2>4, <2>7 DEF TypeOK
  <2>13. \A p \in Pods : topologyResult'[p] # Empty => AsRequested(p, assumed'[p].node, topologyResult'[p])
    BY <2>3, <2>8, <2>11
  <2>14. \A p \in Pods : phase'[p] = "bound" /\ IsTarget(p) /\ api'[p].node \in Static
                             => AsRequested(p, api'[p].node, api'[p].anno)
    BY <2>3, <2>8, <2>11
  <2> QED
    BY <2>2, <2>12, <2>13, <2>14 DEF Complete, BoundAsRequested, AsRequested, Aware, IsTarget, Empty
<1> QED
  BY <1>1, <1>2, Inductive, PTL DEF Spec

(* A target pod bound to a static node has its whole request in its        *)
(* annotation, in one zone when it is aware of the topology, whatever      *)
(* attempts, failures and restarts came before.                            *)
THEOREM PodsBoundAsRequested == ASSUME WholeZones PROVE Spec => []BoundAsRequested
<1>1. Complete => BoundAsRequested
  BY DEF Complete
<1> QED
  BY <1>1, ResultsStayComplete, PTL
=============================================================================
