-------------------------- MODULE NumaAssign_proofs -------------------------
(***************************************************************************)
(* Proofs about NumaAssign for any zones, amounts and size of a whole CPU: *)
(* the loop computes the closed form, and meets a request that the whole   *)
(* free CPUs can meet.                                                     *)
(***************************************************************************)
EXTENDS NumaAssign, SumTheorems

-----------------------------------------------------------------------------
(* Rounds of a loop over the zones.                                        *)

(* The zones of the rounds before k, and what they have together.          *)
Before(o, k) == {o[j] : j \in 1..(k - 1)}
Given(g, o, k) == SumFunctionOnSet(g, Before(o, k))

Turns(o, n) ==
    /\ n \in Nat /\ IsFiniteSet(Zones)
    /\ o \in [1..n -> Zones]
    /\ \A j, k \in 1..n : o[j] = o[k] => j = k
    /\ \A z \in Zones : \E j \in 1..n : o[j] = z

(* A round adds its zone, and after the last all zones had their turn.     *)
LEMMA GivenByRounds ==
    ASSUME NEW o, NEW n, Turns(o, n), NEW g \in [Zones -> Nat]
    PROVE  /\ Given(g, o, 1) = 0
           /\ \A k \in 1..(n + 1) : Given(g, o, k) \in Nat
           /\ \A k \in 1..n : Given(g, o, k + 1) = Given(g, o, k) + g[o[k]]
           /\ \A j, k \in 1..(n + 1) : j <= k => Given(g, o, j) <= Given(g, o, k)
           /\ Before(o, n + 1) = Zones
<1>0. n \in Nat /\ IsFiniteSet(Zones) /\ o \in [1..n -> Zones]
  BY DEF Turns
<1>1. ASSUME NEW k \in 1..(n + 1)
      PROVE  /\ Before(o, k) \subseteq Zones /\ IsFiniteSet(Before(o, k))
             /\ \A x \in Before(o, k) : g[x] \in Nat /\ g[x] \in Int
  <2>1. Before(o, k) \subseteq Zones
    BY <1>0 DEF Before
  <2> QED
    BY <1>0, <2>1, FS_Subset
<1>2. Given(g, o, 1) = 0
  <2>1. Before(o, 1) = {}
    BY DEF Before
  <2> QED
    BY <2>1, SumEmpty DEF Given
<1>3. ASSUME NEW k \in 1..(n + 1) PROVE Given(g, o, k) \in Nat
  BY <1>1, SumNat DEF Given
<1>4. ASSUME NEW k \in 1..n PROVE Given(g, o, k + 1) = Given(g, o, k) + g[o[k]]
  <2>0. \A j \in 1..n : o[j] = o[k] => j = k
    BY DEF Turns
  <2>1. /\ o[k] \in Before(o, k + 1) /\ o[k] \notin Before(o, k)
        /\ Before(o, k + 1) = Before(o, k) \cup {o[k]}
    <3>1. k \in 1..((k + 1) - 1) /\ 1..((k + 1) - 1) = 1..(k - 1) \cup {k}
      BY <1>0
    <3>2. k \notin 1..(k - 1) /\ 1..(k - 1) \subseteq 1..n
      BY <1>0
    <3> QED
      BY <2>0, <3>1, <3>2, Zenon DEF Before
  <2>2. PICK m \in 1..(n + 1) : m = k + 1
    BY <1>0
  <2>3. IsFiniteSet(Before(o, m)) /\ \A x \in Before(o, m) : g[x] \in Int
    BY <1>1
  <2>4. SumFunctionOnSet(g, Before(o, m)) = g[o[k]] + SumFunctionOnSet(g, Before(o, m) \ {o[k]})
    BY <2>1, <2>2, <2>3, SumRemove
  <2>5. k \in 1..(n + 1)
    BY <1>0
  <2>6. Given(g, o, k) \in Nat /\ g[o[k]] \in Nat
    BY <1>0, <1>3, <2>5
  <2>7. Before(o, m) \ {o[k]} = Before(o, k)
    BY <2>1, <2>2
  <2>8. Given(g, o, m) = g[o[k]] + Given(g, o, k)
    BY <2>4, <2>7 DEF Given
  <2> QED
    BY <2>2, <2>6, <2>8
<1>5. ASSUME NEW j \in 1..(n + 1), NEW k \in 1..(n + 1), j <= k
      PROVE  Given(g, o, j) <= Given(g, o, k)
  <2>1. Before(o, j) \in SUBSET Before(o, k)
    BY <1>0, <1>5 DEF Before
  <2> QED
    BY <1>1, <2>1, SumPart DEF Given
<1>6. Before(o, n + 1) = Zones
  BY <1>0 DEF Before, Turns
<1> QED
  BY <1>2, <1>3, <1>4, <1>5, <1>6

(* Whole CPUs are used: a zone that is overcommitted is followed by none   *)
(* with whole CPUs to give.                                                *)
LEMMA WholeInOrder ==
    ASSUME NEW a \in Nat, NEW b \in Nat, NEW u \in Nat, NEW v \in Nat, NEW w \in Nat \ {0},
           u % w = 0, a - u >= b - v, ((b \div w) * w) - v >= 0
    PROVE  ((a \div w) * w) - u >= 0
<1>1. (b \div w) * w <= b
  OBVIOUS
<1>2. a >= u
  <2>1. (b \div w) * w \in Nat
    OBVIOUS
  <2> QED
    BY <1>1, <2>1
<1>3. u \div w <= a \div w
  BY <1>2
<1>4. u = (u \div w) * w
  OBVIOUS
<1>5. (u \div w) * w <= (a \div w) * w
  <2>1. u \div w \in Nat /\ a \div w \in Nat
    OBVIOUS
  <2>2. \A x, y \in Nat : x <= y => x * w <= y * w
    OBVIOUS
  <2> QED
    BY <1>3, <2>1, <2>2
<1> QED
  BY <1>4, <1>5

(* One round, for a request of q of which earlier zones could give l, with *)
(* p left of it and w whole CPUs in the zone.                              *)
LEMMA RoundGives ==
    ASSUME NEW q \in Nat, NEW l \in Nat, NEW p \in Nat, NEW w \in Int,
           w >= 0 => p = Positive(q - l)
    PROVE  /\ Positive(minimum(p, w)) = Positive(minimum(q - l, w))
           /\ p - minimum(p, w) \in Nat
           /\ w >= 0 => p - minimum(p, w) = Positive(q - (l + Positive(w)))
           /\ minimum(q, l) + Positive(minimum(q - l, w)) = minimum(q, l + Positive(w))
           /\ p - minimum(p, w) <= 0 => l + Positive(w) >= q
BY DEF Positive, minimum

-----------------------------------------------------------------------------
(* The loop.                                                               *)

Rounds == Cardinality(Zones)
Gives == [z \in Zones |-> Positive(wholeFree(z)["cpu"])]
Got == [z \in Zones |-> result[z]["cpu"]]
Earlier(k) == Given(Gives, order, k)

(* What a zone whose turn it is in round k gives.                          *)
Share(k) == Positive(minimum(request["cpu"] - Earlier(k), wholeFree(order[k])["cpu"]))

InputTypes ==
    /\ WholeCPU \in Nat \ {0}
    /\ allocatable \in [Zones -> [Resources -> Nat]]
    /\ requested \in [Zones -> [Resources -> Nat]]
    /\ \A z \in Zones : requested[z]["cpu"] % WholeCPU = 0
    /\ request \in [Resources -> Nat]
    /\ Turns(order, Rounds)
    /\ \A j, k \in 1..Rounds : j < k => FreeCPU(order[j]) >= FreeCPU(order[k])

LoopTypes ==
    /\ i \in 1..(Rounds + 1)
    /\ podRequest \in [Resources -> Int] /\ podRequest["cpu"] \in Nat
    /\ result \in [Zones -> [Resources -> Int]]

(* In front of a zone that is not overcommitted, what is left is what the  *)
(* zones so far could not give; behind one that is, no zone gives more.    *)
LeftInTurn ==
    (i <= Rounds /\ wholeFree(order[i])["cpu"] >= 0)
        => podRequest["cpu"] = Positive(request["cpu"] - Earlier(i))

RoundsTaken ==
    /\ \A k \in 1..Rounds : k < i => result[order[k]]["cpu"] = Share(k)
    /\ \A k \in 1..Rounds : k >= i => result[order[k]]["cpu"] = 0

SumTaken == SumFunctionOnSet(Got, Zones) = minimum(request["cpu"], Earlier(i))

Completed == done => i > Rounds \/ Earlier(i) >= request["cpu"]

LoopInv ==
    /\ InputTypes
    /\ LoopTypes
    /\ LeftInTurn
    /\ RoundsTaken
    /\ SumTaken
    /\ Completed

LEMMA InputFacts ==
    ASSUME InputTypes
    PROVE  /\ Rounds \in Nat /\ IsFiniteSet(Zones) /\ request["cpu"] \in Nat
           /\ order \in [1..Rounds -> Zones]
           /\ \A z \in Zones : wholeFree(z)["cpu"] \in Int
           /\ Gives \in [Zones -> Nat]
<1>1. "cpu" \in Resources
  BY DEF Resources
<1>2. ASSUME NEW z \in Zones PROVE wholeFree(z)["cpu"] \in Int
  <2>1. /\ allocatable[z]["cpu"] \in Nat /\ requested[z]["cpu"] \in Nat
        /\ WholeCPU \in Nat \ {0}
    BY <1>1 DEF InputTypes
  <2>2. allocatable[z]["cpu"] \div WholeCPU \in Nat
    BY <2>1
  <2>3. wholeFree(z)["cpu"] = ((allocatable[z]["cpu"] \div WholeCPU) * WholeCPU) - requested[z]["cpu"]
    BY <1>1 DEF wholeFree, Resource
  <2> QED
    BY <2>1, <2>2, <2>3
<1>3. Gives \in [Zones -> Nat]
  BY <1>2 DEF Gives, Positive
<1> QED
  BY <1>1, <1>2, <1>3 DEF InputTypes, Turns

LEMMA EarlierGrows ==
    ASSUME InputTypes
    PROVE  /\ Earlier(1) = 0
           /\ \A k \in 1..(Rounds + 1) : Earlier(k) \in Nat
           /\ \A k \in 1..Rounds : Earlier(k + 1) = Earlier(k) + Positive(wholeFree(order[k])["cpu"])
           /\ \A j, k \in 1..(Rounds + 1) : j <= k => Earlier(j) <= Earlier(k)
           /\ Before(order, Rounds + 1) = Zones
<1>1. PICK o : o = order
  OBVIOUS
<1>2. PICK g : g = Gives
  OBVIOUS
<1>3. PICK n : n = Rounds
  OBVIOUS
<1>4. Turns(o, n) /\ g \in [Zones -> Nat]
  BY <1>1, <1>2, <1>3, InputFacts DEF InputTypes
<1>5. /\ Given(g, o, 1) = 0
      /\ \A k \in 1..(n + 1) : Given(g, o, k) \in Nat
      /\ \A k \in 1..n : Given(g, o, k + 1) = Given(g, o, k) + g[o[k]]
      /\ \A j, k \in 1..(n + 1) : j <= k => Given(g, o, j) <= Given(g, o, k)
      /\ Before(o, n + 1) = Zones
  BY <1>4, GivenByRounds
<1>6. ASSUME NEW k \in 1..n PROVE g[o[k]] = Positive(wholeFree(order[k])["cpu"])
  BY <1>1, <1>2, <1>3, InputFacts DEF Gives
<1> QED
  BY <1>1, <1>2, <1>3, <1>5, <1>6 DEF Earlier

(* sort.Slice puts zones with less free CPU later.                         *)
LEMMA WholeLater ==
    ASSUME InputTypes, NEW j \in 1..Rounds, NEW k \in 1..Rounds, j < k,
           wholeFree(order[k])["cpu"] >= 0
    PROVE  wholeFree(order[j])["cpu"] >= 0
<1>1. "cpu" \in Resources
  BY DEF Resources
<1>2. PICK y, z \in Zones : y = order[j] /\ z = order[k]
  BY InputFacts
<1>3. PICK a, b, u, v \in Nat : /\ a = allocatable[y]["cpu"] /\ b = allocatable[z]["cpu"]
                                /\ u = requested[y]["cpu"] /\ v = requested[z]["cpu"]
  BY <1>1 DEF InputTypes
<1>4. a - u >= b - v
  BY <1>2, <1>3 DEF InputTypes, FreeCPU
<1>5. u % WholeCPU = 0 /\ WholeCPU \in Nat \ {0}
  BY <1>3 DEF InputTypes
<1>6. /\ wholeFree(y)["cpu"] = ((a \div WholeCPU) * WholeCPU) - u
      /\ wholeFree(z)["cpu"] = ((b \div WholeCPU) * WholeCPU) - v
  BY <1>1, <1>3 DEF wholeFree, Resource
<1> QED
  BY <1>2, <1>4, <1>5, <1>6, WholeInOrder

LEMMA LoopStarts ==
    ASSUME ZonesAndUnits, Init
    PROVE  LoopInv
<1>1. InputTypes
  <2>1. /\ allocatable \in [Zones -> [Resources -> Nat]]
        /\ request \in [Resources -> Nat] /\ WholeCPU \in Nat \ {0}
    BY DEF Init, ZonesAndUnits
  <2>2. /\ requested \in [Zones -> [Resources -> Nat]]
        /\ \A z \in Zones : requested[z]["cpu"] % WholeCPU = 0
    BY DEF Init, Resource, Resources
  <2>3. Rounds \in Nat /\ IsFiniteSet(Zones)
    BY FS_CardinalityType DEF Rounds, ZonesAndUnits
  <2>4. order \in Bijection(1..Rounds, Zones)
    BY DEF Init, Rounds
  <2>5. Turns(order, Rounds)
    BY <2>3, <2>4 DEF Turns, Bijection, Injection, Surjection, IsInjective
  <2>6. \A j, k \in 1..Rounds : j < k => FreeCPU(order[j]) >= FreeCPU(order[k])
    <3>1. DOMAIN order = 1..Rounds
      BY <2>4 DEF Bijection, Injection
    <3>2. \A j, k \in DOMAIN order : j < k => FreeCPU(order[j]) >= FreeCPU(order[k])
      BY DEF Init
    <3> QED
      BY <3>1, <3>2
  <2> QED
    BY <2>1, <2>2, <2>5, <2>6 DEF InputTypes
<1>2. LoopTypes
  BY <1>1, InputFacts DEF Init, LoopTypes, None, Resource, InputTypes
<1>3. /\ Earlier(i) = 0 /\ request["cpu"] \in Nat
      /\ \A z \in Zones : result[z]["cpu"] = 0
  <2>1. i = 1 /\ \A z \in Zones : result[z]["cpu"] = 0
    BY DEF Init, None, Resource, Resources
  <2> QED
    BY <1>1, <2>1, EarlierGrows, InputFacts
<1>4. LeftInTurn /\ Completed
  <2>1. podRequest = request /\ ~done
    BY DEF Init
  <2> QED
    BY <1>3, <2>1 DEF LeftInTurn, Completed, Positive
<1>5. RoundsTaken
  <2>1. i = 1
    BY DEF Init
  <2> QED
    BY <1>1, <1>3, <2>1, InputFacts DEF RoundsTaken
<1>6. SumTaken
  <2>1. PICK g : g = Got
    OBVIOUS
  <2>2. IsFiniteSet(Zones) /\ \A z \in Zones : g[z] = 0
    BY <1>1, <1>3, <2>1, InputFacts DEF Got
  <2>3. SumFunctionOnSet(g, Zones) = 0
    BY <2>2, SumZero
  <2> QED
    BY <1>3, <2>1, <2>3 DEF SumTaken, minimum
<1> QED
  BY <1>1, <1>2, <1>4, <1>5, <1>6 DEF LoopInv

(* The inputs do not change, nor what is defined from them.                *)
LEMMA InputsKept ==
    ASSUME UNCHANGED <<allocatable, requested, request, order>>
    PROVE  /\ InputTypes' = InputTypes
           /\ \A z : wholeFree(z)' = wholeFree(z)
           /\ Gives' = Gives
           /\ \A k : Earlier(k)' = Earlier(k)
           /\ \A k : Share(k)' = Share(k)
<1>1. \A z : wholeFree(z)' = wholeFree(z)
  BY DEF wholeFree
<1>2. Gives' = Gives
  BY <1>1 DEF Gives
<1>3. InputTypes' = InputTypes
  BY DEF InputTypes, FreeCPU
<1>4. \A k : Earlier(k)' = Earlier(k)
  BY <1>2 DEF Earlier
<1>5. \A k : Share(k)' = Share(k)
  BY <1>1, <1>4 DEF Share
<1> QED
  BY <1>1, <1>2, <1>3, <1>4, <1>5

(* A round gives the zone whose turn it is its share.                      *)
LEMMA RoundTaken ==
    ASSUME LoopInv, AssignRound
    PROVE  /\ i \in 1..Rounds
           /\ LoopTypes'
           /\ \A k \in 1..Rounds : k # i => result'[order[k]]["cpu"] = result[order[k]]["cpu"]
           /\ result'[order[i]]["cpu"] = Share(i)
           /\ wholeFree(order[i])["cpu"] >= 0
                => podRequest'["cpu"] = Positive(request["cpu"] - Earlier(i + 1))
           /\ done' => Earlier(i + 1) >= request["cpu"]
           /\ minimum(request["cpu"], Earlier(i)) + Share(i)
                = minimum(request["cpu"], Earlier(i + 1))
<1>0. InputTypes /\ LoopTypes /\ LeftInTurn /\ RoundsTaken /\ ~done /\ i' = i + 1
  BY DEF LoopInv, AssignRound
<1>1. i \in 1..Rounds /\ i + 1 \in 1..(Rounds + 1) /\ Rounds \in Nat
  BY <1>0, InputFacts DEF AssignRound, LoopTypes, Rounds
<1>2. PICK z \in Zones : z = order[i]
  BY <1>0, <1>1, InputFacts
<1>3. PICK q, l, p \in Nat, w \in Int :
        /\ q = request["cpu"] /\ l = Earlier(i) /\ p = podRequest["cpu"]
        /\ w = wholeFree(z)["cpu"]
  BY <1>0, <1>1, InputFacts, EarlierGrows DEF LoopTypes
<1>4. w >= 0 => p = Positive(q - l)
  BY <1>0, <1>1, <1>2, <1>3 DEF LeftInTurn
<1>5. Earlier(i + 1) = l + Positive(w) /\ Share(i) = Positive(minimum(q - l, w))
  BY <1>0, <1>1, <1>2, <1>3, EarlierGrows DEF Share
<1>6. /\ Positive(minimum(p, w)) = Positive(minimum(q - l, w))
      /\ p - minimum(p, w) \in Nat
      /\ w >= 0 => p - minimum(p, w) = Positive(q - (l + Positive(w)))
      /\ minimum(q, l) + Positive(minimum(q - l, w)) = minimum(q, l + Positive(w))
      /\ p - minimum(p, w) <= 0 => l + Positive(w) >= q
  BY <1>4, RoundGives
<1>7. ASSUME NEW k \in 1..Rounds, k # i PROVE order[k] # z /\ order[k] \in Zones
  BY <1>0, <1>1, <1>2, <1>7 DEF InputTypes, Turns
<1>8. CASE podRequest = None
  <2>1. p = 0
    BY <1>3, <1>8 DEF None, Resource, Resources
  <2>2. result' = result /\ podRequest' = podRequest /\ done' = FALSE
    BY <1>0, <1>8 DEF AssignRound
  <2>3. result[z]["cpu"] = 0
    BY <1>0, <1>1, <1>2 DEF RoundsTaken
  <2>4. LoopTypes'
    BY <1>0, <1>1, <2>2 DEF LoopTypes
  <2>5. Positive(minimum(q - l, w)) = 0 /\ (w >= 0 => 0 = Positive(q - (l + Positive(w))))
    BY <1>6, <2>1 DEF Positive, minimum
  <2> QED
    BY <1>1, <1>2, <1>3, <1>5, <1>6, <2>1, <2>2, <2>3, <2>4, <2>5
<1>9. CASE podRequest # None
  <2>1. /\ podRequest' = [r \in Resources |-> podRequest[r] - assigned(z)[r]]
        /\ result' = [result EXCEPT ![z] = ResourceListIgnoreZeroResources(assigned(z))]
        /\ done' = finished(z)
    BY <1>2, <1>9 DEF AssignRound
  <2>2. assigned(z)["cpu"] = minimum(p, w) /\ "cpu" \in Resources
    BY <1>3 DEF assigned, Resources
  <2>3. assigned(z) \in [Resources -> Int]
    <3>1. ASSUME NEW r \in Resources PROVE podRequest[r] \in Int /\ wholeFree(z)[r] \in Int
      <4>1. podRequest[r] \in Int /\ allocatable[z][r] \in Nat /\ requested[z][r] \in Nat
        BY <1>0 DEF LoopTypes, InputTypes
      <4>2. CASE r = "cpu"
        BY <1>3, <4>1, <4>2
      <4>3. CASE r # "cpu"
        <5>1. r = "mem" /\ wholeFree(z)[r] = allocatable[z]["mem"] - requested[z]["mem"]
          BY <4>3 DEF wholeFree, Resource, Resources
        <5> QED
          BY <4>1, <5>1
      <4> QED
        BY <4>2, <4>3
    <3> QED
      BY <3>1 DEF assigned, minimum
  <2>4. podRequest' \in [Resources -> Int] /\ podRequest'["cpu"] = p - minimum(p, w)
    BY <1>0, <1>3, <2>1, <2>2, <2>3 DEF LoopTypes
  <2>5. ResourceListIgnoreZeroResources(assigned(z)) \in [Resources -> Int]
    BY <2>2, <2>3 DEF ResourceListIgnoreZeroResources, Resource
  <2>6. ResourceListIgnoreZeroResources(assigned(z))["cpu"] = Positive(minimum(p, w))
    BY <2>2 DEF ResourceListIgnoreZeroResources, Resource, Positive
  <2>7. result' \in [Zones -> [Resources -> Int]] /\ result'[z]["cpu"] = Positive(minimum(p, w))
    BY <1>0, <2>1, <2>5, <2>6 DEF LoopTypes
  <2>8. LoopTypes'
    BY <1>0, <1>1, <1>6, <2>4, <2>7 DEF LoopTypes
  <2>9. \A k \in 1..Rounds : k # i => result'[order[k]]["cpu"] = result[order[k]]["cpu"]
    BY <1>0, <1>7, <2>1 DEF LoopTypes
  <2>10. done' => p - minimum(p, w) <= 0
    BY <1>3, <2>1, <2>2 DEF finished
  <2> QED
    BY <1>1, <1>2, <1>3, <1>5, <1>6, <2>4, <2>7, <2>8, <2>9, <2>10
<1> QED
  BY <1>8, <1>9

LEMMA LoopStep ==
    ASSUME LoopInv, [Next]_vars
    PROVE  LoopInv'
<1>1. CASE AssignRound
  <2>0. InputTypes /\ LoopTypes /\ LeftInTurn /\ RoundsTaken /\ SumTaken /\ i' = i + 1
    BY <1>1 DEF LoopInv, AssignRound
  <2>1. /\ InputTypes' /\ request' = request /\ order' = order
        /\ \A z : wholeFree(z)' = wholeFree(z)
        /\ \A k : Earlier(k)' = Earlier(k) /\ Share(k)' = Share(k)
    BY <1>1, <2>0, InputsKept DEF AssignRound
  <2>2. /\ i \in 1..Rounds /\ i \in Nat /\ Rounds \in Nat /\ LoopTypes'
        /\ \A k \in 1..Rounds : k # i => result'[order[k]]["cpu"] = result[order[k]]["cpu"]
        /\ result'[order[i]]["cpu"] = Share(i)
        /\ wholeFree(order[i])["cpu"] >= 0
                => podRequest'["cpu"] = Positive(request["cpu"] - Earlier(i + 1))
        /\ done' => Earlier(i + 1) >= request["cpu"]
        /\ minimum(request["cpu"], Earlier(i)) + Share(i)
                = minimum(request["cpu"], Earlier(i + 1))
    BY <1>1, <2>0, RoundTaken, InputFacts
  <2>3. PICK n : n = i + 1
    OBVIOUS
  <2>4. Earlier(i)' = Earlier(n)
    <3>1. Earlier(i)' = Given(Gives', order', i')
      BY DEF Earlier
    <3>2. Gives' = Gives
      BY <1>1, InputsKept DEF AssignRound
    <3> QED
      BY <2>0, <2>1, <2>3, <3>1, <3>2 DEF Earlier
  <2>5. LeftInTurn'
    <3> SUFFICES ASSUME i' <= Rounds, wholeFree(order[n])["cpu"] >= 0
                 PROVE  podRequest'["cpu"] = Positive(request["cpu"] - Earlier(n))
      BY <2>0, <2>1, <2>3, <2>4 DEF LeftInTurn, Rounds
    <3>1. n \in 1..Rounds /\ i < n
      BY <2>0, <2>2, <2>3
    <3>2. wholeFree(order[i])["cpu"] >= 0
      BY <2>0, <2>2, <3>1, WholeLater
    <3> QED
      BY <2>2, <2>3, <3>2
  <2>6. RoundsTaken'
    <3>1. ASSUME NEW k \in 1..Rounds
          PROVE  /\ k < i + 1 => result'[order[k]]["cpu"] = Share(k)
                 /\ k >= i + 1 => result'[order[k]]["cpu"] = 0
      BY <2>0, <2>2 DEF RoundsTaken
    <3> QED
      BY <2>0, <2>1, <3>1 DEF RoundsTaken, Rounds
  <2>7. SumTaken'
    <3>1. PICK f, g : f = Got /\ g = Got'
      OBVIOUS
    <3>2. PICK z \in Zones : z = order[i]
      BY <2>0, <2>2, InputFacts
    <3>3. \A x \in Zones : f[x] = result[x]["cpu"] /\ g[x] = result'[x]["cpu"]
      BY <3>1 DEF Got
    <3>4. \A x \in Zones : f[x] \in Int /\ g[x] \in Int
      BY <2>0, <2>2, <3>3 DEF LoopTypes, Resources
    <3>5. ASSUME NEW x \in Zones \ {z} PROVE f[x] = g[x]
      <4>1. PICK k \in 1..Rounds : order[k] = x
        BY <2>0 DEF InputTypes, Turns
      <4>2. k # i
        BY <3>2, <4>1
      <4> QED
        BY <2>2, <3>3, <4>1, <4>2
    <3>6. f[z] = 0 /\ g[z] = Share(i)
      BY <2>0, <2>2, <3>2, <3>3 DEF RoundsTaken
    <3>7. IsFiniteSet(Zones)
      BY <2>0, InputFacts
    <3>8. SumFunctionOnSet(g, Zones) = SumFunctionOnSet(f, Zones) + (g[z] - f[z])
      BY <3>4, <3>5, <3>7, SumChange
    <3>9. SumFunctionOnSet(f, Zones) = minimum(request["cpu"], Earlier(i))
      BY <2>0, <3>1 DEF SumTaken
    <3>10. SumFunctionOnSet(g, Zones) = minimum(request["cpu"], Earlier(i + 1))
      BY <2>2, <3>4, <3>6, <3>8, <3>9
    <3> QED
      BY <2>1, <2>3, <2>4, <3>1, <3>10 DEF SumTaken
  <2>8. Completed'
    BY <2>0, <2>1, <2>2, <2>3, <2>4 DEF Completed
  <2> QED
    BY <2>1, <2>2, <2>5, <2>6, <2>7, <2>8 DEF LoopInv
<1>2. CASE Return \/ UNCHANGED vars
  <2>1. UNCHANGED <<allocatable, requested, request, order, i, podRequest, result>>
    BY <1>2 DEF Return, vars
  <2>2. /\ InputTypes' /\ \A z : wholeFree(z)' = wholeFree(z)
        /\ \A k : Earlier(k)' = Earlier(k) /\ Share(k)' = Share(k)
    BY <2>1, InputsKept DEF LoopInv
  <2>3. Earlier(i)' = Earlier(i)
    BY <2>1, InputsKept DEF Earlier
  <2>4. LoopTypes' /\ RoundsTaken'
    BY <2>1, <2>2 DEF LoopInv, LoopTypes, RoundsTaken, Rounds
  <2>5. LeftInTurn' /\ SumTaken'
    BY <2>1, <2>2, <2>3 DEF LoopInv, LeftInTurn, SumTaken, Got, Rounds
  <2>6. Completed'
    BY <1>2, <2>1, <2>3 DEF LoopInv, Completed, Return, Rounds, vars
  <2> QED
    BY <2>2, <2>4, <2>5, <2>6 DEF LoopInv
<1> QED
  BY <1>1, <1>2 DEF Next

LEMMA LoopCorrect ==
    ASSUME ZonesAndUnits
    PROVE  Spec => []LoopInv
<1>0. Init => LoopInv
  BY LoopStarts
<1>1. LoopInv /\ [Next]_vars => LoopInv'
  BY LoopStep
<1> QED
  BY <1>0, <1>1, PTL DEF Spec

-----------------------------------------------------------------------------

(* The zones before one, as the closed form has them.                      *)
LEMMA BeforeZone ==
    ASSUME InputTypes, NEW k \in 1..Rounds
    PROVE  CPUBefore(order[k]) = Earlier(k)
<1> DEFINE B == {x \in Zones : \E j, m \in DOMAIN order : j < m /\ order[j] = x /\ order[m] = order[k]}
<1>1. Rounds \in Nat /\ order \in [1..Rounds -> Zones] /\ IsFiniteSet(Zones) /\ Gives \in [Zones -> Nat]
  BY InputFacts
<1>2. B = Before(order, k)
  BY <1>1 DEF Before, InputTypes, Turns
<1>3. IsFiniteSet(B)
  BY <1>1, FS_Subset
<1>4. PICK f, g : f = [y \in B |-> Positive(wholeFree(y)["cpu"])] /\ g = Gives
  OBVIOUS
<1>5. DOMAIN f = B /\ \A y \in B : g[y] \in Int /\ f[y] = g[y]
  BY <1>1, <1>4 DEF Gives
<1>6. SumFunction(f) = SumFunctionOnSet(g, B)
  <2> HIDE DEF B
  <2> QED
    BY <1>3, <1>5, SumOver
<1> QED
  BY <1>2, <1>4, <1>6 DEF CPUBefore, Earlier, Given

(* The loop of assignTopologyResult computes the spread that TopologyMatch *)
(* takes for the outcome of Filter: for any zones, also overcommitted      *)
(* ones, and wherever the loop breaks out.                                 *)
THEOREM LoopSpreads ==
    ASSUME ZonesAndUnits
    PROVE  Spec => []LoopComputesSpread
<1>1. LoopInv => LoopComputesSpread
  <2> SUFFICES ASSUME LoopInv, done, NEW z \in Zones
               PROVE  result[z]["cpu"] = Positive(minimum(request["cpu"] - CPUBefore(z), wholeFree(z)["cpu"]))
    BY DEF LoopComputesSpread
  <2>1. InputTypes /\ LoopTypes /\ RoundsTaken /\ Completed
    BY DEF LoopInv
  <2>2. PICK k \in 1..Rounds : order[k] = z
    BY <2>1 DEF InputTypes, Turns
  <2>3. CPUBefore(z) = Earlier(k)
    BY <2>1, <2>2, BeforeZone
  <2>4. CASE k < i
    BY <2>1, <2>2, <2>3, <2>4 DEF RoundsTaken, Share
  <2>5. CASE k >= i
    <3>1. /\ Rounds \in Nat /\ i \in 1..(Rounds + 1) /\ k \in 1..(Rounds + 1)
          /\ request["cpu"] \in Nat /\ wholeFree(z)["cpu"] \in Int
      BY <2>1, InputFacts DEF LoopTypes
    <3>2. Earlier(i) >= request["cpu"]
      BY <2>1, <2>5, <3>1 DEF Completed
    <3>3. Earlier(k) >= request["cpu"] /\ Earlier(k) \in Nat
      BY <2>1, <2>5, <3>1, <3>2, EarlierGrows
    <3>4. result[z]["cpu"] = 0
      BY <2>1, <2>2, <2>5 DEF RoundsTaken
    <3> QED
      BY <2>3, <3>1, <3>3, <3>4 DEF Positive, minimum
  <2> QED
    BY <2>1, <2>4, <2>5, InputFacts DEF LoopTypes
<1> QED
  BY <1>1, LoopCorrect, PTL

(* The loop meets every CPU request that the whole free CPUs of the zones  *)
(* can meet, exactly, and takes from no zone more than it has free.        *)
THEOREM LoopMeetsRequest ==
    ASSUME ZonesAndUnits
    PROVE  Spec => []RequestMet
<1>1. LoopInv => RequestMet
  <2> SUFFICES ASSUME LoopInv, done,
                      SumFunction([z \in Zones |-> Positive(wholeFree(z)["cpu"])]) >= request["cpu"]
               PROVE  /\ SumFunction([z \in Zones |-> result[z]["cpu"]]) = request["cpu"]
                      /\ \A z \in Zones : result[z]["cpu"] > 0 => result[z]["cpu"] <= FreeCPU(z)
    BY DEF RequestMet
  <2>1. InputTypes /\ LoopTypes /\ RoundsTaken /\ SumTaken /\ Completed
    BY DEF LoopInv
  <2>2. /\ Rounds \in Nat /\ IsFiniteSet(Zones) /\ request["cpu"] \in Nat
        /\ order \in [1..Rounds -> Zones] /\ Gives \in [Zones -> Nat] /\ i \in 1..(Rounds + 1)
    BY <2>1, InputFacts DEF LoopTypes
  <2>3. Earlier(Rounds + 1) = SumFunctionOnSet(Gives, Zones)
    BY <2>1, EarlierGrows DEF Earlier, Given
  <2>4. Earlier(Rounds + 1) >= request["cpu"]
    BY <2>3 DEF Gives, SumFunction
  <2>5. Earlier(i) >= request["cpu"] /\ Earlier(i) \in Nat
    <3>1. CASE i > Rounds
      <4>1. i = Rounds + 1
        BY <2>2, <3>1
      <4> QED
        BY <2>1, <2>2, <2>4, <4>1, EarlierGrows
    <3>2. CASE ~(i > Rounds)
      BY <2>1, <2>2, <3>2, EarlierGrows DEF Completed
    <3> QED
      BY <3>1, <3>2
  <2>6. SumFunction(Got) = request["cpu"]
    <3>1. SumFunctionOnSet(Got, Zones) = request["cpu"]
      BY <2>1, <2>2, <2>5 DEF SumTaken, minimum
    <3> QED
      BY <3>1 DEF SumFunction, Got
  <2>7. ASSUME NEW z \in Zones, result[z]["cpu"] > 0 PROVE result[z]["cpu"] <= FreeCPU(z)
    <3>1. PICK k \in 1..Rounds : order[k] = z
      BY <2>1 DEF InputTypes, Turns
    <3>2. result[z]["cpu"] = Share(k)
      BY <2>1, <2>2, <2>7, <3>1 DEF RoundsTaken
    <3>3. /\ wholeFree(z)["cpu"] \in Int /\ Earlier(k) \in Nat
      BY <2>1, <2>2, InputFacts, EarlierGrows
    <3>4. result[z]["cpu"] <= wholeFree(z)["cpu"]
      BY <2>2, <2>7, <3>1, <3>2, <3>3 DEF Share, Positive, minimum
    <3>5. PICK a, u \in Nat : a = allocatable[z]["cpu"] /\ u = requested[z]["cpu"]
      BY <2>1 DEF InputTypes, Resources
    <3>6. wholeFree(z)["cpu"] = ((a \div WholeCPU) * WholeCPU) - u
      BY <3>5 DEF wholeFree, Resource, Resources
    <3>7. (a \div WholeCPU) * WholeCPU <= a /\ (a \div WholeCPU) * WholeCPU \in Int
      BY <2>1 DEF InputTypes
    <3>8. result[z]["cpu"] \in Int
      BY <2>1 DEF LoopTypes, Resources
    <3> QED
      BY <3>4, <3>5, <3>6, <3>7, <3>8 DEF FreeCPU
  <2> QED
    BY <2>6, <2>7 DEF Got
<1> QED
  BY <1>1, LoopCorrect, PTL
=============================================================================
