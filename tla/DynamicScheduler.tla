------------------------- MODULE DynamicScheduler ---------------------------
(***************************************************************************)
(* How the Dynamic plugin keeps a burst of pods off one node: Score        *)
(* (plugins/dynamic) lowers the score of a node by its hot value, which    *)
(* counts the pods that PostBind has recorded for it.  The module is the   *)
(* records of BindingRecords with PostBind as the one who adds to them.    *)
(* PostBind runs at the end of a binding cycle, beside the scheduling      *)
(* cycles of the next pods, which do not know of it yet.                   *)
(*                                                                         *)
(* Usage is the load that the annotations give; it does not change during  *)
(* a burst.  Scores are computed in percent, with whole weights.           *)
(***************************************************************************)
EXTENDS BindingRecords

CONSTANTS
    Weight,       \* Weight[i]: weight of the i-th priority policy
    Usage,        \* Usage[n][i]: percent of the i-th metric, or NoUsage
    NoUsage,      \* the annotation is missing, malformed or expired
    MaxInFlight   \* bound on the binding cycles that run at a time

ASSUME WeightAssumption ==
    /\ IsFiniteSet(DOMAIN Weight)
    /\ \A i \in DOMAIN Weight : Weight[i] \in Nat \ {0}
    /\ \A n \in Node, i \in DOMAIN Weight : Usage[n][i] \in Nat \cup {NoUsage}
ASSUME BurstAssumption == IsFiniteSet(Node) /\ MaxInFlight \in Nat

VARIABLE inFlight  \* inFlight[n]: binding cycles before their PostBind

burstVars == <<vars, inFlight>>

-----------------------------------------------------------------------------

MaxNodeScore == 100

(* What a metric contributes; without a usage nothing.                     *)
getScore(n, i) == IF Usage[n][i] = NoUsage THEN 0 ELSE (MaxNodeScore - Usage[n][i]) * Weight[i]

(* int() rounds to zero; the weight of a metric without usage counts.      *)
Truncate(a, b) == IF a >= 0 THEN a \div b ELSE -((-a) \div b)

getNodeScore(n) ==
    IF DOMAIN Weight = {}
    THEN 0
    ELSE Truncate(SumFunction([i \in DOMAIN Weight |-> getScore(n, i)]), SumFunction(Weight))

(* Mutant: negative values are kept.                                       *)
NormalizeFromAbove(value) == IF value > MaxNodeScore THEN MaxNodeScore ELSE value

NormalizeScore(value) ==
    IF value < 0 THEN 0 ELSE IF value > MaxNodeScore THEN MaxNodeScore ELSE value

(* Mutant: bindings of the last cycles are not looked at.                  *)
ScoreByUsage(n) == NormalizeScore(getNodeScore(n))

Score(n) == NormalizeScore(getNodeScore(n) - NodeHotValue(n) * 10)

-----------------------------------------------------------------------------

BurstInit ==
    /\ NewBindingRecords
    /\ inFlight = [n \in Node |-> 0]

(* A scheduling cycle ends with the choice of a node that no other beats.  *)
Schedule(n) ==
    /\ SumFunction(inFlight) < MaxInFlight
    /\ \A other \in Node : Score(n) >= Score(other)
    /\ inFlight' = [inFlight EXCEPT ![n] = @ + 1]
    /\ UNCHANGED vars

PostBind(n) ==
    /\ inFlight[n] > 0
    /\ \E r \in Ref : AddBinding([ref |-> r, node |-> n, timestamp |-> now])
    /\ inFlight' = [inFlight EXCEPT ![n] = @ - 1]

BindingFails(n) ==
    /\ inFlight[n] > 0
    /\ inFlight' = [inFlight EXCEPT ![n] = @ - 1]
    /\ UNCHANGED vars

BurstNext ==
    \/ \E n \in Node : Schedule(n) \/ PostBind(n) \/ BindingFails(n)
    \/ (BindingsGC \/ Tick) /\ UNCHANGED inFlight

BurstSpec == BurstInit /\ [][BurstNext]_burstVars

-----------------------------------------------------------------------------

(* The records and the binding cycles are what they should be, and every   *)
(* score is in the range that the framework accepts, however hot a node.   *)
BurstTypeOK ==
    /\ TypeOK
    /\ inFlight \in [Node -> 0..MaxInFlight]
    /\ \A n \in Node : Score(n) \in 0..MaxNodeScore

Bound(n) == GetLastNodeBindingCount(n, GCTimeRange) + inFlight[n]

(* Every binding made so far counts in every policy: the burst is on.      *)
BurstLasts ==
    \A b \in added, i \in DOMAIN HotValue :
        b \in bindings /\ b.timestamp > now - HotValue[i].timeRange

LeastCount == LET counts == {HotValue[i].count : i \in DOMAIN HotValue}
              IN  CHOOSE c \in counts : \A d \in counts : c <= d

(* "Avoid hot spots": in a burst no node gets ahead of one with the same   *)
(* usage by more than a policy's count and the binding cycles that have    *)
(* not come to PostBind, as long as the other's score is not used up.      *)
HotSpotAvoided ==
    BurstLasts => \A a, b \in Node :
        Usage[a] = Usage[b] /\ Score(b) > 0
            => Bound(a) <= Bound(b) + LeastCount - 1 + MaxInFlight
=============================================================================
