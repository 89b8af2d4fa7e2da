----------------------- MODULE MC_DynamicScheduler --------------------------
(* Instances of DynamicScheduler for TLC.                                  *)
EXTENDS DynamicScheduler, TLC

CONSTANTS n1, n2, n3

Symmetry == Permutations(Ref)

(* Two nodes with the same usage, one that is overcommitted and, for one   *)
(* of its metrics, not measured.                                           *)
Weights == <<3, 5>>
Usages == n1 :> <<40, 70>> @@ n2 :> <<40, 70>> @@ n3 :> <<130, NoUsage>>

Policies == <<[timeRange |-> 3, count |-> 1], [timeRange |-> 2, count |-> 2]>>
=============================================================================
