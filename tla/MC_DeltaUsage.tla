--------------------------- MODULE MC_DeltaUsage ----------------------------
(* Instances of DeltaUsage for TLC.                                        *)
EXTENDS DeltaUsage, TLC

CONSTANTS p1, d1

OnePod == p1 :> d1
OnePoint == {<<1>>}

OnePolicy == <<"cpu">>
TwoPolicies == <<"cpu", "mem">>
=============================================================================
