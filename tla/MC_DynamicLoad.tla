--------------------------- MODULE MC_DynamicLoad ---------------------------
(* Instances of DynamicLoad for TLC.  BackOff is the unit of time; the     *)
(* extra period is the least that suffices for the outages and delays of   *)
(* the instance (in the code it is 30 times BackOff).                      *)
EXTENDS DynamicLoad, TLC

(* A metric with a period longer than the extra time.                      *)
Long == "cpu" :> 8
OneLimit == "cpu" :> 1
=============================================================================
