---------------------- MODULE MC_HotValueAnnotation -------------------------
(* Instance of HotValueAnnotation for TLC.                                 *)
EXTENDS HotValueAnnotation, TLC

CONSTANTS n1, e1, e2

(* Two events of one node, one of each API.                                *)
Nodes == e1 :> n1 @@ e2 :> n1

(* The event of the older API occurs twice.                                *)
Versions == e1 :> 2 @@ e2 :> 1

OnePolicy == <<[timeRange |-> 1, count |-> 1]>>

(* The collection period that the annotator derives from its policy.       *)
AnnotatorGC == getMaxHotVauleTimeRange(OnePolicy)
=============================================================================
