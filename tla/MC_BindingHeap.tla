--------------------------- MODULE MC_BindingHeap ---------------------------
(* Instance of BindingHeap for TLC: a heap of three levels.                *)
EXTENDS BindingHeap, TLC

Symmetry == Permutations(Ref)
OnePolicy == <<[timeRange |-> 2, count |-> 1]>>
=============================================================================
