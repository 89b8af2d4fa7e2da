------------------------ MODULE MC_DeploymentLoad ---------------------------
(* Instance of DeploymentLoad for TLC.                                     *)
EXTENDS DeploymentLoad

CONSTANT ns1

(* All in one namespace: keys of two namespaces have nothing in common.    *)
Namespaces == [d \in Deploy |-> ns1]
=============================================================================
