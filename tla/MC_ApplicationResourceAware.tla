-------------------- MODULE MC_ApplicationResourceAware ---------------------
(* Instance of ApplicationResourceAware for TLC.                           *)
EXTENDS ApplicationResourceAware, TLC

CONSTANTS p1, p2, d1, d2

TwoDeployments == p1 :> d1 @@ p2 :> d2

(* One point and two points of history.                                    *)
Histories == {<<2>>, <<1, 1>>}

OnePolicy == <<"cpu">>

(* Room for one of the two pods on a node with one point of history; more  *)
(* points than some deployments have; a policy for an unknown resource.    *)
Nodes == {[range |-> <<1>>, limit |-> 3, capacity |-> 1],
          [range |-> <<1, 2>>, limit |-> 3, capacity |-> 1],
          [range |-> <<1>>, limit |-> 3, capacity |-> 0]}

(* Goroutines are alike, and so are the pods, each with its deployment.    *)
Identity == p1 :> p1 @@ p2 :> p2 @@ d1 :> d1 @@ d2 :> d2
Swap == p1 :> p2 @@ p2 :> p1 @@ d1 :> d2 @@ d2 :> d1
Symmetry == {f @@ g : f \in {Identity, Swap}, g \in Permutations(Workers)}
=============================================================================
