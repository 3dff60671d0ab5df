------------------------ MODULE MCClusterElection ----------------------------
(* Instances of ClusterElection for TLC. *)
EXTENDS ClusterElection, TLC

CONSTANTS old, m1, m2, r1, r2

MCName == old :> 1 @@ m1 :> 2 @@ m2 :> 3 @@ r1 :> 4 @@ r2 :> 5

\* The masters other than the failing one are interchangeable: their names are
\* never compared.
Symmetry == Permutations(Masters \ {Old})
=============================================================================
