------------------------------ MODULE MCPsync --------------------------------
(* Instances of Psync for TLC. *)
EXTENDS Psync, TLC

\* The two replicas of the first master.
CONSTANTS n2, n3

\* They start alike, and no action tells them apart.
Replicas == Permutations({n2, n3})
=============================================================================
