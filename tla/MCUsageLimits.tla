---------------------------- MODULE MCUsageLimits ----------------------------
(* Instances of UsageLimits for TLC. *)
EXTENDS UsageLimits, TLC

CONSTANTS free, f1, f2

\* Several connections of one FREE user; for a PRO user checkLimits only calls next().
MCPlanOf == free :> "FREE"
MCClientOf == [r \in Requests |-> free]
Connections == Permutations(Requests)
=============================================================================
