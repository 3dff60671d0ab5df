----------------------------- MODULE MCAccounts ------------------------------
(* Instances of Accounts for TLC. *)
EXTENDS Accounts

CONSTANTS e1, e2, g1, g2

\* g1 has had both e-mails, and e1 belongs to two Google identities.
MCTickets == {<<g1, e1>>, <<g1, e2>>, <<g2, e1>>}
=============================================================================
