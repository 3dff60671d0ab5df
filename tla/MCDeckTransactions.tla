------------------------- MODULE MCDeckTransactions --------------------------
(* Instances of DeckTransactions for TLC. *)
EXTENDS DeckTransactions, TLC

CONSTANTS owner, stranger, r1, r2, x, z

\* One stranger's request x, and one request z whose body has no slides.
MCOwnerOf == [p \in Pids |-> owner]
MCClientOf == [r \in Requests |-> IF r = x THEN stranger ELSE owner]
MCDeckSize == [r \in Requests |-> IF r = z THEN 0 ELSE 2]
=============================================================================
