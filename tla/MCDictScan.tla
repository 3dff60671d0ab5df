----------------------------- MODULE MCDictScan ------------------------------
(* Instances of DictScan for TLC. *)
EXTENDS DictScan, TLC

\* The hashes differ in every bit, and two of them only in the highest.
MCHash == [k \in Keys |-> {i \in Bits : (k \div 2^i) % 2 = 1}]
=============================================================================
