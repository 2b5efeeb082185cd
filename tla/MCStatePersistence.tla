-------------------------- MODULE MCStatePersistence --------------------------
(* Finite instances of StatePersistence for TLC. *)
EXTENDS StatePersistence

CONSTANTS n1, n2

(* One server that takes passwords and keys, one that takes keys only. *)
MCAccepts == [n \in Names |-> IF n = n1 THEN {"password", "key"} ELSE {"key", "default"}]
===============================================================================
