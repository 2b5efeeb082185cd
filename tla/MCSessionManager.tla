--------------------------- MODULE MCSessionManager ---------------------------
(* Finite instances of SessionManager for TLC. *)
EXTENDS SessionManager, TLC

CONSTANT n1

(* Every host's automatic name is the same: two ports of one user@host. *)
MCAutoName == [h \in Hosts |-> n1]

EveryOp == AllOps
UseAndKill == {"connect", "use", "kill"}
UseAfterRestore == {"use", "restore"}

(* Objects and clients are interchangeable, and so are the processes. *)
Symmetry == Permutations(Procs) \cup Permutations(Objs) \cup Permutations(Clients)
===============================================================================
