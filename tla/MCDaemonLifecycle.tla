-------------------------- MODULE MCDaemonLifecycle --------------------------
(* Finite instances of DaemonLifecycle for TLC. *)
EXTENDS DaemonLifecycle, TLC

Symmetry == Permutations(Daemons) \cup Permutations(CLIs) \cup Permutations(Names)
===============================================================================
