---------------------------- MODULE MCPortForward ----------------------------
(* Finite instances of PortForward for TLC. *)
EXTENDS PortForward, TLC

AllLocal  == [f \in Fwds |-> "local"]
AllRemote == [f \in Fwds |-> "remote"]

(* One forward of each type, for two forwards. *)
Mixed == CHOOSE t \in [Fwds -> {"local", "remote"}] : \E f, g \in Fwds : t[f] # t[g]

Symmetry == Permutations(Handlers) \cup Permutations(Loops) \cup Permutations(Conns)
===============================================================================
