-------------------------- MODULE MCReconnectMonitor --------------------------
(* Finite instances of ReconnectMonitor for TLC. *)
EXTENDS ReconnectMonitor, TLC

CONSTANT n1

MCAutoName == [h \in Hosts |-> n1]
MCProcs == Handlers \cup Loops

Requests == {"connect", "kill", "use", "reconnect", "restore"}
ConnectKill == {"connect", "kill", "reconnect"}
NoRestore == {"connect", "kill", "use", "reconnect"}
RestoreUse == {"use", "reconnect", "restore"}

Symmetry == Permutations(Handlers) \cup Permutations(Loops) \cup
            Permutations(Objs) \cup Permutations(Clients)
===============================================================================
