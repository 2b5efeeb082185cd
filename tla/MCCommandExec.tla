----------------------------- MODULE MCCommandExec -----------------------------
(* Finite instances of CommandExec for TLC. *)
EXTENDS CommandExec

(* Every kind of request, those with a password under a timeout only. *)
EveryKind == {r \in AllRequests : r.timeout \/ ~r.sudo}

LocalTimed == [mode : {"stream"}, kind : {"local"}, sudo : {FALSE}, timeout : {TRUE}]
LocalBuffered == [mode : {"buffered"}, kind : {"local"}, sudo : {FALSE}, timeout : {TRUE}]
===============================================================================
