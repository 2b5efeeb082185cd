---------------------------- MODULE MCCliRequest ----------------------------
(* Finite instances of CliRequest for TLC. *)
EXTENDS CliRequest, FiniteSets, TLC

CONSTANTS n1, any, killer

(* Every host's automatic name is the same: two ports of one user@host. *)
MCAutoName == [h \in Hosts |-> n1]

(* The codes that an exit status cannot hold: that of a command killed by a  *)
(* signal, which becomes 255, and one which becomes zero.                    *)
MCCodes == {-1, 256}

(* One CLI, `any', makes every command, of each kind one: kill and use go by *)
(* the name, exec by the default, streams have no -t; a forward is a         *)
(* transfer to the handler.                                                  *)
EveryKind ==
    {k \in AllCommands : /\ k.op # "forward" /\ ~k.timed
                         /\ k.op \in {"kill", "use"} => k.name = n1
                         /\ k.op = "exec" => k.name = None}

(* The others are two connects and a kill, with a destination enough for a   *)
(* failed connect to take the destination's session away and for the other   *)
(* connect to put its own in the place.                                      *)
MCCommands ==
    [c \in CLIs |-> CASE c = any    -> EveryKind
                      [] c = killer -> {Plain("kill", None, n1)}
                      [] OTHER      -> {Plain("connect", h, None) : h \in Hosts}]

(* Any two of them meet with all incidents, and more than two in a race of   *)
(* the destination without them and with one code.  Whether a connect or the *)
(* kill is answered changes nothing for the others, so they end before that. *)
RaceBound ==
    /\ daemon = "up" /\ logfile = "open" /\ unwritten = {}
    /\ cmd[any] = None \/ (cmd[any].op = "dest" /\ ~cmd[any].stream)
    /\ \A r \in ran : r.code = 256
    /\ \A c \in CLIs : cpc[c] = "exit" => c = any /\ reply[c][msg[c]] # None
    /\ \A c \in CLIs \ {any} : hpc[c][1] # "write"

PairOrRace == Cardinality({c \in CLIs : cmd[c] # None}) > 2 => RaceBound

CommandsOf(ops) == [c \in CLIs |-> {k \in AllCommands : k.op \in ops}]
NoLogOps == CommandsOf({"use", "forward", "connect"})
DestOps  == CommandsOf({"dest", "connect", "kill"})

Symmetry == Permutations(CLIs \ {any, killer}) \cup Permutations(Hosts)
=============================================================================
