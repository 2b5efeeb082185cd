------------------------------ MODULE CliRequest ------------------------------
(***************************************************************************)
(* A CLI command from its arguments to its exit code: the requests it      *)
(* makes (cmd/gssh/commands.go, dest.go), each over a connection of its    *)
(* own with its own deadline (client.go), the handler that serves the      *)
(* connection and audits what it did (internal/server/server.go,           *)
(* internal/audit), Stop closing connections and log, and a daemon that     *)
(* dies instead.                                                           *)
(*                                                                         *)
(* A handler's steps are those between which other requests can change     *)
(* what it goes by: the registration of a session, its dial and the        *)
(* clean-up after a dial that failed, a lookup and the use of what was     *)
(* found.  The interleavings inside a dial, an execution, a forward or a   *)
(* transfer are those of SessionManager, CommandExec, PortForward and      *)
(* FileTransfer.  The handler does not notice that its CLI has gone; it    *)
(* does the work and fails to write the answer.                            *)
(***************************************************************************)
EXTENDS Integers, Sequences

CONSTANTS
    CLIs,      \* CLI processes, one command each
    Hosts,     \* a host and port to log in to
    Names,     \* session names
    AutoName,  \* [Hosts -> Names]: user@host, which the port is not part of
    Codes,     \* what an execution can report as exit code
    Commands,  \* Commands[c]: what the CLI may have been called for
    Incidents, \* what can happen besides the requests, of AllIncidents
    None

Local == "local"
AllIncidents == {"deadline", "stop", "death", "log open", "log write"}
AllOps == {"connect", "dest", "local", "use", "kill", "exec", "run", "scp", "forward"}

ASSUME NoneAssumption == None \notin Names \cup Hosts \cup CLIs
(* -1 is what os/exec reports of a command killed by a signal; what an SSH  *)
(* server sends may be above 255.                                           *)
ASSUME CodesAssumption == Codes \subseteq Int
ASSUME IncidentsAssumption == Incidents \subseteq AllIncidents
ASSUME AutoNameAssumption == AutoName \in [Hosts -> Names]

VARIABLES
    reg,      \* the registry: reg[n] is a session [host, by] or None; a CLI's
              \* requests make one session at most, so `by' tells sessions apart
    default,  \* the default session's name, or None
    live,     \* the sessions that have had a connection
    daemon,   \* "up", "stopping" (from Stop until the drain ends), "down", "dead"
    logfile,  \* the logger's file: "open", "none" (it could not be opened), "closed"
    log,      \* the requests with an entry in the audit log
    cmd,      \* cmd[c]: [op, host, name, stream, timed], or None before it starts
    cpc,      \* the CLI: "idle", "dial", "wait", "exit"
    msg,      \* the request it is making: a number into Messages(op)
    exit,     \* its exit code, None before the exit
    hpc,      \* hpc[c][i]: the handler of its i-th connection
    found,    \* found[c][i]: the session that handler has made or looked up
    outcome,  \* outcome[c][i]: what the handler has to answer
    reply,    \* the answer, in the socket of the i-th connection
    ran,      \* history: the commands that ran: [cli, host, code]
    unwritten, \* history: the requests whose entry could not be written
    moved     \* history: destinations whose session was taken out of the
              \* registry after their connect had registered or found it

regVars  == <<reg, default, live>>
logVars  == <<logfile, log, unwritten>>
cliVars  == <<cmd, cpc, msg, exit>>
connVars == <<hpc, found, outcome, reply>>
cvars    == <<regVars, daemon, logVars, cliVars, connVars, ran, moved>>

-------------------------------------------------------------------------------
(* What the commands ask.                                                    *)

(* handleDestination connects and then executes; every other command is one  *)
(* request.                                                                  *)
Messages(op) == IF op = "dest" THEN <<"connect", "exec">> ELSE <<op>>
Message(c, i) == Messages(cmd[c].op)[i]
LastMsg(c) == Len(Messages(cmd[c].op))
IsLast(c) == msg[c] = LastMsg(c)

(* sendRequest, sendRequestWithTimeout and sendRequestWithCmdTimeout always  *)
(* set a deadline, sendStreamRequest only with -t.                           *)
Runs(m) == m \in {"exec", "run"}
HasDeadline(c) == ~(Runs(Message(c, msg[c])) /\ cmd[c].stream /\ ~cmd[c].timed)

(* The name a destination's session goes by, the name and host of a request. *)
ConnectName(c) == IF cmd[c].name = None THEN AutoName[cmd[c].host] ELSE cmd[c].name

ExecName(c) ==
    IF cmd[c].op = "dest" THEN ConnectName(c)
    ELSE IF cmd[c].name = None THEN default ELSE cmd[c].name

(* Entries are written for these actions (of kill only when it succeeds);    *)
(* local, use and the forward requests have none.                            *)
Logged(m, o) == \/ m \in {"connect", "exec", "run", "scp"}
                \/ m = "kill" /\ o.ok

Command(op, host, name, stream, timed) ==
    [op |-> op, host |-> host, name |-> name, stream |-> stream, timed |-> timed]
Plain(op, host, name) == Command(op, host, name, FALSE, FALSE)

(* A destination given a name with -n, or going by its automatic one; a      *)
(* command for it may be streamed, with -t or without.                       *)
GivenNames == {None} \cup (Names \ {AutoName[h] : h \in Hosts})
ConnectCommands == {Plain("connect", h, n) : h \in Hosts, n \in GivenNames}
DestCommands ==
    {Plain("dest", h, n) : h \in Hosts, n \in GivenNames}
    \cup {Command("dest", h, None, TRUE, t) : h \in Hosts, t \in BOOLEAN}

(* Commands for a session: by name, or the default one.                      *)
SessionCommands ==
    {Plain(op, None, n) : op \in {"exec", "kill", "use"}, n \in Names \cup {None}}
LocalCommands == {Plain("local", None, n) : n \in Names}
RunCommands   == {Plain("run", None, None)}
OtherCommands == {Plain(op, None, None) : op \in {"scp", "forward"}}

AllCommands ==
    ConnectCommands \cup DestCommands \cup SessionCommands
        \cup LocalCommands \cup RunCommands \cup OtherCommands

ASSUME CommandsAssumption == Commands \in [CLIs -> SUBSET AllCommands]

(* None stands for the absence of a session, an answer or a command.         *)
ASSUME NoRecordAssumption ==
    /\ None \notin [host : Hosts \cup {Local}, by : CLIs]
    /\ None \notin [ok : BOOLEAN, code : Codes \cup {0, 1}]
    /\ None \notin AllCommands

-------------------------------------------------------------------------------
(* The CLI process.                                                          *)

Start(c, k) ==
    /\ cpc[c] = "idle" /\ k \in Commands[c]
    /\ cmd' = [cmd EXCEPT ![c] = k]
    /\ cpc' = [cpc EXCEPT ![c] = "dial"]
    /\ msg' = [msg EXCEPT ![c] = 1]
    /\ UNCHANGED <<regVars, daemon, logVars, exit, connVars, ran, moved>>

Exit(c, code) ==
    /\ cpc' = [cpc EXCEPT ![c] = "exit"]
    /\ exit' = [exit EXCEPT ![c] = code]
    /\ UNCHANGED <<cmd, msg>>

(* dialDaemon and WriteMessage: the request is in the socket of a new        *)
(* connection that the daemon has accepted.                                  *)
Send(c) ==
    /\ cpc[c] = "dial" /\ daemon = "up"
    /\ cpc' = [cpc EXCEPT ![c] = "wait"]
    /\ hpc' = [hpc EXCEPT ![c][msg[c]] = "reading"]
    /\ UNCHANGED <<regVars, daemon, logVars, cmd, msg, exit, found, outcome, reply, ran, moved>>

(* No daemon, or one that is stopping: the life of the daemon is the         *)
(* subject of DaemonLifecycle.                                               *)
DialFails(c) ==
    /\ cpc[c] = "dial" /\ daemon # "up"
    /\ Exit(c, 1)
    /\ UNCHANGED <<regVars, daemon, logVars, connVars, ran, moved>>

(* The deadline of the connection passes before there is an answer, or the   *)
(* daemon closes the connection.                                             *)
GiveUp(c) ==
    /\ cpc[c] = "wait" /\ reply[c][msg[c]] = None
    /\ (HasDeadline(c) /\ "deadline" \in Incidents) \/ daemon # "up"
    /\ Exit(c, 1)
    /\ UNCHANGED <<regVars, daemon, logVars, connVars, ran, moved>>

(* os.Exit passes the low eight bits of a code on to the parent.             *)
Status(code) == code % 256

(* MsgError, TransferResult.Success = false and StreamEnd.Error end the      *)
(* command with exit code 1, a command's own code becomes the CLI's.         *)
ReadError(c) ==
    LET o == reply[c][msg[c]] IN
    /\ cpc[c] = "wait" /\ o # None /\ ~o.ok
    /\ Exit(c, 1)
    /\ UNCHANGED <<regVars, daemon, logVars, connVars, ran, moved>>

(* Mutant of ReadLast: the exit code of the command is not passed on.        *)
ReadLastZero(c) ==
    LET o == reply[c][msg[c]] IN
    /\ cpc[c] = "wait" /\ o # None /\ o.ok /\ IsLast(c)
    /\ Exit(c, 0)
    /\ UNCHANGED <<regVars, daemon, logVars, connVars, ran, moved>>

ReadLast(c) ==
    LET o == reply[c][msg[c]] IN
    /\ cpc[c] = "wait" /\ o # None /\ o.ok /\ IsLast(c)
    /\ Exit(c, Status(o.code))
    /\ UNCHANGED <<regVars, daemon, logVars, connVars, ran, moved>>

ReadNext(c) ==
    LET o == reply[c][msg[c]] IN
    /\ cpc[c] = "wait" /\ o # None /\ o.ok /\ ~IsLast(c)
    /\ cpc' = [cpc EXCEPT ![c] = "dial"]
    /\ msg' = [msg EXCEPT ![c] = @ + 1]
    /\ UNCHANGED <<regVars, daemon, logVars, cmd, exit, connVars, ran, moved>>

-------------------------------------------------------------------------------
(* The handler of a connection: handleConn and dispatch.                     *)

Ok == [ok |-> TRUE, code |-> 0]
Error == [ok |-> FALSE, code |-> 0]

(* Manager.Get, with the default already resolved.                           *)
Get(n) == IF n = None THEN None ELSE reg[n]

Reading(c, i, m) == hpc[c][i] = "reading" /\ Message(c, i) = m

Answer(c, i, o) ==
    /\ hpc' = [hpc EXCEPT ![c][i] = "audit"]
    /\ outcome' = [outcome EXCEPT ![c][i] = o]
    /\ UNCHANGED <<daemon, logVars, cliVars, found, reply>>

(* The handler goes on with a session it has made or looked up.              *)
Goes(c, i, pc, s) ==
    /\ hpc' = [hpc EXCEPT ![c][i] = pc]
    /\ found' = [found EXCEPT ![c][i] = s]
    /\ UNCHANGED <<daemon, logVars, cliVars, outcome, reply, ran, moved>>

Session(host, by) == [host |-> host, by |-> by]
Registered(s) == \E n \in Names : reg[n] = s
Dialling(s) == hpc[s.by][1] = "dial"

(* Destinations between their connect's finding of a session and the lookup  *)
(* of their exec, which the removal of that name leaves without a session.   *)
Between(n) == {d \in CLIs : /\ cmd[d] # None /\ cmd[d].op = "dest" /\ ConnectName(d) = n
                            /\ hpc[d][1] \notin {"none", "reading"} /\ found[d][2] = None}

(* A name leaves the registry, and with it the default it was.               *)
Remove(n) ==
    /\ reg' = [reg EXCEPT ![n] = None]
    /\ default' = IF default = n THEN None ELSE default
    /\ moved' = moved \cup Between(n)

(* ConnectSSH: a registered session of the same host is used, one of         *)
(* another host is a collision.                                              *)

ConnectOther(c, i) ==
    LET n == ConnectName(c) IN
    /\ Reading(c, i, "connect")
    /\ reg[n] # None /\ reg[n].host # cmd[c].host
    /\ Answer(c, i, Error)
    /\ UNCHANGED <<regVars, ran, moved>>

(* Mutant of ConnectSame: the port is not compared.                          *)
ConnectSameName(c, i) ==
    LET n == ConnectName(c) IN
    /\ Reading(c, i, "connect")
    /\ reg[n] # None /\ reg[n].host # Local
    /\ default' = n
    /\ Goes(c, i, "await", reg[n])
    /\ UNCHANGED <<reg, live>>

ConnectSame(c, i) ==
    LET n == ConnectName(c) IN
    /\ Reading(c, i, "connect")
    /\ reg[n] # None /\ reg[n].host = cmd[c].host
    /\ default' = n
    /\ Goes(c, i, "await", reg[n])
    /\ UNCHANGED <<reg, live>>

(* reconnectSSH adopts the new client only of a session still registered;    *)
(* one that its first dial is under way for is not dialled again.            *)
Redialled(s) ==
    /\ Registered(s) /\ ~Dialling(s)
    /\ live' = live \cup {s}

(* The session is connected, or another's dial of it succeeds (AwaitClient), *)
(* or it is offline and redialled; each may fail.                            *)
ConnectAwaits(c, i) ==
    /\ hpc[c][i] = "await"
    /\ \/ found[c][i] \in live /\ UNCHANGED live /\ Answer(c, i, Ok)
       \/ Redialled(found[c][i]) /\ Answer(c, i, Ok)
       \/ UNCHANGED live /\ Answer(c, i, Error)
    /\ UNCHANGED <<reg, default, ran, moved>>

(* A new session is registered, and the default, before its dial.            *)
ConnectNew(c, i) ==
    LET n == ConnectName(c) s == Session(cmd[c].host, c) IN
    /\ Reading(c, i, "connect") /\ reg[n] = None
    /\ reg' = [reg EXCEPT ![n] = s] /\ default' = n
    /\ Goes(c, i, "dial", s)
    /\ UNCHANGED live

(* Mutant of ConnectDialled: the client goes to the session that has the name *)
(* after the dial.                                                           *)
ConnectDialledByName(c, i) ==
    /\ hpc[c][i] = "dial"
    /\ live' = live \cup {reg[ConnectName(c)]} /\ Answer(c, i, Ok)
    /\ UNCHANGED <<reg, default, ran, moved>>

(* The client is adopted unless the session was disconnected during the      *)
(* dial, by a kill or by Stop: it is then no longer registered, as it is     *)
(* also when a failed connect has cleaned up its name.                       *)
ConnectDialled(c, i) ==
    /\ hpc[c][i] = "dial"
    /\ \/ live' = live \cup {found[c][i]} /\ Answer(c, i, Ok)
       \/ ~Registered(found[c][i]) /\ UNCHANGED live /\ Answer(c, i, Error)
    /\ UNCHANGED <<reg, default, ran, moved>>

(* The session is set offline, which others can see before it is removed.    *)
ConnectFails(c, i) ==
    /\ hpc[c][i] = "dial"
    /\ Goes(c, i, "undo", found[c][i])
    /\ UNCHANGED regVars

(* The removal goes by the name: it takes what is registered under it now.   *)
ConnectUndo(c, i) ==
    /\ hpc[c][i] = "undo"
    /\ Remove(ConnectName(c))
    /\ Answer(c, i, Error)
    /\ UNCHANGED <<live, ran>>

LocalRequest(c, i) ==
    LET n == cmd[c].name s == Session(Local, c) IN
    /\ Reading(c, i, "local")
    /\ \/ /\ reg[n] = None
          /\ reg' = [reg EXCEPT ![n] = s] /\ default' = n
          /\ live' = live \cup {s} /\ Answer(c, i, Ok)
       \/ /\ reg[n] # None /\ reg[n].host = Local
          /\ default' = n /\ UNCHANGED <<reg, live>> /\ Answer(c, i, Ok)
       \/ /\ reg[n] # None /\ reg[n].host # Local
          /\ UNCHANGED regVars /\ Answer(c, i, Error)
    /\ UNCHANGED <<ran, moved>>

UseUnknown(c, i) ==
    /\ Reading(c, i, "use") /\ Get(ExecName(c)) = None
    /\ Answer(c, i, Error)
    /\ UNCHANGED <<regVars, ran, moved>>

(* Use sets the default before it knows whether a redial succeeds.           *)
UseRequest(c, i) ==
    LET n == ExecName(c) IN
    /\ Reading(c, i, "use") /\ Get(n) # None
    /\ default' = n
    /\ \/ UNCHANGED live /\ (Answer(c, i, Ok) \/ Answer(c, i, Error))
       \/ Redialled(reg[n]) /\ Answer(c, i, Ok)
    /\ UNCHANGED <<reg, ran, moved>>

KillUnknown(c, i) ==
    /\ Reading(c, i, "kill") /\ Get(ExecName(c)) = None
    /\ Answer(c, i, Error)
    /\ UNCHANGED <<regVars, ran, moved>>

KillRequest(c, i) ==
    LET n == ExecName(c) IN
    /\ Reading(c, i, "kill") /\ Get(n) # None
    /\ Remove(n)
    /\ Answer(c, i, Ok)
    /\ UNCHANGED <<live, ran>>

(* Exec and ExecStream: Manager.Get first, then the client, which may be     *)
(* long in coming, then the command.                                         *)
ExecLookup(c, i) ==
    LET n == ExecName(c) IN
    /\ Reading(c, i, "exec") /\ Get(n) # None
    /\ Goes(c, i, "work", reg[n])
    /\ UNCHANGED regVars

ExecNotFound(c, i) ==
    /\ Reading(c, i, "exec") /\ Get(ExecName(c)) = None
    /\ Answer(c, i, Error)
    /\ UNCHANGED <<regVars, ran, moved>>

(* The command runs to its end and its code is the answer; or the call fails *)
(* although it ran (timeout, lost connection, an answer above the frame      *)
(* limit); or no exit status arrives, which a buffered execution reports as  *)
(* code 1 and no error.                                                      *)
NoStatus == [ok |-> TRUE, code |-> 1]

Unknown(c, i) ==
    \/ Answer(c, i, Error)
    \/ ~cmd[c].stream /\ Answer(c, i, NoStatus)

RunsOn(c, i, host) ==
    \E code \in Codes :
        /\ ran' = ran \cup {[cli |-> c, host |-> host, code |-> code]}
        /\ Answer(c, i, [ok |-> TRUE, code |-> code]) \/ Unknown(c, i)

ExecRuns(c, i) ==
    /\ hpc[c][i] = "work" /\ found[c][i] \in live
    /\ RunsOn(c, i, found[c][i].host)
    /\ UNCHANGED <<regVars, moved>>

(* No client, or the command could not be started.                           *)
ExecFails(c, i) ==
    /\ hpc[c][i] = "work"
    /\ Unknown(c, i)
    /\ UNCHANGED <<regVars, ran, moved>>

RunRequest(c, i) ==
    /\ Reading(c, i, "run")
    /\ RunsOn(c, i, Local) \/ (UNCHANGED ran /\ Unknown(c, i))
    /\ UNCHANGED <<regVars, moved>>

(* Transfers (scp, sftp) and forwards, by their answer alone.                *)
OtherRequest(c, i) ==
    /\ Reading(c, i, "scp") \/ Reading(c, i, "forward")
    /\ Answer(c, i, Ok) \/ Answer(c, i, Error)
    /\ UNCHANGED <<regVars, ran, moved>>

(* audit.Log appends the entry; without a file it does nothing, and an error *)
(* of the write is not looked at by the handler.                             *)
Audit(c, i) ==
    LET entry == {r \in {<<c, i>>} : Logged(Message(c, i), outcome[c][i])} IN
    /\ hpc[c][i] = "audit"
    /\ hpc' = [hpc EXCEPT ![c][i] = "write"]
    /\ \/ logfile = "open" /\ log' = log \cup entry /\ UNCHANGED unwritten
       \/ logfile = "open" /\ "log write" \in Incidents
          /\ unwritten' = unwritten \cup entry /\ UNCHANGED log
       \/ logfile # "open" /\ UNCHANGED <<log, unwritten>>
    /\ UNCHANGED <<regVars, daemon, logfile, cliVars, found, outcome, reply, ran, moved>>

(* WriteMessage, which fails once Stop has closed the connection.            *)
Write(c, i) ==
    /\ hpc[c][i] = "write"
    /\ hpc' = [hpc EXCEPT ![c][i] = "done"]
    /\ \/ reply' = [reply EXCEPT ![c][i] = outcome[c][i]]
       \/ daemon # "up" /\ UNCHANGED reply
    /\ UNCHANGED <<regVars, daemon, logVars, cliVars, found, outcome, ran, moved>>

(* Stop closed the connection before the request was read.                   *)
ReadFails(c, i) ==
    /\ hpc[c][i] = "reading" /\ daemon # "up"
    /\ hpc' = [hpc EXCEPT ![c][i] = "done"]
    /\ UNCHANGED <<regVars, daemon, logVars, cliVars, found, outcome, reply, ran, moved>>

-------------------------------------------------------------------------------
(* Stop, on a signal or a request: the sessions are killed, the connections  *)
(* closed, and when the last handler has ended the audit log is closed.      *)
StopBegins ==
    /\ "stop" \in Incidents /\ daemon = "up"
    /\ daemon' = "stopping"
    /\ reg' = [n \in Names |-> None]
    /\ default' = None
    /\ moved' = moved \cup UNION {Between(n) : n \in Names}
    /\ UNCHANGED <<live, logVars, cliVars, connVars, ran>>

(* Mutant of StopEnds: the log is closed without waiting for the handlers.   *)
StopEndsAtOnce ==
    /\ daemon = "stopping"
    /\ daemon' = "down"
    /\ logfile' = IF logfile = "open" THEN "closed" ELSE logfile
    /\ UNCHANGED <<regVars, log, unwritten, cliVars, connVars, ran, moved>>

StopEnds ==
    /\ daemon = "stopping"
    /\ \A c \in CLIs, i \in {1, 2} : hpc[c][i] \in {"none", "done"}
    /\ daemon' = "down"
    /\ logfile' = IF logfile = "open" THEN "closed" ELSE logfile
    /\ UNCHANGED <<regVars, log, unwritten, cliVars, connVars, ran, moved>>

(* A signal that cannot be caught, a panic of a handler, a loss of power:    *)
(* every handler stops where it is and every connection is closed.           *)
Dies ==
    /\ "death" \in Incidents /\ daemon \in {"up", "stopping"}
    /\ daemon' = "dead"
    /\ UNCHANGED <<regVars, logVars, cliVars, connVars, ran, moved>>

-------------------------------------------------------------------------------
Init ==
    /\ reg = [n \in Names |-> None] /\ default = None /\ live = {}
    /\ daemon = "up"
    /\ logfile \in {"open"} \cup {f \in {"none"} : "log open" \in Incidents}
    /\ log = {} /\ unwritten = {}
    /\ cmd = [c \in CLIs |-> None] /\ cpc = [c \in CLIs |-> "idle"]
    /\ msg = [c \in CLIs |-> 1] /\ exit = [c \in CLIs |-> None]
    /\ hpc = [c \in CLIs |-> [i \in {1, 2} |-> "none"]]
    /\ found = [c \in CLIs |-> [i \in {1, 2} |-> None]]
    /\ outcome = [c \in CLIs |-> [i \in {1, 2} |-> None]]
    /\ reply = [c \in CLIs |-> [i \in {1, 2} |-> None]]
    /\ ran = {} /\ moved = {}

Cli(c) == \/ Send(c) \/ DialFails(c) \/ GiveUp(c)
          \/ ReadError(c) \/ ReadLast(c) \/ ReadNext(c)

Connect(c, i) ==
    \/ ConnectOther(c, i) \/ ConnectSame(c, i) \/ ConnectAwaits(c, i)
    \/ ConnectNew(c, i) \/ ConnectDialled(c, i) \/ ConnectFails(c, i) \/ ConnectUndo(c, i)

Handler(c, i) ==
    \/ Connect(c, i) \/ LocalRequest(c, i)
    \/ UseUnknown(c, i) \/ UseRequest(c, i) \/ KillUnknown(c, i) \/ KillRequest(c, i)
    \/ ExecLookup(c, i) \/ ExecNotFound(c, i) \/ ExecRuns(c, i) \/ ExecFails(c, i)
    \/ RunRequest(c, i) \/ OtherRequest(c, i)
    \/ Audit(c, i) \/ Write(c, i) \/ ReadFails(c, i)

Next ==
    \/ \E c \in CLIs, k \in AllCommands : Start(c, k)
    \/ \E c \in CLIs : Cli(c)
    \/ \E c \in CLIs, i \in {1, 2} : daemon # "dead" /\ Handler(c, i)
    \/ StopBegins \/ StopEnds \/ Dies

Spec == Init /\ [][Next]_cvars

-------------------------------------------------------------------------------
(* The values the variables range over.                                      *)
Sessions == [host : Hosts \cup {Local}, by : CLIs]
Outcomes == [ok : BOOLEAN, code : Codes \cup {0, 1}]
HandlerPcs == {"none", "reading", "dial", "undo", "await", "work", "audit", "write", "done"}

TypeOK ==
    /\ reg \in [Names -> Sessions \cup {None}]
    /\ default \in Names \cup {None}
    /\ live \subseteq Sessions
    /\ daemon \in {"up", "stopping", "down", "dead"}
    /\ logfile \in {"open", "none", "closed"}
    /\ log \subseteq CLIs \X {1, 2} /\ unwritten \subseteq CLIs \X {1, 2}
    /\ cmd \in [CLIs -> AllCommands \cup {None}]
    /\ cpc \in [CLIs -> {"idle", "dial", "wait", "exit"}]
    /\ msg \in [CLIs -> {1, 2}]
    /\ exit \in [CLIs -> 0..255 \cup {None}]
    /\ hpc \in [CLIs -> [{1, 2} -> HandlerPcs]]
    /\ found \in [CLIs -> [{1, 2} -> Sessions \cup {None}]]
    /\ outcome \in [CLIs -> [{1, 2} -> Outcomes \cup {None}]]
    /\ reply \in [CLIs -> [{1, 2} -> Outcomes \cup {None}]]
    /\ ran \subseteq [cli : CLIs, host : Hosts \cup {Local}, code : Codes]
    /\ moved \subseteq CLIs

(* A destination means its host: the command of `gssh user@host command'     *)
(* runs on the host and port named and nowhere else, although connect and    *)
(* exec are two requests with other agents' requests in between - unless     *)
(* the session was taken out of the registry in between: by a kill, by Stop, *)
(* or by the clean-up, which goes by the name, of a connect that failed.     *)
RunsWhereAsked ==
    \A r \in ran : cmd[r.cli].op = "dest" =>
        r.host = cmd[r.cli].host \/ r.cli \in moved

(* The exit status can be relied on, as by `&&': zero only if every request  *)
(* of the command was carried out and what it ran has a code that os.Exit    *)
(* makes zero, and one other than zero and one is made from the code of what *)
(* it ran.                                                                   *)
ExitCodeTrue ==
    \A c \in CLIs : cpc[c] = "exit" =>
        /\ exit[c] = 0 =>
              /\ \A i \in 1..LastMsg(c) : outcome[c][i] # None /\ outcome[c][i].ok
              /\ Runs(Message(c, LastMsg(c))) =>
                    \E r \in ran : r.cli = c /\ Status(r.code) = 0
        /\ exit[c] \notin {0, 1} => \E r \in ran : r.cli = c /\ Status(r.code) = exit[c]

(* The audit log misses no command: if it could be opened, what ran on a     *)
(* host has its entry before the CLI can see a result, and in any case when  *)
(* the daemon has stopped, or that entry's own write has failed.             *)
RunsAreLogged ==
    logfile # "none" =>
        \A r \in ran :
            reply[r.cli][LastMsg(r.cli)] # None \/ daemon = "down" =>
                <<r.cli, LastMsg(r.cli)>> \in log \cup unwritten

(* DESIGN.md says of the audit log that every action is appended to it,      *)
(* naming use and forward among them: with a log that can be written,        *)
(* whatever succeeded has an entry when the CLI is told so.                  *)
EveryActionLogged ==
    logfile # "none" =>
        \A c \in CLIs, i \in {1, 2} :
            reply[c][i] # None /\ reply[c][i].ok => <<c, i>> \in log \cup unwritten

(* Not promised by the code: the same without the exception.                 *)
RunsOnlyThere ==
    \A r \in ran : cmd[r.cli].op = "dest" => r.host = cmd[r.cli].host

(* Not promised by the code: an exit status of zero means a code of zero,    *)
(* which 256, as an SSH server may send it, is not.                          *)
ZeroMeansZero ==
    \A c \in CLIs : exit[c] = 0 /\ Runs(Message(c, LastMsg(c))) =>
        \E r \in ran : r.cli = c /\ r.code = 0

(* Not promised by the code: a command whose CLI has given up does not run   *)
(* afterwards.                                                               *)
NothingRunsLate ==
    [][\A r \in ran' \ ran : cpc[r.cli] # "exit"]_cvars
===============================================================================
