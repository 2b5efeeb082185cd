---------------------------- MODULE DaemonLifecycle ----------------------------
(***************************************************************************)
(* The life of the daemon process and of the CLI processes that start and  *)
(* stop it: Server.Start, Server.Stop and handleConn                       *)
(* (internal/server/server.go), runDaemon (cmd/gssh/server.go), dialDaemon *)
(* and waitForDaemon (cmd/gssh/client.go), handleStart and handleStop      *)
(* (cmd/gssh/commands.go), the socket file (internal/socketpath) and the   *)
(* state file (internal/persist).                                          *)
(*                                                                         *)
(* A daemon process has three threads of control: main (runDaemon), the    *)
(* accept loop (Start) and the body of Stop, which stopOnce runs once.     *)
(* dpc, mpc and spc say where they are.  A CLI process runs one command    *)
(* over one connection; its handler in the daemon is conn[c].              *)
(*                                                                         *)
(* The shutdown channel is closed and s.stopping is set by the first two   *)
(* steps of Stop, so both are read off spc.  A session is its name here;   *)
(* dialOnce (Lstat, then connect) is one step.                             *)
(***************************************************************************)
CONSTANTS
    Daemons,    \* daemon processes, each started at most once
    CLIs,       \* CLI processes; an identifier is reused when its handler ended
    Names,      \* session names
    Commands,   \* the commands this instance runs
    Faults,     \* what may happen to a daemon: "signal", "crash"
    None

AllCommands == {"start", "stop", "connect", "kill", "run"}

ASSUME NoneAssumption == None \notin Daemons \cup CLIs
ASSUME CommandsAssumption == Commands \subseteq AllCommands
ASSUME FaultsAssumption == Faults \subseteq {"signal", "crash"}

VARIABLES
    path,       \* the daemon whose socket the socket file is, or None
    tight,      \* the mode of the socket file is 0600
    file,       \* the names in state.json
    torn,       \* state.json has been truncated and not yet written
    dpc,        \* the accept loop of a daemon
    mpc,        \* main
    spc,        \* Stop
    listening,  \* the kernel still completes connections to the daemon
    bound,      \* s.listener is set
    asked,      \* a MsgStop handler has started a goroutine for Stop
    mem,        \* the names the session manager holds
    left,       \* what restoreState has still to register
    snap,       \* what Stop collected
    killed,     \* history: names killed by request
    cpc,        \* a CLI process
    cmd,        \* its command
    at,         \* the daemon its connection leads to
    copen,      \* the CLI's end of the connection is open
    sopen,      \* the daemon's end is open
    conn,       \* the daemon's side of the connection
    sent        \* the request is in the socket, unread

fileVars   == <<path, tight, file, torn>>
daemonVars == <<dpc, mpc, spc, listening, bound, asked>>
stateVars  == <<mem, left, snap, killed>>
connVars   == <<at, copen, sopen, conn, sent>>
cliVars    == <<cpc, cmd>>
dvars      == <<fileVars, daemonVars, stateVars, connVars, cliVars>>

DPcs == {"off", "remove", "listen", "chmod", "publish", "load", "restore", "accept",
         "accepted", "register", "returned", "failed"}
SPcs == {"none", "shutdown", "closeL", "collect", "truncate", "write", "killAll", "drain",
         "cleanup", "done"}
HandlerStates == {"reading", "busy"}

Init ==
    /\ path = None /\ tight = FALSE /\ file \in SUBSET Names /\ torn = FALSE
    /\ dpc = [d \in Daemons |-> "off"]
    /\ mpc = [d \in Daemons |-> "off"]
    /\ spc = [d \in Daemons |-> "none"]
    /\ listening = [d \in Daemons |-> FALSE]
    /\ bound = [d \in Daemons |-> FALSE]
    /\ asked = [d \in Daemons |-> FALSE]
    /\ mem = [d \in Daemons |-> {}]
    /\ left = [d \in Daemons |-> {}]
    /\ snap = [d \in Daemons |-> {}]
    /\ killed = [d \in Daemons |-> {}]
    /\ cpc = [c \in CLIs |-> "idle"]
    /\ cmd = [c \in CLIs |-> None]
    /\ at = [c \in CLIs |-> None]
    /\ copen = [c \in CLIs |-> FALSE]
    /\ sopen = [c \in CLIs |-> FALSE]
    /\ conn = [c \in CLIs |-> "none"]
    /\ sent = [c \in CLIs |-> FALSE]

-------------------------------------------------------------------------------
(* Helpers. *)

Live(d)     == mpc[d] \in {"select", "stop"}
Shutdown(d) == spc[d] # "none"
Stopping(d) == spc[d] \notin {"none", "shutdown"}

DGoto(d, from, to) == dpc[d] = from /\ Live(d) /\ dpc' = [dpc EXCEPT ![d] = to]
SGoto(d, from, to) == spc[d] = from /\ Live(d) /\ spc' = [spc EXCEPT ![d] = to]
CGoto(c, from, to) == cpc[c] = from /\ cpc' = [cpc EXCEPT ![c] = to]

(* The daemon's ends of the connections in C are gone. *)
Drop(C) ==
    /\ conn' = [c \in CLIs |-> IF c \in C THEN "none" ELSE conn[c]]
    /\ sopen' = [c \in CLIs |-> sopen[c] /\ c \notin C]
    /\ sent' = [c \in CLIs |-> sent[c] /\ c \notin C]
    /\ at' = [c \in CLIs |-> IF c \in C THEN None ELSE at[c]]
    /\ UNCHANGED copen

Backlog(d)  == {c \in CLIs : at[c] = d /\ conn[c] = "queued"}
Handlers(d) == {c \in CLIs : at[c] = d /\ conn[c] \in HandlerStates}

(* The daemon process ends, and with it everything the kernel kept for it. *)
Die(d, how) ==
    /\ Live(d)
    /\ mpc' = [mpc EXCEPT ![d] = how]
    /\ listening' = [listening EXCEPT ![d] = FALSE]
    /\ bound' = [bound EXCEPT ![d] = FALSE]
    /\ mem' = [mem EXCEPT ![d] = {}]
    /\ left' = [left EXCEPT ![d] = {}]
    /\ snap' = [snap EXCEPT ![d] = {}]
    /\ killed' = [killed EXCEPT ![d] = {}]
    /\ Drop({c \in CLIs : at[c] = d})
    /\ UNCHANGED <<fileVars, dpc, spc, asked, cliVars>>

-------------------------------------------------------------------------------
(* Server.Start. *)

(* socketpath.RemoveIfOwnedSocket: whoever listens there. *)
StartRemove(d) ==
    /\ DGoto(d, "remove", "listen")
    /\ path' = None
    /\ UNCHANGED <<tight, file, torn, mpc, spc, listening, bound, asked, stateVars, connVars,
                   cliVars>>

StartListen(d) ==
    /\ path = None /\ DGoto(d, "listen", "chmod")
    /\ path' = d /\ tight' = FALSE
    /\ listening' = [listening EXCEPT ![d] = TRUE]
    /\ UNCHANGED <<file, torn, mpc, spc, bound, asked, stateVars, connVars, cliVars>>

StartAddressInUse(d) ==
    /\ path # None /\ DGoto(d, "listen", "failed")
    /\ UNCHANGED <<fileVars, mpc, spc, listening, bound, asked, stateVars, connVars, cliVars>>

(* os.Chmod by path: of whatever file is there now. *)
StartChmod(d) ==
    /\ path # None /\ DGoto(d, "chmod", "publish")
    /\ tight' = TRUE
    /\ UNCHANGED <<path, file, torn, mpc, spc, listening, bound, asked, stateVars, connVars,
                   cliVars>>

StartChmodFails(d) ==
    /\ path = None /\ DGoto(d, "chmod", "failed")
    /\ listening' = [listening EXCEPT ![d] = FALSE]
    /\ Drop(Backlog(d))
    /\ UNCHANGED <<fileVars, mpc, spc, bound, asked, stateVars, cliVars>>

StartPublish(d) ==
    /\ DGoto(d, "publish", "load")
    /\ bound' = [bound EXCEPT ![d] = TRUE]
    /\ UNCHANGED <<fileVars, mpc, spc, listening, asked, stateVars, connVars, cliVars>>

(* restoreState: an unreadable file restores nothing. *)
RestoreLoad(d) ==
    /\ DGoto(d, "load", "restore")
    /\ left' = [left EXCEPT ![d] = IF torn THEN {} ELSE file]
    /\ UNCHANGED <<fileVars, mpc, spc, listening, bound, asked, mem, snap, killed, connVars,
                   cliVars>>

RestoreOne(d, n) ==
    /\ dpc[d] = "restore" /\ Live(d) /\ n \in left[d]
    /\ left' = [left EXCEPT ![d] = @ \ {n}]
    /\ mem' = [mem EXCEPT ![d] = @ \cup {n}]
    /\ UNCHANGED <<fileVars, daemonVars, snap, killed, connVars, cliVars>>

RestoreEnd(d) ==
    /\ left[d] = {} /\ DGoto(d, "restore", "accept")
    /\ UNCHANGED <<fileVars, mpc, spc, listening, bound, asked, stateVars, connVars, cliVars>>

(* The accept loop: Accept, the look at the shutdown channel, and the       *)
(* section under acceptMu that registers the connection.                    *)
Accept(d, c) ==
    /\ listening[d] /\ c \in Backlog(d) /\ DGoto(d, "accept", "accepted")
    /\ conn' = [conn EXCEPT ![c] = "accepting"]
    /\ UNCHANGED <<fileVars, mpc, spc, listening, bound, asked, stateVars, at, copen, sopen, sent, cliVars>>

AcceptError(d) ==
    /\ ~listening[d] /\ Shutdown(d) /\ DGoto(d, "accept", "returned")
    /\ UNCHANGED <<fileVars, mpc, spc, listening, bound, asked, stateVars, connVars, cliVars>>

Accepting(d) == {c \in CLIs : at[c] = d /\ conn[c] = "accepting"}

AcceptGo(d) ==
    /\ ~Shutdown(d) /\ DGoto(d, "accepted", "register")
    /\ UNCHANGED <<fileVars, mpc, spc, listening, bound, asked, stateVars, connVars, cliVars>>

AcceptShutdown(d) ==
    /\ Shutdown(d) /\ DGoto(d, "accepted", "returned")
    /\ Drop(Accepting(d))
    /\ UNCHANGED <<fileVars, mpc, spc, listening, bound, asked, stateVars, cliVars>>

(* Mutant of AcceptRegister: the loop does not look at s.stopping again. *)
AcceptRegisterAnyway(d) ==
    /\ DGoto(d, "register", "accept")
    /\ conn' = [c \in CLIs |-> IF c \in Accepting(d) THEN "reading" ELSE conn[c]]
    /\ UNCHANGED <<fileVars, mpc, spc, listening, bound, asked, stateVars, at, copen, sopen, sent, cliVars>>

AcceptRegister(d) ==
    /\ ~Stopping(d) /\ DGoto(d, "register", "accept")
    /\ conn' = [c \in CLIs |-> IF c \in Accepting(d) THEN "reading" ELSE conn[c]]
    /\ UNCHANGED <<fileVars, mpc, spc, listening, bound, asked, stateVars, at, copen, sopen, sent, cliVars>>

AcceptStopping(d) ==
    /\ Stopping(d) /\ DGoto(d, "register", "returned")
    /\ Drop(Accepting(d))
    /\ UNCHANGED <<fileVars, mpc, spc, listening, bound, asked, stateVars, cliVars>>

-------------------------------------------------------------------------------
(* handleConn: read a request, serve it, write the response, read again. *)

HandlerRead(c) ==
    /\ conn[c] = "reading" /\ sopen[c] /\ sent[c]
    /\ conn' = [conn EXCEPT ![c] = "busy"]
    /\ sent' = [sent EXCEPT ![c] = FALSE]
    /\ UNCHANGED <<fileVars, daemonVars, stateVars, at, copen, sopen, cliVars>>

(* Mutant of HandlerEnd: the connection is not closed. *)
HandlerEndOpen(c) ==
    /\ conn[c] = "reading" /\ (~sopen[c] \/ (~copen[c] /\ ~sent[c]))
    /\ conn' = [conn EXCEPT ![c] = "none"]
    /\ UNCHANGED <<fileVars, daemonVars, stateVars, at, copen, sopen, sent, cliVars>>

HandlerEnd(c) ==
    /\ conn[c] = "reading" /\ (~sopen[c] \/ (~copen[c] /\ ~sent[c]))
    /\ Drop({c})
    /\ UNCHANGED <<fileVars, daemonVars, stateVars, cliVars>>

(* The response: a failed write ends the handler. *)
Answer(c) ==
    IF sopen[c] /\ copen[c]
    THEN /\ conn' = [conn EXCEPT ![c] = "reading"]
         /\ UNCHANGED <<at, copen, sopen, sent>>
    ELSE Drop({c})

(* Mutant of HandlerStop: the handler calls Stop itself and waits for it.   *)
HandlerStopInline(c) ==
    /\ conn[c] = "busy" /\ cmd[c] = "stop"
    /\ asked' = [asked EXCEPT ![at[c]] = TRUE]
    /\ IF spc[at[c]] = "done" THEN Answer(c) ELSE UNCHANGED connVars
    /\ UNCHANGED <<fileVars, dpc, mpc, spc, listening, bound, stateVars, cliVars>>

(* go s.Stop(), and the answer without waiting for it. *)
HandlerStop(c) ==
    /\ conn[c] = "busy" /\ cmd[c] = "stop"
    /\ asked' = [asked EXCEPT ![at[c]] = TRUE]
    /\ Answer(c)
    /\ UNCHANGED <<fileVars, dpc, mpc, spc, listening, bound, stateVars, cliVars>>

HandlerConnect(c, n) ==
    /\ conn[c] = "busy" /\ cmd[c] = "connect"
    /\ mem' = [mem EXCEPT ![at[c]] = @ \cup {n}]
    /\ killed' = [killed EXCEPT ![at[c]] = @ \ {n}]
    /\ Answer(c)
    /\ UNCHANGED <<fileVars, daemonVars, left, snap, cliVars>>

HandlerKill(c, n) ==
    /\ conn[c] = "busy" /\ cmd[c] = "kill"
    /\ mem' = [mem EXCEPT ![at[c]] = @ \ {n}]
    /\ killed' = [killed EXCEPT ![at[c]] = IF n \in mem[at[c]] THEN @ \cup {n} ELSE @]
    /\ Answer(c)
    /\ UNCHANGED <<fileVars, daemonVars, left, snap, cliVars>>

(* A local command without a timeout: nothing but its own end ends it. *)
HandlerRun(c) ==
    /\ conn[c] = "busy" /\ cmd[c] = "run"
    /\ Answer(c)
    /\ UNCHANGED <<fileVars, daemonVars, stateVars, cliVars>>

-------------------------------------------------------------------------------
(* Server.Stop, called by main or by the goroutine of a MsgStop handler. *)

(* stopOnce.Do; close(s.shutdown) *)
StopBegin(d) ==
    /\ asked[d] \/ mpc[d] = "stop"
    /\ SGoto(d, "none", "shutdown")
    /\ UNCHANGED <<fileVars, dpc, mpc, listening, bound, asked, stateVars, connVars, cliVars>>

StopSetStopping(d) ==
    /\ SGoto(d, "shutdown", "closeL")
    /\ UNCHANGED <<fileVars, dpc, mpc, listening, bound, asked, stateVars, connVars, cliVars>>

(* UnixListener.Close unlinks the path it was given, then closes. *)
StopCloseListener(d) ==
    /\ SGoto(d, "closeL", "collect")
    /\ IF bound[d]
       THEN /\ path' = None
            /\ listening' = [listening EXCEPT ![d] = FALSE]
            /\ Drop(Backlog(d))
       ELSE UNCHANGED <<path, listening, connVars>>
    /\ UNCHANGED <<tight, file, torn, dpc, mpc, bound, asked, stateVars, cliVars>>

StopCollect(d) ==
    /\ SGoto(d, "collect", "truncate")
    /\ snap' = [snap EXCEPT ![d] = mem[d]]
    /\ UNCHANGED <<fileVars, dpc, mpc, listening, bound, asked, mem, left, killed, connVars,
                   cliVars>>

(* os.WriteFile truncates, then writes. *)
StopTruncate(d) ==
    /\ SGoto(d, "truncate", "write")
    /\ file' = {} /\ torn' = TRUE
    /\ UNCHANGED <<path, tight, dpc, mpc, listening, bound, asked, stateVars, connVars, cliVars>>

StopWrite(d) ==
    /\ SGoto(d, "write", "killAll")
    /\ file' = snap[d] /\ torn' = FALSE
    /\ UNCHANGED <<path, tight, dpc, mpc, listening, bound, asked, stateVars, connVars, cliVars>>

StopKillAll(d) ==
    /\ SGoto(d, "killAll", "drain")
    /\ mem' = [mem EXCEPT ![d] = {}]
    /\ UNCHANGED <<fileVars, dpc, mpc, listening, bound, asked, left, snap, killed, connVars,
                   cliVars>>

StopDrainClose(d) ==
    /\ spc[d] = "drain" /\ Live(d)
    /\ \E c \in Handlers(d) : sopen[c]
    /\ sopen' = [c \in CLIs |-> sopen[c] /\ c \notin Handlers(d)]
    /\ UNCHANGED <<fileVars, daemonVars, stateVars, at, copen, conn, sent, cliVars>>

StopDrained(d) ==
    /\ Handlers(d) = {} /\ SGoto(d, "drain", "cleanup")
    /\ UNCHANGED <<fileVars, dpc, mpc, listening, bound, asked, stateVars, connVars, cliVars>>

StopCleanup(d) ==
    /\ SGoto(d, "cleanup", "done")
    /\ path' = None
    /\ UNCHANGED <<tight, file, torn, dpc, mpc, listening, bound, asked, stateVars, connVars,
                   cliVars>>

-------------------------------------------------------------------------------
(* runDaemon: wait for Start to return or for a signal. *)

MainStartFailed(d) == mpc[d] = "select" /\ dpc[d] = "failed" /\ Die(d, "exited")

(* Mutant of MainStartReturned: main returns with Start. *)
MainReturnsWithStart(d) == mpc[d] = "select" /\ dpc[d] = "returned" /\ Die(d, "exited")

MainStartReturned(d) ==
    /\ mpc[d] = "select" /\ dpc[d] = "returned"
    /\ mpc' = [mpc EXCEPT ![d] = "stop"]
    /\ UNCHANGED <<fileVars, dpc, spc, listening, bound, asked, stateVars, connVars, cliVars>>

MainSignal(d) ==
    /\ "signal" \in Faults /\ mpc[d] = "select"
    /\ mpc' = [mpc EXCEPT ![d] = "stop"]
    /\ UNCHANGED <<fileVars, dpc, spc, listening, bound, asked, stateVars, connVars, cliVars>>

MainExit(d) == mpc[d] = "stop" /\ spc[d] = "done" /\ Die(d, "exited")

(* The process is killed: the socket file stays behind. *)
Crash(d) == "crash" \in Faults /\ Die(d, "crashed")

-------------------------------------------------------------------------------
(* The CLI: dialDaemon, startDaemon, waitForDaemon, sendRequestWithTimeout. *)

(* What dialOnce finds. *)
Reachable == path # None /\ listening[path] /\ tight
NotRunning == path = None \/ (path # None /\ tight /\ ~listening[path])
TooBroad  == path # None /\ ~tight

CommandBegin(c) ==
    /\ conn[c] = "none" /\ CGoto(c, "idle", "dial")
    /\ \E k \in Commands : cmd' = [cmd EXCEPT ![c] = k]
    /\ UNCHANGED <<fileVars, daemonVars, stateVars, connVars>>

(* A connection to the daemon at the path.  `start' only wanted to know     *)
(* that there is one and closes it; the others write their request.         *)
Connect(c, from) ==
    /\ Reachable /\ CGoto(c, from, IF cmd[c] = "start" THEN "idle" ELSE "rpc")
    /\ at' = [at EXCEPT ![c] = path]
    /\ conn' = [conn EXCEPT ![c] = "queued"]
    /\ sopen' = [sopen EXCEPT ![c] = TRUE]
    /\ copen' = [copen EXCEPT ![c] = cmd[c] # "start"]
    /\ sent' = [sent EXCEPT ![c] = cmd[c] # "start"]
    /\ UNCHANGED <<fileVars, daemonVars, stateVars, cmd>>

DialOk(c) == Connect(c, "dial")

(* A missing or stale socket: spawn a daemon, unless the command is `stop'. *)
DialNotRunning(c) ==
    /\ NotRunning /\ CGoto(c, "dial", IF cmd[c] = "stop" THEN "idle" ELSE "spawn")
    /\ UNCHANGED <<fileVars, daemonVars, stateVars, connVars, cmd>>

DialTooBroad(c) ==
    /\ TooBroad /\ CGoto(c, "dial", "idle")
    /\ UNCHANGED <<fileVars, daemonVars, stateVars, connVars, cmd>>

Spawn(c, d) ==
    /\ dpc[d] = "off" /\ CGoto(c, "spawn", "wait")
    /\ dpc' = [dpc EXCEPT ![d] = "remove"]
    /\ mpc' = [mpc EXCEPT ![d] = "select"]
    /\ UNCHANGED <<fileVars, spc, listening, bound, asked, stateVars, connVars, cmd>>

SpawnFails(c) ==
    /\ CGoto(c, "spawn", "idle")
    /\ UNCHANGED <<fileVars, daemonVars, stateVars, connVars, cmd>>

(* A poll of waitForDaemon that succeeds (one that fails changes nothing),  *)
(* and its deadline.                                                        *)
WaitOk(c) == Connect(c, "wait")

(* Mutant of WaitTimeout: the deadline is looked at only while no socket    *)
(* file exists.                                                             *)
WaitTimeoutNoFile(c) ==
    /\ path = None /\ CGoto(c, "wait", "idle")
    /\ UNCHANGED <<fileVars, daemonVars, stateVars, connVars, cmd>>

WaitTimeout(c) ==
    /\ ~Reachable /\ CGoto(c, "wait", "idle")
    /\ UNCHANGED <<fileVars, daemonVars, stateVars, connVars, cmd>>

(* The response, the end of the connection, or the deadline. *)
RpcEnd(c) ==
    /\ CGoto(c, "rpc", "idle")
    /\ copen' = [copen EXCEPT ![c] = FALSE]
    /\ UNCHANGED <<fileVars, daemonVars, stateVars, at, sopen, conn, sent, cmd>>

-------------------------------------------------------------------------------

StartStep(d) ==
    \/ StartRemove(d) \/ StartListen(d) \/ StartAddressInUse(d)
    \/ StartChmod(d) \/ StartChmodFails(d) \/ StartPublish(d)
    \/ RestoreLoad(d) \/ (\E n \in Names : RestoreOne(d, n)) \/ RestoreEnd(d)
    \/ (\E c \in CLIs : Accept(d, c)) \/ AcceptError(d) \/ AcceptGo(d)
    \/ AcceptShutdown(d) \/ AcceptRegister(d) \/ AcceptStopping(d)

StopStep(d) ==
    \/ StopBegin(d) \/ StopSetStopping(d) \/ StopCloseListener(d)
    \/ StopCollect(d) \/ StopTruncate(d) \/ StopWrite(d) \/ StopKillAll(d)
    \/ StopDrainClose(d) \/ StopDrained(d) \/ StopCleanup(d)

MainStep(d) == MainStartFailed(d) \/ MainStartReturned(d) \/ MainExit(d)

HandlerStep(c) ==
    \/ HandlerRead(c) \/ HandlerEnd(c) \/ HandlerStop(c)
    \/ \E n \in Names : HandlerConnect(c, n) \/ HandlerKill(c, n)

CLIStep(c) ==
    \/ DialOk(c) \/ DialNotRunning(c) \/ DialTooBroad(c)
    \/ (\E d \in Daemons : Spawn(c, d)) \/ SpawnFails(c)
    \/ WaitOk(c) \/ WaitTimeout(c) \/ RpcEnd(c)

Next ==
    \/ \E d \in Daemons : StartStep(d) \/ StopStep(d) \/ MainStep(d)
                          \/ MainSignal(d) \/ Crash(d)
    \/ \E c \in CLIs : HandlerStep(c) \/ HandlerRun(c) \/ CommandBegin(c) \/ CLIStep(c)

Spec == Init /\ [][Next]_dvars

(* Fairness: the scheduler runs every goroutine and process that can run,   *)
(* polls and requests reach their deadlines, and requests are served in     *)
(* bounded time.  Nothing bounds a local command without a timeout, so      *)
(* HandlerRun has no fairness.                                              *)
FairSpec ==
    /\ Spec
    /\ \A d \in Daemons : WF_dvars(StartStep(d)) /\ WF_dvars(StopStep(d))
                          /\ WF_dvars(MainStep(d))
    /\ \A c \in CLIs : WF_dvars(HandlerStep(c)) /\ WF_dvars(CLIStep(c))
                       /\ SF_dvars(WaitTimeout(c))

(* The same, for local commands that end. *)
EndingSpec == FairSpec /\ \A c \in CLIs : WF_dvars(HandlerRun(c))

-------------------------------------------------------------------------------
(* Properties. *)

(* Every variable keeps its type, and a connection whose handler has ended  *)
(* is closed and forgotten on the daemon's side.                            *)
TypeOK ==
    /\ path \in Daemons \cup {None} /\ tight \in BOOLEAN
    /\ file \subseteq Names /\ torn \in BOOLEAN
    /\ dpc \in [Daemons -> DPcs] /\ spc \in [Daemons -> SPcs]
    /\ mpc \in [Daemons -> {"off", "select", "stop", "exited", "crashed"}]
    /\ listening \in [Daemons -> BOOLEAN] /\ bound \in [Daemons -> BOOLEAN]
    /\ asked \in [Daemons -> BOOLEAN]
    /\ mem \in [Daemons -> SUBSET Names] /\ left \in [Daemons -> SUBSET Names]
    /\ snap \in [Daemons -> SUBSET Names] /\ killed \in [Daemons -> SUBSET Names]
    /\ cpc \in [CLIs -> {"idle", "dial", "spawn", "wait", "rpc"}]
    /\ cmd \in [CLIs -> Commands \cup {None}]
    /\ at \in [CLIs -> Daemons \cup {None}]
    /\ conn \in [CLIs -> {"none", "queued", "accepting"} \cup HandlerStates]
    /\ copen \in [CLIs -> BOOLEAN] /\ sopen \in [CLIs -> BOOLEAN]
    /\ sent \in [CLIs -> BOOLEAN]
    /\ \A c \in CLIs : conn[c] = "none" => at[c] = None /\ ~sopen[c]

(* Once Stop has drained the handlers none appears again: acceptMu and the  *)
(* second look at s.stopping close the window between the accept loop's     *)
(* look at the shutdown channel and wg.Add.                                 *)
NoHandlerAfterDrain ==
    \A d \in Daemons : Live(d) /\ spc[d] \in {"cleanup", "done"} => Handlers(d) = {}

(* A daemon that exits by itself after it began to serve has saved its      *)
(* state, drained its handlers and removed its socket: main waits for the   *)
(* Stop in progress, whoever started it.                                    *)
ExitsAfterShutdown ==
    \A d \in Daemons : mpc[d] = "exited" /\ dpc[d] # "failed" => spc[d] = "done"

(* Start and Stop remove a socket file only when it is stale or their own:  *)
(* a daemon that listens and has not been told to stop stays reachable.     *)
LiveSocketKept ==
    [][\A d \in Daemons :
          path = d /\ listening[d] /\ ~Shutdown(d) /\ listening'[d] => path' = d]_dvars

(* The state file a stopping daemon replaces held no session that the       *)
(* daemon would not write back, except those killed on request.             *)
StopKeepsSessions ==
    [][\A d \in Daemons :
          spc[d] = "truncate" /\ spc'[d] = "write" =>
              file \ killed[d] \subseteq snap[d]]_dvars

(* A daemon asked to stop, by a request or a signal, ends: Stop, the accept *)
(* loop, the handlers and main do not wait for each other.                  *)
StopTerminates == \A d \in Daemons : asked[d] \/ mpc[d] = "stop" ~> ~Live(d)

(* Every command ends, whatever daemons are started, stopped or lost        *)
(* meanwhile.                                                               *)
CommandsEnd == \A c \in CLIs : cpc[c] # "idle" ~> cpc[c] = "idle"
===============================================================================
