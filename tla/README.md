# A TLA+ model of gssh

gssh keeps SSH sessions, local sessions and port forwards alive in a daemon
and lets short-lived CLI processes use them over a Unix socket. This directory
holds TLA+ modules that model the daemon and the CLI's side of a request, TLC
configurations that check them on small instances, and TLAPS proofs about every
one of them. Line numbers below refer to the sources under `src/`.

## 1. The system

| component | state | operations | talks to |
|---|---|---|---|
| session manager (`internal/session`) | registry name → session, default name; per session: status, client, `reconnMu` | connect, local, kill, kill all, use, reconnect, restore offline, await client | SSH client; called by handlers, monitor loops, restore goroutines, Stop |
| SSH client (`internal/ssh`) | Go client, probing flag | dial, close, probe | SSH server |
| reconnect monitor (`internal/reconnect`) | watched map, per loop: cancel channel, back-off | watch, stop watch, periodic check | manager (reconnect), forwarding (restart) |
| server (`internal/server`) | listener, active connections, wait group, stop flag | start, restore, accept, dispatch, stop and drain | all of the above |
| daemon start (`cmd/gssh`, `internal/socketpath`) | socket file | dial, spawn, wait, stop | server over the socket |
| persistence (`internal/persist`) | `state.json` | save on stop, load on start | manager, server |
| port forwarding (`internal/portforward`) | forwards map; per forward: client, listener, connections, `lifecycleMu` | add, close, restart all, accept | manager (client), monitor |
| command execution (`internal/exec`) | per request: process, pipes, timer | run, stream, time out | manager (client), connection |
| framing (`pkg/imsg`, `internal/protocol`) | none | read and write frames | connections |
| file transfer (`internal/transfer`) | two file trees; per transfer: the walk, the file being copied | upload, download, mkdir, rm | manager (client), SFTP server, file systems |
| audit log (`internal/audit`) | the log file | log, close | called by handlers and Stop |
| CLI (`cmd/gssh`) | one command: its requests, a connection and deadline for each, the exit code | connect, destination, local, use, kill, exec, run, scp, forward | server over the socket |
| quoting, peer credentials | strings, user ids | – | – |

What is hard in this code: calls release the manager's lock while they dial,
so every decision made before a dial may be stale after it; sessions, watches
and forwards refer to each other by name, and names are reused; locks, wait
groups and polling loops wait for each other; the daemon stops while requests,
restores and a second daemon are under way; a command, its children, two
copying goroutines and a timer race for one reply; transfers overlap, fail half
way and are repeated on the strength of a size and a time; a CLI makes two
requests for one command and leaves at its deadline while its handler goes on.
`PROJECT.json` lists each
hazard at its line with the properties aimed at it.

What makes each component correct:

* manager – no SSH connection is leaked, shared or overwritten; a killed
  session stays dead; a status says what the client and the calls in progress
  are; calls return;
* monitor – each watch is one loop; a lost session comes back; loops end;
* server – no request outlives the drain, the process ends after it, the state
  file keeps the sessions, a live socket stays;
* forwards – closed ones are quiet, listed ones are served, all follow the
  session's client, operations return;
* exec – whole frames, the end last, nothing missing, timeouts effective;
* persistence – exactly the sessions that can log in unattended are retried;
* transfer – a file that is skipped is the same on both sides, a success means
  that the trees agree, transfers do not make each other fail;
* CLI and dispatch – a command runs on the host it was given, the exit code can
  be relied on, the audit log has what ran.

## 2. Modules

| module | models | instance for TLC |
|---|---|---|
| `SessionManager` | `session.go`, the probe and close of `ssh/client.go` | `MCSessionManager` |
| `ClientOwnership` | abstract: the life of an SSH client, without locks, statuses and names | through `SessionManager` |
| `SessionManagerProofs` | theorems about `SessionManager` and `ClientOwnership`, and that the first implements the second | – |
| `ReconnectMonitor` | `monitor.go` and the connect, kill, use handlers and restore goroutines, extending `SessionManager` | `MCReconnectMonitor` |
| `ReconnectMonitorProofs` | theorems about it, and that it implements `SessionManager` | – |
| `DaemonLifecycle` | `server.go` Start/Stop/handleConn, `cmd/gssh` main, dial and spawn, socket and state files | `MCDaemonLifecycle` |
| `DaemonLifecycleProofs` | theorems about it | – |
| `PortForward` | `forwarder.go` with the session reduced to its client | `MCPortForward` |
| `PortForwardProofs` | theorems about it | – |
| `StatePersistence` | credentials across restarts: `store.go`, `restoreState`, the logins `ssh.Connect` offers | `MCStatePersistence` |
| `StatePersistenceProofs` | theorems about it | – |
| `CommandExec` | `executor.go`, the streaming handlers, `WriteMessage` | `MCCommandExec` |
| `CommandExecProofs` | theorems about it | – |
| `FileTransfer` | `sftp.go`, `safefile_unix.go`: transfers over two file trees | `MCFileTransfer` |
| `FileTransferProofs` | theorems about it | – |
| `CliRequest` | `commands.go`, `dest.go`, `client.go` with `handleConn`, `dispatch` and the audit log: a command from its arguments to its exit code | `MCCliRequest` |
| `CliRequestProofs` | theorems about it | – |

Common conventions. A goroutine is an element of a set and has a program
counter (`pc`, `lpc`, `cpc`, ...). One action is one critical section of the
code, or one call outside every lock (a dial, a listen, a close, a write).
Early returns of a method are separate actions from the same label. `None` is
nil and the empty name. Objects that the code allocates (sessions, clients,
forwarders, connections) are used at most once, so that an old pointer is never
confused with a new object; the sizes of these sets bound how much may happen.
Operators marked "Mutant of" are faulty variants of the definition after them;
they show that a property notices the fault and are used by nothing else.

### SessionManager
`sessions`, `defaultName` are the Manager's fields; `host`, `sname`, `status`,
`client`, `reconnMu` those of an `SSHSession`; `conn` says what became of each
dialled client; `obj`, `name`, `cl`, `todo` are the locals of the running call.
`closed`, `restoring` and `stopped` record that `Close` was called, that
`restoreState` is running and that Stop has called `KillAll`. ConnectSSH enters
through five actions (connected, in flight, offline, collision, new);
`reconnectSSH` is the chain `ReconnLock … ReconnAdopt/ReconnReject`, between
which `reconnMu` is held. `AwaitClient` is its polls and its deadline.
A probe that times out (`ProbeTimeout`) closes the client it was started on,
which by then a call may have taken from its session to close it (`TakenPcs`).
Coarser than the code: `Manager.Get` with an empty name reads the default and
looks it up in one step; credentials are left out (a dial may always fail).

`Own` maps this state to `ClientOwnership`: a client is fresh until it is
dialled, attached while a session holds it, in transit while a call has taken
or dialled it (`InTransit`), gone once it is closed and nobody's
(`GoneForGood`); a session is dead when `Close` was called. A lost connection
and a probe are stutters of the abstract specification.

### ReconnectMonitor
Adds `req` (where a handler is in its request), the `watched` map and the watch
loops. The manager's actions are taken over unchanged; a handler or loop that
calls the manager waits at a label until its process is back at a return label.
The 5 s ticks and delays become "at any time"; the back-off keeps its value.
`RestartAll` is a label here; what it does is `PortForward`.

### DaemonLifecycle
One daemon is three threads (main, accept loop, Stop), CLI processes run one
command each. The shutdown channel and the `stopping` flag are read off the
position of Stop. `Store.Save` is truncate and write; a failing Save is in
`StatePersistence`. The kernel's unlink-and-close of a listener, and Lstat-and-connect of
the dial, are one step each. A session is its name.

### PortForward
`cur`, `alive` are the session's client and whether it works; `Redialled` is a
reconnect by anything but the monitor. `Shut` is the section under `f.mu` shared
by Close and Restart; it also takes the closed connections out of the map,
which their handlers do a moment later in the code and nobody can observe.

### StatePersistence
Requests of one daemon at a time, run one after the other, with the background
reconnects of its start, which go by the name. Only `Stop` saves. It is two
steps: up to its Save, and from there to the exit of the process (`StopEnds`),
with requests and their kills still possible in between, too late for the file.
A Save may fail (`StopSaveFails`: `server.go:139` only logs it), before or after
it has truncated the file, and a daemon may die without Stop (`Dies`: a signal
it cannot catch, a panic as at `executor.go:477`, a loss of power), which tears
the file if it happens within Save; a file that cannot be parsed restores
nothing, like an empty one (`Empty`). `kill[n]` records what became of the kill
of a session: `unsaved` until a Save, `saved` by it, or `lost`; `savedLogin` is
how the sessions of the file had last logged in. A credential is present or
absent; `Accepts` says which logins a session's server takes.

### CommandExec
One request from arrival to reply. `req` is the cell of the matrix remote/local ×
buffered/stream × sudo × timeout. The command is a shell and at most one child
that inherits the pipes or not; `written`, `got` count chunks, and a process
that waits for room in a pipe cannot end. `wire` is the sequence of halves of
frames (header, payload) on the connection. External and free: when processes
write and end, whether the SSH server honours a signal, when it closes.

### FileTransfer
`fs` holds the two trees, `local` and `remote`: a path is a directory or a file
of blocks with a modification time in seconds, the precision of the comparison
at `sftp.go:192` and `355`. Each block carries the version that wrote it, so
that two contents can differ at equal size. A transfer stats its source, walks
it (`todo`, with the stat taken when the code takes it: by the upload's walk on
reaching an entry, by the download's on reading the directory), skips or
copies, block by block into the truncated destination, and sets the time of the
stat - but not after the upload of a single file (`SetsTimes`). `MkdirAll`,
`ensureDir` and `ensureSafeLocalDir` are `Blocked` and `WithDirs`. `faults`
fixes for a behaviour which disturbances may happen: `interrupt` (an error in
any call), `overlap` (transfers of one direction side by side), `edit` and
`editUpload` (a user writes the source of a running transfer). `dirty` records
that one has happened since the running transfers began, and `renamed` the
paths onto which a single file of another name was copied. `todo` is a set: the
order in which the two walks come to the entries of a directory is left open,
which allows more than either does. A request that joins running ones is served
by a goroutine of its own (`New`). Coarser than the code: one `MkdirAll` is one
step, the destination root of a download is made with the first visit, and a
target outside the modelled paths leaves no trace.

### CliRequest
A CLI makes the requests `Messages` one after the other, each over its own
connection with its own handler `hpc[c][i]`. A handler is: read, do the work,
audit, write the answer. Two kinds of work are more than one step, because what
they go by can change meanwhile. `ConnectSSH` registers its session
(`ConnectNew`), dials it (`ConnectDialled`, `ConnectFails`) and, if that failed,
removes what has its name *then* (`ConnectUndo`, `session.go:319-320`); a
connect that finds the session waits for the client or redials (`ConnectAwaits`).
Exec looks its session up first and works on it later (`found`). The rest is one
step with every result it may have; `SessionManager`, `CommandExec`,
`PortForward` and `FileTransfer` have the interleavings inside. A session is its
host and the CLI that made it, so that an old and a new session of one name and
host differ. `moved` records the destinations whose session left the registry
after their connect had registered or found it: by a kill, by Stop, or by the
clean-up of a failed connect. `ran` is what ran where.

Codes are integers: `os/exec` reports -1 of a local command killed by a signal,
and `os.Exit` keeps eight bits of any (`Status`), so that -1 ends as 255 and 256
as 0. `NoStatus` is the code 1 without an error of a buffered execution whose
session broke. An answer above the frame limit and a timed-out command are
failing answers; the -1 of a timed-out call never becomes an exit code.

The audit log may fail to open (`logfile = "none"`: `Log` then does nothing and
says nothing, `log.go:64-66`), and the write of an entry may fail, which the
handlers do not look at (`unwritten`). `Dies` is the daemon that ends without
Stop: no handler takes a further step. `Incidents` says which of these an
instance has. The request and its answer are whole: a frame cut short is
`CommandExec`.

## 3. Runs

Passing runs (distinct states in brackets are approximate):

| run | shows |
|---|---|
| `Manager_Calls` (0.9 M) | two concurrent calls of every kind on one name and two hosts, two session objects, three dials: type, inductive invariant, owners, killed stays dead, status/client agreement, the refinement of `ClientOwnership`, and a default that only `use` can leave pointing at nothing |
| `Monitor_Recovery` (43 k) | every request and a restore, one watch loop: watches and loops correspond one to one, the back-off stays within its maximum, a watched session recovers, cancelled loops end, every call of the manager returns |
| `Daemon_Shutdown` (0.8 M) | two daemons on one path, two CLIs that start and stop them: no handler after the drain, exit only after Stop |
| `Daemon_Liveness` (24 k) | one daemon, one CLI with every command, signals and crashes: exit only after Stop, and Stop and all commands end |
| `Forward_Requests` (0.3 M) | a local and a remote forward: closed is quiet, listed is served, active is listed (the last two for local forwards); a restart reaches every listed forward; no goroutines wait for each other in a circle |
| `State_Restart` (0.1 M) | daemons that stop, fail to save and die: a killed session is not there again unless the daemon that killed it never saved the kill; saved sessions that logged in by a key are retried |
| `Exec_Request` (0.3 M) | whole frames, end last, all output sent, every request whose command ends is answered |
| `Transfer_Sync` (0.2 M) | two transfers at a time of a tree with a file in a subdirectory, three requests, two edits, interruptions or overlap with edits: skipping is sound, success means synchronised, only conflicts fail |
| `Cli_Requests` (0.7 M) | every command beside a connect or a kill, on two ports of one host, with deadlines, a log that does not open or write, Stop and death of the daemon; and a destination, two connects and a kill with dials that fail at any time: exit codes are true, runs are logged, and a destination's command runs where asked, or its session was taken out of the registry |

Three runs end in a violation: the code differs from what its documents say,
and each has a finding in `PROJECT.json`.

| run | what happens |
|---|---|
| `Manager_Orphan` | a failed connect removes a newer session of the same name and orphans its connection |
| `Daemon_Overlap` | a daemon started while the old one stops loses the saved sessions |
| `Exec_TimeoutHangs` | a local timeout that never returns, because the children of the shell keep the pipes |

### Further configurations
These are not runs of the project. Two pass and look at a larger or a fairer
instance: `Monitor_Watch` (two handlers that connect and kill, two watch loops:
`WatchInv`, 0.8 M states) and `Forward_Liveness` (`OpsReturn`: add, close and
restart return). Each of the others leads TLC to a short behaviour that
ends in a window the code leaves open; they are kept to try a fix against
(`tlc -config X.cfg MC...`). The hazards in `PROJECT.json` refer to them.

| configuration | property | behaviour |
|---|---|---|
| `Manager_Default` | `DefaultIsRegistered` | `use` racing `kill` leaves a default that does not exist |
| `Manager_Redial` | `HealthyKept` | a queued reconnect replaces a healthy client |
| `Monitor_Unwatched` | `ConnectedIsWatched` | a connected session that nothing watches, after connect and kill; with `Ops <- RestoreUse`, after a restore and `use` |
| `Monitor_KilledLoop` | `KilledLoopsEnd` | a watch loop that outlives its session |
| `Daemon_Socket` | `LiveSocketKept` | a live daemon loses its socket to another one |
| `Daemon_EarlySignal` | `StopKeepsSessions` | a stop during the restore saves a part of the sessions |
| `Daemon_RunForever` | `StopTerminates` | Stop waits for a local command that does not end |
| `Forward_Unlisted` | `AllActiveListed` | a remote forward that works but is not listed |
| `Forward_LateConn` | `CloseEndsConnections` | a connection that survives Close |
| `Forward_StaleAdd` | `ForwardsFollowSession` | a forward added with a client that has just died keeps it; with `"redial"` in `Ops`, a reconnect by `use` leaves all of them behind |
| `State_Password` | `PasswordOnlyNotRetried` | a password-only session is retried after a second restart |
| `State_DefaultKey` | `DefaultKeySessionsRetried` | a session that logged in with a default key is not retried |
| `Exec_Survivor` | `TimedOutIsDead` | a process that outlives its timeout |
| `Exec_NilProcess` | `TimeoutNeverPanics` | a timeout before the process exists |
| `Transfer_Hole` | `SkipIsSound` | a second transfer truncates the file under the first and is interrupted: the file has a hole and looks complete |
| `Transfer_Hole` with `FaultSets <- InterruptAndEdit` | `SkipIsSound` | a file edited during its copy, which is interrupted before the time is set: parts of both versions, with the size and second of the newer |
| `Transfer_Hole` with `FaultSets <- EditUpload` | `SkipIsSound` | a file edited during its single-file upload, which sets no time: the same without an interruption |
| `Transfer_Renamed` | `SkipAlways` | `d/f` uploaded over `f` in the second in which the other `f` was written, with its size: `f` looks the same on both sides |
| `Cli_Late` | `NothingRunsLate` | a command that runs after its CLI has given up |
| `Cli_Requests` with `RunsOnlyThere` | `RunsOnlyThere` | a destination whose session is killed, or removed by a failed connect, and connected to another port between connect and exec |
| `Cli_Requests` with `ZeroMeansZero` | `ZeroMeansZero` | a command whose code is 256 ends with the exit status 0 |
| `State_Restart` with `KillsAreFinal` | `KillsAreFinal` | a session that is killed comes back, because the daemon died, could not save, or had already saved |
| `Cli_Audit` | `EveryActionLogged` | `use`, `local` and `forward` succeed without an entry, which DESIGN.md:377-379 says every action has |

### Bounds
Two processes interleave every pair of calls. Two session objects allow
one name to be killed and reused, the situation of most findings; a third dial
lets a reconnect follow both. One name suffices because names interact only
through the default. Two watch loops are the old and the new watch of a name;
`Monitor_Recovery` has one loop and one handler, which suffice for a loop and a
request that meet on `reconnMu`, and two dials, so that one is left to recover
with.
Two daemons and two CLIs are a daemon, its successor, and the callers that race;
in `Daemon_Liveness` signals and crashes take the part of the other callers.
Two forwards, two dials and up to four loops give each forward a restart. In
`CommandExec` pipes hold one chunk, so that writers block, and a process writes
one or two chunks per stream, so that frames of both streams interleave. Symmetry is used for sets of
interchangeable processes, objects and clients, and in safety runs only.

In `FileTransfer` a file has one or two blocks: one that is there and one that
is still missing. Three requests are a transfer, one beside it and one after
both; two edits make a version on each side or two on one. Interruptions
alone, or overlapping transfers with edits of their sources, are what the
properties can promise, here and in the theorems; the other combinations break
`SkipIsSound`, as the further configurations show. In `Cli_Requests` one
CLI has every command, of each kind one that stands for it (`EveryKind`), and the
others are two connects and a kill. Its state constraint (`PairOrRace`) lets any
two of them meet with every incident and with the two codes that an exit status
cannot hold, -1 and 256, and all four only in the race of a destination, without
incidents and with one code. Fewer than four cannot lose a destination's session
to the clean-up by name of a connect that fails late and find the name taken for
the other port. Two hosts that
share their automatic name are two ports of one `user@host`. In
`StatePersistence` two sessions suffice, since they do not depend on each other,
and nothing bounds the number of daemons.

`CHECK_DEADLOCK FALSE` appears in the `Exec`, `Transfer` and `Cli` runs only: a
behaviour there is a request, a bounded number of requests, or one command per
CLI, and it stops when all have been answered.

### Fairness
Goroutines and processes that can run do run; dials, listens and polls have
deadlines in the code. The fairness is weak where a step once possible stays
possible, and strong for goroutines that may wait for a mutex, which Go's
`sync.Mutex` hands over after 1 ms, for polls that reach their deadline, and
for a loop that finds its cancel channel closed.
`Recovers` also assumes a network that answers in the end when it is dialled
again and again. A CLI that is connected reads its socket. No fairness is given
to peers of forwarded connections, to signals, crashes and lost connections, to
new requests, or to commands: only the two `EndingSpec`s, for `CallEnds` and for
the end of Stop, assume that the processes of a command end.

## 4. Proofs

Every proof module has the same shape: the inductive invariant as a conjunction
of named parts, lemmas about the operators the actions share, one lemma per part
(or group of parts) with one step per action that can disturb it, and the
theorems, which read the properties off the invariant. Each invariant was
checked by TLC on the instances of the runs before it was proved.

### Session manager
`SessionManagerProofs` proves for any number of processes, names, hosts,
sessions and clients, and any subset of the operations:

| theorem | property |
|---|---|
| `Inductive` | `IInv`, the inductive invariant |
| `TypeCorrect` | `TypeOK` |
| `EveryClientHasOneOwner` | `OneOwner`: no connection is leaked or shared |
| `KilledSessionsStayDead` | `KilledStaysDead` |
| `ConnectedSessionsHaveClients` | `ConnectedHasClient` |
| `InFlightSessionsHaveDialers` | `InFlightHasDialer` |
| `NoClientIsOverwritten` | `AdoptOverNothing`, an action property |
| `StaleDefaultsComeFromUse` | `DefaultGoesStaleByUse`, an action property |
| `ManagerImplementsOwnership` | `OwnershipKept`: `Spec => Own!Spec` |
| `OnePlace` | `Own!Spec => [](Own!Types /\ Own!Exclusive)`: whatever order the five steps of `ClientOwnership` come in, a client is in exactly one place |
| `ManagerKeepsClientsApart` | `Own!Exclusive`, inherited through the refinement |

Assumed: `None` and `LocalHost` are not elements of the other constants, and
`AutoName` gives every host a name.

`OneOwner` is not inductive: that a client taken out of a session is still
somebody's needs to know which labels hold a client (`ProcInv`), that attached
and held clients differ (`OwnerInv`), and that nobody else is inside
`reconnectSSH` of the same session (`LockInv`). That a killed session gets no
client back needs `RegistryInv` (an object is registered under its own name or
never again) and `ClosedInv`; that a session in flight has somebody dialling
for it needs `ConnectingInv` and `ReconnectingInv`, and both use `StatusInv`
(how status and client go together at every label). `IInv` is their
conjunction. Four small lemmas say what taking, giving, dialling and closing a
client do to owners. TLC checks `IInv` in `Manager_Calls`.

The refinement has one lemma per abstract step (`DialIsDial`, `GiveIsAttach`,
`TakeIsDetach`, `CloseIsRetire`, `CloseIsClose`) and two for the steps that
leave the clients where they are. Each needs `IInv`: that the session a client
is given to has none and is not closed, that the call that closes a client is
its only owner, and that a session that is retired hands its client to the call.

### Reconnect monitor
`ReconnectMonitorProofs` proves for any number of handlers, watch loops,
sessions and clients, and any back-off limits:

| theorem | property |
|---|---|
| `MonitorInductive` | `MInv`, the inductive invariant: the manager's `IInv` and six parts about the monitor |
| `MonitorImplementsManager` | `MSpec => Spec`: the composition is a use of the manager |
| `WatchedSessionsAreSafe` | `OneOwner`, `KilledStaysDead`, `ConnectedHasClient` and `AdoptOverNothing`, inherited |
| `MonitorTypes` | `MTypeOK`, with the back-off within its maximum |
| `WatchedMapIsExact` | `WatchInv`: watches and running loops correspond one to one |

Assumed besides the manager's: the processes are the handlers and the loops, a
goroutine is not both, and 0 < `InitialBackoff` <= `MaxBackoff`.

The composition takes the manager's actions over, but a handler's or loop's step
is one of them together with a change of its own label, and a loop closes the
client it probes. That this last step is `ProbeTimeout` of the manager is the
point where the refinement needs an invariant: the client was attached when the
probe began, and while the loop probes a call can have taken it from its session
(`ProbeInv`). The attempt to prove it showed that the manager's `ProbeTimeout`
had missed that case; it now has it. `WatchInv` needs `LoopInv` (only a running
loop has a session, only a running loop is cancelled) and `BornInv` (every
object a handler or loop refers to was registered under a name, so that a watch
has a key).

### Daemon lifecycle
`DaemonLifecycleProofs` proves for any number of daemons on one path, CLI
processes and sessions, any subset of the commands, with or without signals and
crashes:

| theorem | property |
|---|---|
| `LifecycleInductive` | `DInv`, the inductive invariant |
| `LifecycleTypes` | `TypeOK` |
| `DrainIsFinal` | `NoHandlerAfterDrain` |
| `DaemonsExitAfterStop` | `ExitsAfterShutdown` |

Assumed: `None` is no daemon and no CLI. The two properties are inductive with
the types and `UnstartedInv` (a daemon that was not spawned has no threads):
registering a connection and setting the stop flag are critical sections of one
lock, so that after the drain nothing becomes a handler, and main leaves only by
the label that Stop's end opens.

### Port forwarding
`PortForwardProofs` proves for any number of requests, forwards, loops,
connections and redials:

| theorem | property |
|---|---|
| `ForwardInductive` | `PInv`, the inductive invariant |
| `ForwardTypes` | `TypeOK` |
| `CloseIsFinal` | `ClosedIsQuiet` |
| `ListedForwardsServed` | `ListedIsServed` |
| `ActiveForwardsListed` | `ActiveIsListed` |
| `RestartLeavesNone` | `RestartReachesAll` |
| `ForwardDeadlockFree` | `NoDeadlock` |

Assumed: `None` is no object or goroutine, the monitor is no handler, calls are
no loops, a forward is local or remote, at least one dial.

`PInv` says which call is where (`CallInv`), who holds `lifecycleMu` (`LockInv`)
and `Service.mu` (`ListInv`), how `closed`, listener, loops and list go together
(`ClosedInv`, `LoopInv`), where a forward is between its creation and the list
(`BornInv`), and how far a restart has come (`RestartedInv`). That a forward in
the list is served needs nearly all of it: a restart closes it, waits and opens
it again, an Add that fails removes it, and only the locks keep the two apart.
The absence of deadlocks follows from an order, not from a search: whoever waits
in `wg.Wait` waits for loops that end by themselves (`WaitedLoopsEnd`), whoever
waits for `lifecycleMu` waits for a holder that waits for no call, and whoever
waits for `Service.mu` waits for the restart (`LockOrder`); so every set
of waiting goroutines, however large, has one that waits for nobody in it.

### Command execution
`CommandExecProofs` proves for every set of requests, any amount of output and
any room in the pipes:

| theorem | property |
|---|---|
| `ExecInductive` | `EInv`, the inductive invariant |
| `ExecTypes` | `TypeOK` |
| `FramesStayWhole` | `WellFramed` |
| `EndFrameIsLast` | `EndIsLast` |
| `OutputIsComplete` | `AllOutputSent` |

Assumed: `None` is none of the other values, output and pipes have at least one
chunk of room. `WellFramed` needs to know who is between a header and its
payload (`WireInv`), which the lock of the stream and `PhaseInv` (which
goroutines run at which label) leave to one copier at a time. `AllOutputSent` is
a chain: what was read was sent (`CountInv`, by counting the payloads on the
wire, lemmas `SentAppend` and `ReplyWire`), a copier that has stopped has read
everything (`DrainedInv`), because it stops at the end of file, which comes when
nobody is left who holds the pipe (`PipeInv`).

### State persistence
`StatePersistenceProofs` proves for any names and any logins the servers accept:

| theorem | property |
|---|---|
| `PersistenceInductive` | `SInv`, the inductive invariant |
| `KilledSessionsNotRestored` | `KilledNotRestored` |
| `KeysAreRetried` | `KeySessionsRetried`, an action property |

Neither property is inductive: a restart replaces memory by the file, so the
invariant follows a session through both. `KilledInv` says that a kill that was
saved has no entry in the file, which only a Save changes, and that an unsaved
one belongs to a daemon that runs: when it dies, the kill is lost and nothing is
promised. `KeyInv` relates the logins to memory and to the file, which may be
older. `RestoreInv` says that a daemon that does not run has no sessions.

### Requests of the CLI
`CliRequestProofs` proves for any CLIs, hosts, names and exit codes, any commands
of each CLI and any incidents:

| theorem | property |
|---|---|
| `CliInductive` | `CInv`, the inductive invariant |
| `DestinationsRunWhereAsked` | `RunsWhereAsked` |
| `ExitCodesAreTrue` | `ExitCodeTrue` |
| `EveryRunIsLogged` | `RunsAreLogged` |
| `CliTypes` | `TypeOK` |

Assumed: `None` is no name, host, CLI, session, answer or command, exit codes
are integers, and `AutoName` is a function from hosts to names.

None of the properties is inductive. That a destination's command runs on its
host needs `DestInv`: from the step of its connect that registers or finds the
session until the lookup of its exec, the name stands for a session of the right
host, or the destination is marked. A session is never replaced under its name,
only added where there is none (`Adds`) or removed (`Removes`), and every removal
marks the destinations in between - also the clean-up of a connect that failed,
whoever owns the session it removes (`RegistryCases`, `SessionKept`). A connect
that lost its session while it dialled is marked before it can be answered.
`AtCases` says that nothing else brings a destination to a session. This rests on
the order of a CLI's requests and of a handler's steps (`FlowInv`,
`HandlerInv`).

The log needs `RanInv`: what ran belongs to the last request of its CLI, whose
handler has passed Audit or is still there, so that the drain of Stop waits for
it; the log is closed only when no handler is left, so that a handler at Audit
finds the file open, or finds that there never was one. The exit status needs
`CodeInv` (a good answer carries the code of something that ran, or the 1 that
stands for an unknown one) and `ExitInv` (what a status was made from does not
change any more). `RanCases` and `AnswerCases` say what a handler's step can do
to what ran and to its answer, `AuditFacts` what Audit does to the log.

### File transfer
`FileTransferProofs` proves for any number of requests, any paths, sizes and
numbers of edits, and any fault sets unless a hypothesis is named:

| theorem | property |
|---|---|
| `TransferInv` | `FInv`, the inductive invariant |
| `TransferTypes` | `TypeOK` |
| `SkippingIsSound` | `SkipIsSound`, for tolerated faults |
| `SuccessMeansSynced` | `OkMeansSynced`, for tolerated faults |
| `FailureMeansConflict` | `FailsOnConflictOnly`, for all faults |

Assumed: with a path every path above it is modelled, and with a local
directory every one above it; there is a largest size; bounds are naturals. The
hypothesis `\A F \in FaultSets : Tolerated(F)` says that a behaviour has any
number of interruptions, or any number of overlapping transfers and of edits of
their sources, single-file uploads (which set no time) excepted. No more can be
had: `Transfer_Hole` with its three fault sets has a counterexample for
interruptions with overlap, for interruptions with edits, and for edits under
the upload of a single file. That both properties leave out renamed files is
needed too (`Transfer_Renamed`).

Nothing in the two properties speaks of a transfer that is under way, so the
invariant has to. The trees are trees and no file is from the future
(`TreeInv`): from this, an edit gives a source a time that no running transfer
goes by. What a walk has still to visit is in the source, with a stat that is
at most too old (`TodoInv`), and so is the file in hand (`CurInv`). Then the
two arguments part. A transfer that runs alone has copied exactly the blocks
before its position, if the source is still the one it looked at (`AloneInv`);
so when the time of the stat is set, the destination either has the contents of
that second or a time that is not the source's. Transfers that write the same
file side by side truncate each other's work, and a source that is edited
meanwhile gives them different contents to write. As long as no writer has
looked at the source as it is now, all will set an older time than the
source's, and the file will not be skipped. Once one has (`Guarded`), it has
also truncated the file after the edit, so all of it is from the current
source: it is never longer than the source, and it is complete or one of its
writers has a good beginning and goes on (`GroupInv`), for the last one to
truncate it starts at its first block. So the last writer leaves a whole file
(`LastWriter`, `WriterLeaves`). Both feed `AgreeInv`: a file that nobody writes
and that has the second of its source agrees with it as far as both go, of
which equal sizes make equality. `DoneInv` follows a directory transfer: every
entry it answers for is on its agenda (an entry of `todo` is at or above it, or
it is the file to be created next) or has the right kind and, for a file, is
complete or being written. `VisitDir` hands its part of the agenda to the
entries below, which is where the lemmas on paths are used (`ChildTowards`).
`ConflictInv` remembers the conflict that made a transfer fail, which no step
without a fault takes away.

The first attempts showed three things about the model. Distinct requests had
shared an identity within a group, which made a success disappear; a request
that joins now uses one of its own. The order of a walk played no part in any
step, so it is gone. And with two files of one name in the tree, the skip test
is unsound for renamed files, which the earlier instance could not show.

### Only model-checked
All liveness, because the prover has no rules for fairness and `ENABLED` here:
`Recovers`, `CancelledLoopsEnd`, `CallsReturn`, `StopTerminates`, `CommandsEnd`,
`CallEnds`. The properties of the three runs that end in a violation, and
of the further configurations, which do not hold. The other invariants and
action properties of the runs are theorems.

## 5. Not modelled

Shell quoting (a string conversion of a few lines with unit tests), peer
credentials (one system call per dial), host keys and agent (library calls),
flag and destination syntax, JSON and output formats, contents of commands and
output, file modes, symbolic links in a download's destination, half-closed
forwarded connections, a socket owned by another user. A failing `Store.Save` and
a daemon that dies are in `StatePersistence`, a Save that overlaps with another
daemon's Load in `DaemonLifecycle`; no module has both, nor a `state.json` that
exists and cannot be read. An audit file that is deleted or cut while the daemon
writes it, and entries lost by the file system after a successful write, are
outside the model.

## 6. Plan

1. More of the system: a composition of `PortForward` with the monitor's loop
   instead of `MonitorReconnect`; the monitor's reconnect by name against a
   newer session.
2. Abstract specifications: one forward (absent, listening, closed) refined by
   `PortForward`; one reply per request refined by `CommandExec`.
3. Theorems: `LiveIsRegistered` for a manager whose connects do not fail, and
   the refinements of item 2.
