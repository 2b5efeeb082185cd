------------------------------ MODULE CommandExec ------------------------------
(***************************************************************************)
(* One exec request (internal/exec/executor.go and the streaming handlers  *)
(* of internal/server/server.go): a handler goroutine starts a command,    *)
(* goroutines read its two pipes, a timer may stop it, and the reply goes  *)
(* to the CLI as frames on the connection.                                 *)
(*                                                                         *)
(* The matrix of executor.go - remote or local, buffered or streamed,      *)
(* plain or sudo, with or without -t - is the record req.  A command is a  *)
(* shell that may start one child, which inherits the pipes or redirects   *)
(* its output; both write a bounded number of chunks and end when they     *)
(* like, unless they are blocked on a full pipe.                           *)
(*                                                                         *)
(* Abstracted: the text of commands and output (chunks are counted), exit  *)
(* codes other than "the code of the command", 1 with an error and -1, the *)
(* setup of pipes before Start (it fails like Start), and read errors      *)
(* other than end of file.                                                 *)
(***************************************************************************)
EXTENDS Naturals, Sequences, FiniteSets

CONSTANTS
    Requests,   \* the requests the CLI may send
    MaxOut,     \* bound on the chunks written to each pipe
    PipeCap,    \* chunks a pipe holds
    Faults,     \* "disconnect", "slowStart", "startFails", "linkLost"
    None

Streams == {"stdout", "stderr"}
ProcIds == {"shell", "child"}

AllRequests == [mode : {"stream", "buffered"}, kind : {"local", "remote"},
                sudo : BOOLEAN, timeout : BOOLEAN]

ASSUME RequestsAssumption == Requests \subseteq AllRequests
ASSUME BoundsAssumption == MaxOut \in Nat \ {0} /\ PipeCap \in Nat \ {0}
ASSUME NoneAssumption ==
    None \notin Streams \cup AllRequests \cup {"exit", "error", "timedOut"}

VARIABLES
    req,          \* the request, None before it
    pc,           \* the handler goroutine
    gpc, done,    \* the goroutine that runs the command and its result channel
    cpc,          \* the goroutine that reads each pipe
    mu,           \* the holder of the chunk writers' mutex
    proc, wants,  \* each process, and the pipe it is writing to
    holds,        \* the processes that hold the writing ends of the pipes
    written, got, \* chunks written to and read from each pipe
    channel,      \* the SSH channel: open, closed by this side, closed by both
    conn,         \* the connection to the CLI
    wire,         \* the halves of frames written to it
    result        \* what the call returned

evars == <<req, pc, gpc, done, cpc, mu, proc, wants, holds, written, got, channel, conn, wire,
           result>>
procVars == <<proc, wants, holds, written>>
goVars   == <<gpc, done, cpc, mu, got>>

Init ==
    /\ req = None /\ pc = "idle" /\ gpc = "off" /\ done = None
    /\ cpc = [s \in Streams |-> "off"] /\ mu = None
    /\ proc = [q \in ProcIds |-> "none"] /\ wants = [q \in ProcIds |-> None] /\ holds = {}
    /\ written = [s \in Streams |-> 0] /\ got = [s \in Streams |-> 0]
    /\ channel = "open" /\ conn = "open" /\ wire = <<>> /\ result = None

-------------------------------------------------------------------------------
(* Helpers. *)

Streaming == req.mode = "stream"
Local     == req.kind = "local"
Cut       == ~Local /\ channel = "closed"
Half(h, s) == [half |-> h, of |-> s]

(* The last writer has gone, or the SSH channel is closed. *)
EndOfFile(s) == (got[s] = written[s] /\ \A q \in holds : proc[q] # "running") \/ Cut

StartProcess ==
    /\ channel = "open"
    /\ proc' = [proc EXCEPT !["shell"] = "running"] /\ holds' = {"shell"}
    /\ UNCHANGED <<wants, written>>

Return(r) == pc' = "end" /\ result' = r

-------------------------------------------------------------------------------
(* The handler: Exec and ExecStream. *)

(* A buffered call leaves everything to its goroutine and waits at once. *)
Begin(r) ==
    /\ pc = "idle" /\ req' = r
    /\ pc' = IF r.mode = "stream" THEN "start" ELSE "wait"
    /\ gpc' = IF r.mode = "stream" THEN "off" ELSE "start"
    /\ UNCHANGED <<done, cpc, mu, procVars, got, channel, conn, wire, result>>

(* No such session, no client within 20 s, or no SSH channel. *)
BeginNoSession(r) ==
    /\ pc = "idle" /\ r.kind = "remote" /\ req' = r /\ Return("error")
    /\ UNCHANGED <<goVars, procVars, channel, conn, wire>>

StreamStart ==
    /\ pc = "start" /\ StartProcess
    /\ pc' = IF req.sudo THEN "password" ELSE "wait"
    /\ gpc' = IF req.sudo THEN "off" ELSE "fork"
    /\ UNCHANGED <<req, done, cpc, mu, got, channel, conn, wire, result>>

StreamStartFails ==
    /\ pc = "start" /\ ("startFails" \in Faults \/ channel # "open") /\ Return("error")
    /\ UNCHANGED <<req, goVars, procVars, channel, conn, wire>>

StreamPassword ==
    /\ pc = "password" /\ pc' = "wait" /\ gpc' = "fork"
    /\ UNCHANGED <<req, done, cpc, mu, procVars, got, channel, conn, wire, result>>

(* The shell has gone before it read the password. *)
PasswordRefused == proc["shell"] # "running" \/ Cut

StreamPasswordFails ==
    /\ pc = "password" /\ PasswordRefused /\ Return("error")
    /\ UNCHANGED <<req, goVars, procVars, channel, conn, wire>>

(* waitTimeout and waitStreamTimeout: the select takes either ready case. *)
Receive ==
    /\ pc = "wait" /\ done # None /\ Return(done) /\ done' = None
    /\ UNCHANGED <<req, gpc, cpc, mu, procVars, got, channel, conn, wire>>

(* The timer: only when Start takes longer than it is there no process yet. *)
TimerFires ==
    /\ pc = "wait" /\ req.timeout /\ pc' = "kill"
    /\ proc["shell"] = "none" => "slowStart" \in Faults
    /\ UNCHANGED <<req, goVars, procVars, channel, conn, wire, result>>

(* cmd.Process.Kill: only the shell; its child lives on. *)
KillLocal ==
    /\ pc = "kill" /\ Local /\ (Streaming \/ proc["shell"] # "none")
    /\ pc' = "drain"
    /\ proc' = [proc EXCEPT !["shell"] = IF @ = "running" THEN "killed" ELSE @]
    /\ wants' = [wants EXCEPT !["shell"] = None]
    /\ UNCHANGED <<req, goVars, holds, written, channel, conn, wire, result>>

(* The buffered calls do not check cmd.Process: Kill on nil panics. *)
KillNothing ==
    /\ pc = "kill" /\ Local /\ ~Streaming /\ proc["shell"] = "none"
    /\ pc' = "panic"
    /\ UNCHANGED <<req, goVars, procVars, channel, conn, wire, result>>

(* Signal(SIGKILL), which the server may honour for the processes it finds, *)
(* and Close.                                                               *)
KillRemote ==
    /\ pc = "kill" /\ ~Local /\ pc' = "drain"
    /\ \E K \in SUBSET {q \in ProcIds : proc[q] = "running"} :
          /\ proc' = [q \in ProcIds |-> IF q \in K THEN "killed" ELSE proc[q]]
          /\ wants' = [q \in ProcIds |-> IF q \in K THEN None ELSE wants[q]]
    /\ channel' = IF channel = "open" THEN "closing" ELSE channel
    /\ UNCHANGED <<req, goVars, holds, written, conn, wire, result>>

(* Mutant of Drain: the call returns without waiting for the goroutine. *)
DrainNothing ==
    /\ pc = "drain" /\ Return("timedOut")
    /\ UNCHANGED <<req, goVars, procVars, channel, conn, wire>>

(* <-done *)
Drain ==
    /\ pc = "drain" /\ done # None /\ Return("timedOut") /\ done' = None
    /\ UNCHANGED <<req, gpc, cpc, mu, procVars, got, channel, conn, wire>>

(* sendStreamEnd, or the response of a buffered call; the deferred Close of *)
(* the SSH session has run.                                                 *)
Reply ==
    /\ pc = "end" /\ pc' = "replied"
    /\ wire' = IF conn = "open" THEN wire \o <<Half("header", "end"), Half("payload", "end")>>
                                ELSE wire
    /\ channel' = IF channel = "open" /\ ~Local THEN "closing" ELSE channel
    /\ UNCHANGED <<req, goVars, procVars, conn, result>>

HandlerStep ==
    \/ StreamStart \/ StreamStartFails \/ StreamPassword \/ StreamPasswordFails
    \/ Receive \/ KillLocal \/ KillNothing \/ KillRemote \/ Drain \/ Reply

-------------------------------------------------------------------------------
(* The goroutine that runs the command. *)

Finish(r) == gpc' = "off" /\ done' = r

GoStart ==
    /\ gpc = "start" /\ StartProcess
    /\ gpc' = IF req.sudo THEN "password" ELSE "fork"
    /\ UNCHANGED <<req, pc, done, cpc, mu, got, channel, conn, wire, result>>

GoStartFails ==
    /\ gpc = "start" /\ ("startFails" \in Faults \/ channel # "open") /\ Finish("error")
    /\ UNCHANGED <<req, pc, cpc, mu, procVars, got, channel, conn, wire, result>>

GoPassword ==
    /\ gpc = "password" /\ gpc' = "fork"
    /\ UNCHANGED <<req, pc, done, cpc, mu, procVars, got, channel, conn, wire, result>>

(* Mutant of GoPasswordFails: the goroutine returns without a result. *)
GoPasswordFailsSilently ==
    /\ gpc = "password" /\ PasswordRefused /\ gpc' = "off"
    /\ UNCHANGED <<req, pc, done, cpc, mu, procVars, got, channel, conn, wire, result>>

GoPasswordFails ==
    /\ gpc = "password" /\ PasswordRefused /\ Finish("error")
    /\ UNCHANGED <<req, pc, cpc, mu, procVars, got, channel, conn, wire, result>>

(* Two goroutines copy or read the pipes. *)
GoFork ==
    /\ gpc = "fork" /\ gpc' = "copying"
    /\ cpc' = [s \in Streams |-> "read"]
    /\ UNCHANGED <<req, pc, done, mu, procVars, got, channel, conn, wire, result>>

(* Mutant of GoJoin: it waits for one of the two pipes only. *)
GoJoinOne ==
    /\ gpc = "copying" /\ (\E s \in Streams : cpc[s] = "off") /\ gpc' = "waiting"
    /\ UNCHANGED <<req, pc, done, cpc, mu, procVars, got, channel, conn, wire, result>>

(* wg.Wait *)
GoJoin ==
    /\ gpc = "copying" /\ (\A s \in Streams : cpc[s] = "off") /\ gpc' = "waiting"
    /\ UNCHANGED <<req, pc, done, cpc, mu, procVars, got, channel, conn, wire, result>>

(* cmd.Wait or sshSession.Wait: the shell has ended, or its channel has. *)
GoWait ==
    /\ gpc = "waiting"
    /\ \/ proc["shell"] # "running" /\ Finish("exit")
       \/ Cut /\ Finish("error")
    /\ UNCHANGED <<req, pc, cpc, mu, procVars, got, channel, conn, wire, result>>

(* A panic ends the daemon and with it every goroutine. *)
GoStep ==
    /\ pc # "panic"
    /\ \/ GoStart \/ GoStartFails \/ GoPassword \/ GoPasswordFails
       \/ GoFork \/ GoJoin \/ GoWait

-------------------------------------------------------------------------------
(* The goroutine that reads pipe s: io.Copy to a chunkWriter, or ReadAll. *)

CGoto(s, from, to) == cpc[s] = from /\ cpc' = [cpc EXCEPT ![s] = to]

CopyRead(s) ==
    /\ got[s] < written[s] /\ CGoto(s, "read", IF Streaming THEN "lock" ELSE "read")
    /\ got' = [got EXCEPT ![s] = @ + 1]
    /\ UNCHANGED <<req, pc, gpc, done, mu, procVars, channel, conn, wire, result>>

CopyEnd(s) ==
    /\ CGoto(s, "read", "off") /\ EndOfFile(s)
    /\ UNCHANGED <<req, pc, gpc, done, mu, procVars, got, channel, conn, wire, result>>

(* Mutant of CopyLock: each stream has a mutex of its own. *)
CopyLockOwn(s) ==
    /\ CGoto(s, "lock", "header") /\ mu' = s
    /\ UNCHANGED <<req, pc, gpc, done, procVars, got, channel, conn, wire, result>>

CopyLock(s) ==
    /\ CGoto(s, "lock", "header") /\ mu = None /\ mu' = s
    /\ UNCHANGED <<req, pc, gpc, done, procVars, got, channel, conn, wire, result>>

CopyHeader(s) ==
    /\ conn = "open" /\ CGoto(s, "header", "payload")
    /\ wire' = Append(wire, Half("header", s))
    /\ UNCHANGED <<req, pc, gpc, done, mu, procVars, got, channel, conn, result>>

CopyPayload(s) ==
    /\ conn = "open" /\ CGoto(s, "payload", "read")
    /\ wire' = Append(wire, Half("payload", s)) /\ mu' = None
    /\ UNCHANGED <<req, pc, gpc, done, procVars, got, channel, conn, result>>

(* Mutant of CopyFails: the lock is not released on an error. *)
CopyFailsLocked(s) ==
    /\ conn = "gone" /\ cpc[s] \in {"header", "payload"}
    /\ cpc' = [cpc EXCEPT ![s] = "off"]
    /\ UNCHANGED <<req, pc, gpc, done, mu, procVars, got, channel, conn, wire, result>>

(* The CLI has gone: io.Copy ends and leaves the rest in the pipe. *)
CopyFails(s) ==
    /\ conn = "gone" /\ cpc[s] \in {"header", "payload"}
    /\ cpc' = [cpc EXCEPT ![s] = "off"] /\ mu' = None
    /\ UNCHANGED <<req, pc, gpc, done, procVars, got, channel, conn, wire, result>>

CopyStep(s) ==
    /\ pc # "panic"
    /\ \/ CopyRead(s) \/ CopyEnd(s) \/ CopyLock(s)
       \/ CopyHeader(s) \/ CopyPayload(s) \/ CopyFails(s)

-------------------------------------------------------------------------------
(* The command, the SSH server and the CLI. *)

ShellForks ==
    /\ proc["shell"] = "running" /\ wants["shell"] = None /\ proc["child"] = "none"
    /\ proc' = [proc EXCEPT !["child"] = "running"]
    /\ holds' \in {holds, holds \cup {"child"}}
    /\ UNCHANGED <<req, pc, goVars, wants, written, channel, conn, wire, result>>

ProcWrites(q, s) ==
    /\ proc[q] = "running" /\ q \in holds /\ wants[q] = None /\ written[s] < MaxOut
    /\ wants' = [wants EXCEPT ![q] = s]
    /\ UNCHANGED <<req, pc, goVars, proc, holds, written, channel, conn, wire, result>>

(* The write ends when there is room in the pipe. *)
ProcWritten(q) ==
    /\ proc[q] = "running" /\ wants[q] # None
    /\ written[wants[q]] - got[wants[q]] < PipeCap
    /\ written' = [written EXCEPT ![wants[q]] = @ + 1]
    /\ wants' = [wants EXCEPT ![q] = None]
    /\ UNCHANGED <<req, pc, goVars, proc, holds, channel, conn, wire, result>>

ProcExits(q) ==
    /\ proc[q] = "running" /\ wants[q] = None
    /\ proc' = [proc EXCEPT ![q] = "exited"]
    /\ UNCHANGED <<req, pc, goVars, wants, holds, written, channel, conn, wire, result>>

(* The server answers a close; a lost connection closes every channel. *)
ChannelCloses ==
    /\ req # None /\ ~Local
    /\ channel = "closing" \/ (channel = "open" /\ "linkLost" \in Faults)
    /\ channel' = "closed"
    /\ UNCHANGED <<req, pc, goVars, procVars, conn, wire, result>>

(* Interrupted, out of time, or closed by the daemon's Stop. *)
Disconnect ==
    /\ "disconnect" \in Faults /\ conn = "open" /\ pc # "idle" /\ conn' = "gone"
    /\ UNCHANGED <<req, pc, goVars, procVars, channel, wire, result>>

-------------------------------------------------------------------------------

Next ==
    \/ \E r \in Requests : Begin(r) \/ BeginNoSession(r)
    \/ HandlerStep \/ TimerFires \/ GoStep
    \/ \E s \in Streams : CopyStep(s)
    \/ ShellForks \/ \E q \in ProcIds : ProcWritten(q) \/ ProcExits(q)
    \/ \E q \in ProcIds, s \in Streams : ProcWrites(q, s)
    \/ ChannelCloses \/ Disconnect

Spec == Init /\ [][Next]_evars

(* Fairness: goroutines run, timers fire, a CLI that is connected reads,    *)
(* mutexes are handed on, and the SSH server answers a close.  The command  *)
(* owes nothing.                                                            *)
FairSpec ==
    /\ Spec
    /\ WF_evars(HandlerStep \/ TimerFires) /\ WF_evars(GoStep)
    /\ \A s \in Streams : SF_evars(CopyStep(s))
    /\ WF_evars(ChannelCloses)

(* The same, for commands whose processes write what they have and end. *)
EndingSpec ==
    /\ FairSpec
    /\ \A q \in ProcIds : WF_evars(ProcWritten(q) \/ ProcExits(q))

-------------------------------------------------------------------------------
(* Properties. *)

Phases == {"off", "start", "password", "fork", "copying", "waiting"}

(* Every variable keeps its type; the chunk mutex is held exactly while one *)
(* of the copying goroutines writes a frame, and a pipe is never read       *)
(* beyond what was written or filled beyond its size.                       *)
TypeOK ==
    /\ req \in Requests \cup {None}
    /\ pc \in {"idle", "start", "password", "wait", "kill", "drain", "end", "replied", "panic"}
    /\ gpc \in Phases /\ done \in {None, "exit", "error"}
    /\ cpc \in [Streams -> {"off", "read", "lock", "header", "payload"}]
    /\ mu \in Streams \cup {None}
    /\ \A s \in Streams : cpc[s] \in {"header", "payload"} <=> mu = s
    /\ proc \in [ProcIds -> {"none", "running", "exited", "killed"}]
    /\ wants \in [ProcIds -> Streams \cup {None}]
    /\ holds \subseteq ProcIds
    /\ written \in [Streams -> 0..MaxOut + 1] /\ got \in [Streams -> 0..MaxOut + 1]
    /\ \A s \in Streams : written[s] - got[s] \in 0..PipeCap
    /\ channel \in {"open", "closing", "closed"} /\ conn \in {"open", "gone"}
    /\ result \in {None, "exit", "error", "timedOut"}

(* What the CLI reads is a sequence of whole frames: every header is        *)
(* followed by its own payload, whichever stream or goroutine wrote it.     *)
WellFramed ==
    \A i \in 1..Len(wire) - 1 :
        wire[i].half = "header" <=> wire[i+1] = Half("payload", wire[i].of)

Sent(s) == Cardinality({i \in 1..Len(wire) : wire[i] = Half("payload", s)})

(* The stream end is the last frame: once the reply is on the wire no       *)
(* goroutine of the request reads a pipe or writes a frame, also when the   *)
(* timer cut the command short.                                             *)
EndIsLast ==
    pc = "replied" => gpc = "off" /\ \A s \in Streams : cpc[s] = "off"

(* A streamed command that ended on its own reached the CLI in full: when   *)
(* the end frame is written, every chunk of every process that shared the   *)
(* pipes has been sent before it.                                           *)
AllOutputSent ==
    pc = "replied" /\ req.mode = "stream" /\ result = "exit" /\ conn = "open" /\ channel # "closed" =>
        \A s \in Streams : Sent(s) = written[s]

(* A timeout returns: once the timer has fired the reply follows.           *)
TimeoutReturns == pc = "kill" ~> pc = "replied"

(* A command that was timed out has been killed, all of it.                 *)
TimedOutIsDead ==
    pc = "replied" /\ result = "timedOut" /\ req.kind = "local" =>
        \A q \in ProcIds : proc[q] # "running"

(* The timer never finds the call without a process to kill. *)
TimeoutNeverPanics == pc # "panic"

(* A request whose command ends is answered, for a CLI that stays connected *)
(* and a daemon that does not panic.                                        *)
CallEnds == pc # "idle" ~> pc \in {"replied", "panic"} \/ conn = "gone"
===============================================================================
