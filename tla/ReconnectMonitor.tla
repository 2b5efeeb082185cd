--------------------------- MODULE ReconnectMonitor ---------------------------
(***************************************************************************)
(* The reconnect monitor (internal/reconnect/monitor.go) composed with the *)
(* session manager and with the request handlers of the daemon that start  *)
(* and stop watches (connect, kill, use in Server.dispatch, and the        *)
(* goroutines of Server.restoreState).                                     *)
(*                                                                         *)
(* A handler is a goroutine that serves one request at a time: req[h] is   *)
(* where it is in the request, and while it is inside a manager method     *)
(* pc[h] is where it is there.  A loop is the goroutine of one watch; the  *)
(* watch context, which only it and the watched map refer to, is           *)
(* identified with it.  Timers fire at any time; delays keep only their    *)
(* lengths (backoff).  RestartAll, which a loop calls after it has         *)
(* reconnected, changes only the forwarding service and is a label here.   *)
(***************************************************************************)
EXTENDS SessionManager, Naturals

CONSTANTS
    Handlers,        \* goroutines that serve requests or restore a session
    Loops,           \* monitorLoop goroutines
    InitialBackoff,  \* initialBackoff, in units of it
    MaxBackoff       \* maxBackoff

ASSUME ProcAssumption == Procs = Handlers \cup Loops /\ Handlers \cap Loops = {}
ASSUME BackoffAssumption ==
    InitialBackoff \in Nat \ {0} /\ MaxBackoff \in Nat /\ InitialBackoff <= MaxBackoff

VARIABLES
    req,        \* where a handler is in its request
    param,      \* params.Name of the request
    found,      \* the session a handler's Get returned
    wasOffline, \* dispatch's local variable of that name
    pending,    \* restored names whose reconnect goroutine has not started
    watched,    \* Monitor.watched: the loop watching a name
    cancelled,  \* the loop's cancel channel is closed
    lsess,      \* the session a loop watches
    lpc,        \* where a loop is
    probed,     \* the client checkAndReconnect read
    backoff     \* watchCtx.backoff of the loop's copy

handlerVars == <<req, param, found, wasOffline, pending>>
loopVars    == <<watched, cancelled, lsess, lpc, probed, backoff>>
mvars       == <<vars, handlerVars, loopVars>>

Reqs == {"none", "connect", "killCall", "kill", "useWas", "useCall", "use",
         "useWatch", "restore"}
LPcs == {"unused", "wait", "stopWatch", "getClient", "probe", "probing", "reconnect",
         "call", "restart"}

MInit ==
    /\ Init
    /\ req = [h \in Handlers |-> "none"]
    /\ param = [h \in Handlers |-> None]
    /\ found = [h \in Handlers |-> None]
    /\ wasOffline = [h \in Handlers |-> FALSE]
    /\ pending = {}
    /\ watched = [n \in Names |-> None]
    /\ cancelled = [l \in Loops |-> FALSE]
    /\ lsess = [l \in Loops |-> None]
    /\ lpc = [l \in Loops |-> "unused"]
    /\ probed = [l \in Loops |-> None]
    /\ backoff = [l \in Loops |-> InitialBackoff]

-------------------------------------------------------------------------------
(* Monitor.Watch and Monitor.StopWatch, each one section under m.mu. *)

Watch(o) ==
    LET n == sname[o] IN
    \/ /\ watched[n] # None
       /\ UNCHANGED loopVars
    \/ /\ watched[n] = None
       /\ \E l \in Loops :
             /\ lpc[l] = "unused"
             /\ watched' = [watched EXCEPT ![n] = l]
             /\ lsess' = [lsess EXCEPT ![l] = o]
             /\ lpc' = [lpc EXCEPT ![l] = "wait"]
       /\ UNCHANGED <<cancelled, probed, backoff>>

(* Mutant of StopWatch: the entry stays in the map. *)
StopWatchKeepsEntry(n) ==
    IF n \in Names /\ watched[n] # None
    THEN /\ cancelled' = [cancelled EXCEPT ![watched[n]] = TRUE]
         /\ UNCHANGED watched
    ELSE UNCHANGED <<cancelled, watched>>

StopWatch(n) ==
    IF n \in Names /\ watched[n] # None
    THEN /\ cancelled' = [cancelled EXCEPT ![watched[n]] = TRUE]
         /\ watched' = [watched EXCEPT ![n] = None]
    ELSE UNCHANGED <<cancelled, watched>>

-------------------------------------------------------------------------------
(* Server.dispatch. *)

At(h, r)   == req[h] = r
Become(h, r) == req' = [req EXCEPT ![h] = r]

(* The response is written: the handler is free again. *)
Respond(h) ==
    /\ Return(h) /\ Become(h, "none")
    /\ param' = [param EXCEPT ![h] = None]
    /\ found' = [found EXCEPT ![h] = None]
    /\ wasOffline' = [wasOffline EXCEPT ![h] = FALSE]
    /\ UNCHANGED pending

(* MsgConnect: ConnectSSH, then Watch when it succeeded. *)
ConnectRequest(h) ==
    /\ At(h, "none") /\ Become(h, "connect")
    /\ \E n \in Names \cup {None}, hh \in Hosts :
          \/ ConnectConnected(h, n, hh) \/ ConnectInFlight(h, n, hh)
          \/ ConnectOffline(h, n, hh) \/ ConnectCollision(h, n, hh)
          \/ \E o \in Objs : ConnectNew(h, n, hh, o)
    /\ UNCHANGED <<param, found, wasOffline, pending, loopVars>>

ConnectOk(h) ==
    /\ At(h, "connect") /\ pc[h] = "retOk"
    /\ Watch(obj[h]) /\ Respond(h)

(* MsgKill: StopWatch of the name in the request, then Kill. *)
KillRequest(h, n) ==
    /\ At(h, "none") /\ Request(h, "kill") /\ Become(h, "killCall")
    /\ param' = [param EXCEPT ![h] = n]
    /\ StopWatch(n)
    /\ UNCHANGED <<vars, found, wasOffline, pending, lsess, lpc, probed, backoff>>

KillCall(h) ==
    /\ At(h, "killCall") /\ Become(h, "kill")
    /\ KillBegin(h, param[h])
    /\ UNCHANGED <<param, found, wasOffline, pending, loopVars>>

(* MsgUse: the status before Use decides whether to Watch after it. *)
Get(h, n) == found' = [found EXCEPT ![h] = Lookup(IF n = None THEN defaultName ELSE n)]

UseRequest(h, n) ==
    /\ At(h, "none") /\ Request(h, "use") /\ Become(h, "useWas")
    /\ param' = [param EXCEPT ![h] = n]
    /\ Get(h, n)
    /\ UNCHANGED <<vars, wasOffline, pending, loopVars>>

UseWasOffline(h) ==
    LET o == found[h] IN
    /\ At(h, "useWas") /\ Become(h, "useCall")
    /\ wasOffline' = [wasOffline EXCEPT ![h] =
          IF o = None THEN FALSE
          ELSE ~IsLocal(o) /\ status[o] \in {"offline", "disconnected"}]
    /\ UNCHANGED <<vars, param, found, pending, loopVars>>

UseCall(h) ==
    /\ At(h, "useCall") /\ Become(h, "use")
    /\ UseBegin(h, param[h])
    /\ UNCHANGED <<param, found, wasOffline, pending, loopVars>>

UseAgain(h) ==
    /\ At(h, "use") /\ pc[h] = "retOk" /\ wasOffline[h] /\ Become(h, "useWatch")
    /\ Get(h, param[h])
    /\ UNCHANGED <<vars, param, wasOffline, pending, loopVars>>

UseWatch(h) ==
    LET o == found[h] IN
    /\ At(h, "useWatch")
    /\ \/ o # None /\ host[o] \in Hosts /\ Watch(o)
       \/ (o = None \/ (o # None /\ host[o] \notin Hosts)) /\ UNCHANGED loopVars
    /\ Respond(h)

(* The responses that have nothing more to do. *)
PlainResponse(h) ==
    /\ \/ At(h, "connect") /\ pc[h] = "retErr"
       \/ At(h, "kill")
       \/ At(h, "use") /\ (pc[h] = "retErr" \/ ~wasOffline[h])
       \/ At(h, "restore") /\ pc[h] = "retErr"
    /\ Respond(h) /\ UNCHANGED loopVars

-------------------------------------------------------------------------------
(* Server.restoreState: a session with usable key material gets a goroutine *)
(* that reconnects it and, when that succeeded, watches it.                 *)

RestoreSession(n, h, o) ==
    /\ RegisterOfflineSession(n, h, o)
    /\ pending' \in {pending, pending \cup {n}}
    /\ UNCHANGED <<req, param, found, wasOffline, loopVars>>

RestoreFinish == RestoreDone /\ UNCHANGED <<handlerVars, loopVars>>

RestoreReconnect(h, n) ==
    /\ At(h, "none") /\ n \in pending /\ Become(h, "restore")
    /\ pending' = pending \ {n}
    /\ Reconnect(h, n)
    /\ UNCHANGED <<param, found, wasOffline, loopVars>>

RestoreOk(h) ==
    /\ At(h, "restore") /\ pc[h] = "retOk"
    /\ Watch(obj[h]) /\ Respond(h)

-------------------------------------------------------------------------------
(* monitorLoop and checkAndReconnect. *)

LGoto(l, label) == lpc' = [lpc EXCEPT ![l] = label]
ResetBackoff(l) == backoff' = [backoff EXCEPT ![l] = InitialBackoff]

(* Mutant of LoopExit: the status is looked at before the cancel channel. *)
LoopExitStatusFirst(l) ==
    /\ lpc[l] = "wait" /\ cancelled[l] /\ status[lsess[l]] # "disconnected"
    /\ LGoto(l, "unused") /\ ResetBackoff(l)
    /\ cancelled' = [cancelled EXCEPT ![l] = FALSE]
    /\ lsess' = [lsess EXCEPT ![l] = None]
    /\ UNCHANGED <<vars, handlerVars, watched, probed>>

(* The cancel channel is closed: the goroutine ends (and may be reused). *)
LoopExit(l) ==
    /\ lpc[l] = "wait" /\ cancelled[l]
    /\ LGoto(l, "unused") /\ ResetBackoff(l)
    /\ cancelled' = [cancelled EXCEPT ![l] = FALSE]
    /\ lsess' = [lsess EXCEPT ![l] = None]
    /\ UNCHANGED <<vars, handlerVars, watched, probed>>

(* Mutant of LoopCheck: an offline session is left alone too. *)
LoopCheckNotOffline(l) ==
    /\ lpc[l] = "wait" /\ status[lsess[l]] \notin InFlight \cup {"offline"}
    /\ LGoto(l, IF status[lsess[l]] = "disconnected" THEN "stopWatch" ELSE "getClient")
    /\ UNCHANGED <<vars, handlerVars, watched, cancelled, lsess, probed, backoff>>

(* The timer fires; in a connecting or reconnecting state nothing happens. *)
LoopCheck(l) ==
    /\ lpc[l] = "wait" /\ status[lsess[l]] \notin InFlight
    /\ LGoto(l, IF status[lsess[l]] = "disconnected" THEN "stopWatch" ELSE "getClient")
    /\ UNCHANGED <<vars, handlerVars, watched, cancelled, lsess, probed, backoff>>

LoopStopWatch(l) ==
    /\ lpc[l] = "stopWatch"
    /\ StopWatch(sname[lsess[l]]) /\ LGoto(l, "wait")
    /\ UNCHANGED <<vars, handlerVars, lsess, probed, backoff>>

LoopGetClient(l) ==
    /\ lpc[l] = "getClient"
    /\ probed' = [probed EXCEPT ![l] = client[lsess[l]]]
    /\ LGoto(l, IF client[lsess[l]] = None THEN "reconnect" ELSE "probe")
    /\ UNCHANGED <<vars, handlerVars, watched, cancelled, lsess, backoff>>

(* Client.IsAlive: a closed client, or one that is being probed already,    *)
(* counts as dead at once.                                                  *)
LoopProbe(l) ==
    LET c == probed[l]
        busy == \E k \in Loops \ {l} : lpc[k] = "probing" /\ probed[k] = c IN
    /\ lpc[l] = "probe"
    /\ LGoto(l, IF conn[c] = "closed" \/ busy THEN "reconnect" ELSE "probing")
    /\ UNCHANGED <<vars, handlerVars, watched, cancelled, lsess, probed, backoff>>

LoopAlive(l) ==
    /\ lpc[l] = "probing" /\ conn[probed[l]] = "open"
    /\ LGoto(l, "wait") /\ ResetBackoff(l)
    /\ probed' = [probed EXCEPT ![l] = None]
    /\ UNCHANGED <<vars, handlerVars, watched, cancelled, lsess>>

(* The keepalive fails, or times out and the probe closes the client. *)
LoopDead(l) ==
    /\ lpc[l] = "probing" /\ conn[probed[l]] # "open"
    /\ LGoto(l, "reconnect")
    /\ conn' \in {conn, [conn EXCEPT ![probed[l]] = "closed"]}
    /\ UNCHANGED <<regVars, objVars, procVars, srvVars, handlerVars, watched, cancelled,
                   lsess, probed, backoff>>

LoopReconnect(l) ==
    /\ lpc[l] = "reconnect" /\ LGoto(l, "call")
    /\ Reconnect(l, sname[lsess[l]])
    /\ probed' = [probed EXCEPT ![l] = None]
    /\ UNCHANGED <<handlerVars, watched, cancelled, lsess, backoff>>

(* Mutant of NextBackoff: no maximum. *)
UncappedBackoff(b) == 2 * b

(* min(backoff * backoffFactor, maxBackoff) *)
NextBackoff(b) == IF 2 * b > MaxBackoff THEN MaxBackoff ELSE 2 * b

LoopFailed(l) ==
    /\ lpc[l] = "call" /\ pc[l] = "retErr" /\ Return(l)
    /\ backoff' = [backoff EXCEPT ![l] = NextBackoff(@)]
    /\ LGoto(l, "wait")
    /\ UNCHANGED <<handlerVars, watched, cancelled, lsess, probed>>

LoopSucceeded(l) ==
    /\ lpc[l] = "call" /\ pc[l] = "retOk" /\ Return(l)
    /\ ResetBackoff(l) /\ LGoto(l, "restart")
    /\ UNCHANGED <<handlerVars, watched, cancelled, lsess, probed>>

LoopRestarted(l) ==
    /\ lpc[l] = "restart" /\ LGoto(l, "wait")
    /\ UNCHANGED <<vars, handlerVars, watched, cancelled, lsess, probed, backoff>>

-------------------------------------------------------------------------------

HandlerStart(h) ==
    \/ ConnectRequest(h)
    \/ \E n \in Names \cup {None} : KillRequest(h, n) \/ UseRequest(h, n)
    \/ \E n \in Names : RestoreReconnect(h, n)

HandlerStep(h) ==
    \/ ConnectOk(h) \/ KillCall(h)
    \/ UseWasOffline(h) \/ UseCall(h) \/ UseAgain(h) \/ UseWatch(h)
    \/ RestoreOk(h) \/ PlainResponse(h)

LoopStep(l) ==
    \/ LoopExit(l) \/ LoopCheck(l) \/ LoopStopWatch(l) \/ LoopGetClient(l)
    \/ LoopProbe(l) \/ LoopAlive(l) \/ LoopDead(l) \/ LoopReconnect(l)
    \/ LoopFailed(l) \/ LoopSucceeded(l) \/ LoopRestarted(l)

Manager(p) == Inside(p) /\ UNCHANGED <<handlerVars, loopVars>>

MNext ==
    \/ \E h \in Handlers : HandlerStart(h) \/ HandlerStep(h)
    \/ \E l \in Loops : LoopStep(l)
    \/ \E p \in Procs : Manager(p)
    \/ \E c \in Clients : Break(c) /\ UNCHANGED <<handlerVars, loopVars>>
    \/ \E n \in Names, h \in Hosts, o \in Objs : RestoreSession(n, h, o)
    \/ RestoreFinish

MSpec == MInit /\ [][MNext]_mvars

(* Fairness: the scheduler runs every goroutine that can run, a dial ends   *)
(* within its 10 s deadline, and sync.Mutex hands reconnMu to a goroutine   *)
(* that has waited for 1 ms (its starvation mode), hence SF; a loop waiting *)
(* on a closed cancel channel and a timer takes the channel sooner or       *)
(* later, since it is ready before the timer is; and a network that keeps   *)
(* being dialled answers in the end.                                        *)
MFairSpec ==
    /\ MSpec
    /\ \A h \in Handlers : SF_mvars(HandlerStep(h) \/ Manager(h))
    /\ \A l \in Loops :
          /\ SF_mvars(LoopStep(l) \/ Manager(l)) /\ SF_mvars(LoopExit(l))
          /\ SF_mvars(\E c \in Clients :
                         ReconnDialOk(l, c) /\ UNCHANGED <<handlerVars, loopVars>>)

-------------------------------------------------------------------------------
(* Properties. *)

(* Every variable keeps its type. *)
MTypeOK ==
    /\ TypeOK
    /\ req \in [Handlers -> Reqs] /\ param \in [Handlers -> Names \cup {None}]
    /\ found \in [Handlers -> Objs \cup {None}] /\ wasOffline \in [Handlers -> BOOLEAN]
    /\ pending \subseteq Names
    /\ watched \in [Names -> Loops \cup {None}] /\ cancelled \in [Loops -> BOOLEAN]
    /\ lsess \in [Loops -> Objs \cup {None}] /\ lpc \in [Loops -> LPcs]
    /\ probed \in [Loops -> Clients \cup {None}]
    /\ backoff \in [Loops -> InitialBackoff..MaxBackoff]

Running(l)     == lpc[l] # "unused"
Watching(l, o) == Running(l) /\ ~cancelled[l] /\ lsess[l] = o

(* The watched map holds exactly the watches that have not been cancelled:  *)
(* so close(ctx.cancel) never closes a channel twice, no two active loops   *)
(* share a name, and no loop runs on that StopWatch could not reach.        *)
WatchInv ==
    /\ \A n \in Names : watched[n] # None =>
          Running(watched[n]) /\ ~cancelled[watched[n]] /\ sname[lsess[watched[n]]] = n
    /\ \A l \in Loops : Running(l) /\ ~cancelled[l] => watched[sname[lsess[l]]] = l

(* Once the handlers are done, each connected SSH session that can be named *)
(* is watched.                                                              *)
ConnectedIsWatched ==
    (\A h \in Handlers : req[h] = "none") =>
        \A o \in Objs : Registered(o) /\ ~IsLocal(o) /\ status[o] = "connected" =>
            \E l \in Loops : Watching(l, o)

(* A connection that breaks under a watched session comes back, as long as  *)
(* the session stays registered and watched and the network has a client to *)
(* give (Clients bounds the number of dials that succeed).                  *)
Usable(o) == client[o] # None /\ conn[client[o]] = "open"
Recovers ==
    \A o \in Objs :
        (Registered(o) /\ client[o] # None /\ ~Usable(o) /\ \E l \in Loops : Watching(l, o))
        ~> \/ Registered(o) /\ Usable(o)
           \/ ~Registered(o)
           \/ ~\E l \in Loops : Watching(l, o)
           \/ \A c \in Clients : conn[c] # "unused"

(* A cancelled loop ends, wherever in its check or reconnect it was.        *)
CancelledLoopsEnd == \A l \in Loops : cancelled[l] ~> lpc[l] = "unused"

(* After a kill the watch of the killed session ends. *)
KilledLoopsEnd ==
    \A l \in Loops, o \in Objs :
        (Running(l) /\ lsess[l] = o /\ closed[o]) ~> ~(Running(l) /\ lsess[l] = o)
===============================================================================
