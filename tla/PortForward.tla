------------------------------ MODULE PortForward ------------------------------
(***************************************************************************)
(* Port forwarding (internal/portforward/forwarder.go): the service's map  *)
(* of forwards and the life of one Forwarder - NewForwarder, Start, Close, *)
(* Restart, its accept loops and the connections they take - for the       *)
(* forwards of one session.                                                *)
(*                                                                         *)
(* Handlers serve `forward' (Service.Add) and `forward-close'              *)
(* (Service.Close); the monitor loop of the session calls RestartAll after *)
(* it has reconnected.  The session itself is reduced to the SSH client it *)
(* has: cur numbers the successful dials, 0 is nil, and alive says whether *)
(* the connection works.  A dial by `use', `connect' or the restore        *)
(* goroutine is Redialled: none of them calls RestartAll.                  *)
(*                                                                         *)
(* Abstracted: ports and addresses (a forward has ports of its own), the   *)
(* 5 s accept deadline (a retry that changes nothing), the bytes copied,   *)
(* and the prefix match of IDs: a close names a forward or fails.          *)
(***************************************************************************)
EXTENDS Naturals

CONSTANTS
    Handlers,   \* goroutines that serve requests
    Monitor,    \* the goroutine that watches the session
    Fwds,       \* Forwarder objects, each allocated at most once
    FType,      \* "local" or "remote" for each of them
    Loops,      \* accept-loop goroutines
    Conns,      \* connections, each accepted at most once
    MaxDials,   \* bound on the successful SSH dials
    Ops,        \* what happens in this instance: "add", "close", "monitor", "redial", "kill"
    None

Procs == Handlers \cup {Monitor}

ASSUME NoneAssumption == None \notin Procs \cup Fwds \cup Loops \cup Conns
ASSUME MonitorAssumption == Monitor \notin Handlers
ASSUME GoroutineAssumption == Procs \cap Loops = {}
ASSUME FTypeAssumption == FType \in [Fwds -> {"local", "remote"}]
ASSUME DialsAssumption == MaxDials \in Nat \ {0}

VARIABLES
    cur, alive, dials,  \* the session: its client, whether it works, dials so far
    forwards,           \* Service.forwards
    born,               \* NewForwarder has returned it
    client,             \* Forwarder.sshClient
    listener,           \* Forwarder.listener: nil, open or closed
    closed,             \* Forwarder.closed
    conns,              \* Forwarder.conns
    lifecycleMu,        \* the holder of Forwarder.lifecycleMu
    readers,            \* holders of Service.mu for reading
    pc, fwd, arg, todo, \* a call: where it is, its forward, its client, RestartAll's rest
    loopOf, lpc, taken, \* an accept loop: its forward, where it is, the connection it took
    xstate, xof         \* a connection and the forward it came in by

sessVars == <<cur, alive, dials>>
fwdVars  == <<forwards, born, client, listener, closed, conns, lifecycleMu>>
procVars == <<readers, pc, fwd, arg, todo>>
loopVars == <<loopOf, lpc, taken>>
connVars == <<xstate, xof>>
pvars    == <<sessVars, fwdVars, procVars, loopVars, connVars>>

Init ==
    /\ cur = 1 /\ alive = TRUE /\ dials = 1
    /\ forwards = {} /\ born = {}
    /\ client = [f \in Fwds |-> 0]
    /\ listener = [f \in Fwds |-> "nil"]
    /\ closed = [f \in Fwds |-> FALSE]
    /\ conns = [f \in Fwds |-> {}]
    /\ lifecycleMu = [f \in Fwds |-> None]
    /\ readers = {}
    /\ pc = [p \in Procs |-> "idle"]
    /\ fwd = [p \in Procs |-> None]
    /\ arg = [p \in Procs |-> 0]
    /\ todo = [p \in Procs |-> {}]
    /\ loopOf = [l \in Loops |-> None]
    /\ lpc = [l \in Loops |-> "off"]
    /\ taken = [l \in Loops |-> None]
    /\ xstate = [x \in Conns |-> "new"]
    /\ xof = [x \in Conns |-> None]

-------------------------------------------------------------------------------
(* Helpers. *)

Works(c)    == alive /\ c = cur
LoopsOf(f)  == {l \in Loops : loopOf[l] = f}
(* A remote listener lives in the SSH connection it was opened on. *)
CanAccept(f) == listener[f] = "open" /\ (FType[f] = "remote" => Works(client[f]))

PGoto(p, from, to) == pc[p] = from /\ pc' = [pc EXCEPT ![p] = to]
LGoto(l, from, to) == lpc[l] = from /\ lpc' = [lpc EXCEPT ![l] = to]

Locked(p)   == lifecycleMu[fwd[p]] = None /\ lifecycleMu' = [lifecycleMu EXCEPT ![fwd[p]] = p]
Unlocked(p) == lifecycleMu' = [lifecycleMu EXCEPT ![fwd[p]] = None]

(* wg.Add(1); go func() { ... } *)
StartLoop(f) ==
    \E l \in Loops :
        /\ lpc[l] = "off"
        /\ lpc' = [lpc EXCEPT ![l] = "check"]
        /\ loopOf' = [loopOf EXCEPT ![l] = f]
        /\ UNCHANGED taken

(* The section of Close and Restart under f.mu that stops the forwarder; a  *)
(* closed connection leaves the map when its handler ends, which changes    *)
(* nothing any more.                                                        *)
Shut(f) ==
    /\ closed' = [closed EXCEPT ![f] = TRUE]
    /\ listener' = [listener EXCEPT ![f] = IF @ = "open" THEN "closed" ELSE @]
    /\ xstate' = [x \in Conns |-> IF x \in conns[f] THEN "closed" ELSE xstate[x]]
    /\ conns' = [conns EXCEPT ![f] = {}]
    /\ UNCHANGED xof

-------------------------------------------------------------------------------
(* Service.Add and Forwarder.Start. *)

(* Get and AwaitClient: the client the session has now, or an error. *)
AddBegin(p) ==
    /\ p \in Handlers /\ "add" \in Ops
    /\ PGoto(p, "idle", IF cur = 0 THEN "idle" ELSE "addNew")
    /\ arg' = [arg EXCEPT ![p] = cur]
    /\ UNCHANGED <<sessVars, fwdVars, readers, fwd, todo, loopVars, connVars>>

(* NewForwarder: a local forward listens at once. *)
AddNew(p, f) ==
    /\ f \notin born /\ PGoto(p, "addNew", "addRegister")
    /\ born' = born \cup {f}
    /\ fwd' = [fwd EXCEPT ![p] = f]
    /\ client' = [client EXCEPT ![f] = arg[p]]
    /\ listener' = [listener EXCEPT ![f] = IF FType[f] = "local" THEN "open" ELSE "nil"]
    /\ UNCHANGED <<sessVars, forwards, closed, conns, lifecycleMu, readers, arg, todo, loopVars,
                   connVars>>

AddNewFails(p) ==
    /\ PGoto(p, "addNew", "idle")
    /\ arg' = [arg EXCEPT ![p] = 0]
    /\ UNCHANGED <<sessVars, fwdVars, readers, fwd, todo, loopVars, connVars>>

AddRegister(p) ==
    /\ readers = {} /\ PGoto(p, "addRegister", "addStart")
    /\ forwards' = forwards \cup {fwd[p]}
    /\ UNCHANGED <<sessVars, born, client, listener, closed, conns, lifecycleMu, readers, fwd,
                   arg, todo, loopVars, connVars>>

Done(p) == fwd' = [fwd EXCEPT ![p] = None] /\ arg' = [arg EXCEPT ![p] = 0]

StartClosed(p) ==
    /\ PGoto(p, "addStart", "addRemove") /\ lifecycleMu[fwd[p]] = None /\ closed[fwd[p]]
    /\ UNCHANGED <<sessVars, fwdVars, readers, fwd, arg, todo, loopVars, connVars>>

StartLocal(p) ==
    /\ PGoto(p, "addStart", "idle")
    /\ lifecycleMu[fwd[p]] = None /\ ~closed[fwd[p]] /\ FType[fwd[p]] = "local"
    /\ Done(p)
    /\ StartLoop(fwd[p])
    /\ UNCHANGED <<sessVars, fwdVars, readers, todo, connVars>>

(* startRemoteForward keeps lifecycleMu during the request to the server. *)
StartRemote(p) ==
    /\ PGoto(p, "addStart", "addListen")
    /\ ~closed[fwd[p]] /\ FType[fwd[p]] = "remote" /\ Locked(p)
    /\ UNCHANGED <<sessVars, forwards, born, client, listener, closed, conns, readers, fwd, arg,
                   todo, loopVars, connVars>>

(* The server grants a port that is not taken, on a connection that works. *)
RemoteListenOk(f) ==
    /\ Works(client[f]) /\ ~CanAccept(f)
    /\ listener' = [listener EXCEPT ![f] = "open"]
    /\ StartLoop(f)

AddListenOk(p) ==
    /\ PGoto(p, "addListen", "idle")
    /\ RemoteListenOk(fwd[p]) /\ Unlocked(p) /\ Done(p)
    /\ UNCHANGED <<sessVars, forwards, born, client, closed, conns, readers, todo, connVars>>

(* Mutant of AddListenFails: the lock is kept until the forward is removed. *)
AddListenFailsLocked(p) ==
    /\ PGoto(p, "addListen", "addRemove")
    /\ UNCHANGED <<sessVars, fwdVars, readers, fwd, arg, todo, loopVars, connVars>>

AddListenFails(p) ==
    /\ PGoto(p, "addListen", "addRemove") /\ Unlocked(p)
    /\ UNCHANGED <<sessVars, forwards, born, client, listener, closed, conns, readers, fwd, arg,
                   todo, loopVars, connVars>>

AddRemove(p) ==
    /\ readers = {} /\ PGoto(p, "addRemove", "idle") /\ Done(p)
    /\ forwards' = forwards \ {fwd[p]}
    /\ UNCHANGED <<sessVars, born, client, listener, closed, conns, lifecycleMu, readers, todo,
                   loopVars, connVars>>

-------------------------------------------------------------------------------
(* Service.Close and Forwarder.Close. *)

CloseDelete(p, f) ==
    /\ p \in Handlers /\ "close" \in Ops /\ readers = {} /\ f \in forwards
    /\ PGoto(p, "idle", "closeLock")
    /\ forwards' = forwards \ {f}
    /\ fwd' = [fwd EXCEPT ![p] = f]
    /\ UNCHANGED <<sessVars, born, client, listener, closed, conns, lifecycleMu, readers, arg,
                   todo, loopVars, connVars>>

(* Mutant of CloseLock: the service drops the forward but does not close it. *)
CloseForgets(p) ==
    /\ PGoto(p, "closeLock", "idle") /\ Done(p)
    /\ UNCHANGED <<sessVars, fwdVars, readers, todo, loopVars, connVars>>

CloseLock(p) ==
    /\ PGoto(p, "closeLock", "closeWait") /\ Locked(p) /\ Shut(fwd[p])
    /\ UNCHANGED <<sessVars, forwards, born, client, readers, fwd, arg, todo, loopVars>>

(* Mutant of CloseWait: Close returns without wg.Wait. *)
CloseNoWait(p) ==
    /\ PGoto(p, "closeWait", "idle") /\ Unlocked(p) /\ Done(p)
    /\ UNCHANGED <<sessVars, forwards, born, client, listener, closed, conns, readers, todo,
                   loopVars, connVars>>

CloseWait(p) ==
    /\ PGoto(p, "closeWait", "idle")
    /\ LoopsOf(fwd[p]) = {} /\ Unlocked(p) /\ Done(p)
    /\ UNCHANGED <<sessVars, forwards, born, client, listener, closed, conns, readers, todo,
                   loopVars, connVars>>

-------------------------------------------------------------------------------
(* The monitor reconnects and calls RestartAll, which keeps Service.mu for  *)
(* reading while it restarts the session's forwards one after the other.    *)

Dial ==
    /\ ~alive /\ dials < MaxDials
    /\ dials' = dials + 1 /\ cur' = dials + 1 /\ alive' = TRUE

MonitorReconnect(p) ==
    /\ p = Monitor /\ "monitor" \in Ops /\ cur # 0
    /\ PGoto(p, "idle", "restartAll") /\ Dial
    /\ UNCHANGED <<fwdVars, readers, fwd, arg, todo, loopVars, connVars>>

(* Mutant of RestartAll: Service.mu is given back after the list is read. *)
RestartAllUnlocked(p) ==
    /\ PGoto(p, "restartAll", "restartNext")
    /\ arg' = [arg EXCEPT ![p] = cur]
    /\ todo' = [todo EXCEPT ![p] = forwards]
    /\ UNCHANGED <<sessVars, fwdVars, readers, fwd, loopVars, connVars>>

RestartAll(p) ==
    /\ PGoto(p, "restartAll", "restartNext")
    /\ arg' = [arg EXCEPT ![p] = cur]
    /\ readers' = readers \cup {p}
    /\ todo' = [todo EXCEPT ![p] = forwards]
    /\ UNCHANGED <<sessVars, fwdVars, fwd, loopVars, connVars>>

RestartShut(p, f) ==
    /\ f \in todo[p] /\ lifecycleMu[f] = None
    /\ PGoto(p, "restartNext", "restartWait")
    /\ todo' = [todo EXCEPT ![p] = @ \ {f}]
    /\ fwd' = [fwd EXCEPT ![p] = f]
    /\ lifecycleMu' = [lifecycleMu EXCEPT ![f] = p]
    /\ Shut(f)
    /\ UNCHANGED <<sessVars, forwards, born, client, readers, arg, loopVars>>

(* Mutant of RestartReset: closed is not reset. *)
RestartStaysClosed(p) ==
    LET f == fwd[p] IN
    /\ PGoto(p, "restartWait", "restartStart") /\ LoopsOf(f) = {}
    /\ client' = [client EXCEPT ![f] = arg[p]]
    /\ \E r \in IF FType[f] = "local" THEN {"open", "nil"} ELSE {"nil"} :
          listener' = [listener EXCEPT ![f] = r]
    /\ UNCHANGED <<sessVars, forwards, born, closed, conns, lifecycleMu, readers, fwd, arg, todo,
                   loopVars, connVars>>

(* wg.Wait, then the new client and, for a local forward, a new listener,   *)
(* which the system may refuse.                                             *)
RestartReset(p) ==
    LET f == fwd[p] IN
    /\ PGoto(p, "restartWait", "restartStart") /\ LoopsOf(f) = {}
    /\ client' = [client EXCEPT ![f] = arg[p]]
    /\ closed' = [closed EXCEPT ![f] = FALSE]
    /\ \E r \in IF FType[f] = "local" THEN {"open", "nil"} ELSE {"nil"} :
          listener' = [listener EXCEPT ![f] = r]
    /\ UNCHANGED <<sessVars, forwards, born, conns, lifecycleMu, readers, fwd, arg, todo,
                   loopVars, connVars>>

RestartNext(p) == PGoto(p, "restartStart", "restartNext") /\ Unlocked(p)
                  /\ fwd' = [fwd EXCEPT ![p] = None]

RestartLocal(p) ==
    /\ RestartNext(p) /\ FType[fwd[p]] = "local"
    /\ StartLoop(fwd[p])
    /\ UNCHANGED <<sessVars, forwards, born, client, listener, closed, conns, readers, arg, todo,
                   connVars>>

RestartRemoteOk(p) ==
    /\ RestartNext(p) /\ FType[fwd[p]] = "remote"
    /\ RemoteListenOk(fwd[p])
    /\ UNCHANGED <<sessVars, forwards, born, client, closed, conns, readers, arg, todo, connVars>>

RestartRemoteFails(p) ==
    /\ RestartNext(p) /\ FType[fwd[p]] = "remote"
    /\ UNCHANGED <<sessVars, forwards, born, client, listener, closed, conns, readers, arg, todo,
                   loopVars, connVars>>

RestartAllDone(p) ==
    /\ todo[p] = {} /\ PGoto(p, "restartNext", "idle")
    /\ readers' = readers \ {p}
    /\ arg' = [arg EXCEPT ![p] = 0]
    /\ UNCHANGED <<sessVars, fwdVars, fwd, todo, loopVars, connVars>>

-------------------------------------------------------------------------------
(* The accept loops of startLocalForward and startRemoteForward. *)

Exit(l) == lpc' = [lpc EXCEPT ![l] = "off"] /\ loopOf' = [loopOf EXCEPT ![l] = None]

LoopSeesClosed(l) ==
    /\ lpc[l] = "check" /\ closed[loopOf[l]] /\ Exit(l)
    /\ UNCHANGED <<sessVars, fwdVars, procVars, taken, connVars>>

(* No listener: the loop sleeps for a second and looks again. *)
LoopListens(l) ==
    /\ LGoto(l, "check", "accept") /\ ~closed[loopOf[l]] /\ listener[loopOf[l]] # "nil"
    /\ UNCHANGED <<sessVars, fwdVars, procVars, loopOf, taken, connVars>>

LoopAccept(l, x) ==
    /\ lpc[l] = "accept" /\ CanAccept(loopOf[l]) /\ xstate[x] = "new"
    /\ LGoto(l, "accept", IF FType[loopOf[l]] = "local" THEN "track" ELSE "dial")
    /\ taken' = [taken EXCEPT ![l] = x]
    /\ xstate' = [xstate EXCEPT ![x] = "accepted"]
    /\ xof' = [xof EXCEPT ![x] = loopOf[l]]
    /\ UNCHANGED <<sessVars, fwdVars, procVars, loopOf>>

(* Accept of a local loop times out after 5 s, or fails for want of a       *)
(* descriptor: the loop goes on.                                            *)
LoopAcceptRetry(l) ==
    /\ LGoto(l, "accept", "check")
    /\ CanAccept(loopOf[l]) /\ FType[loopOf[l]] = "local"
    /\ UNCHANGED <<sessVars, fwdVars, procVars, loopOf, taken, connVars>>

(* The listener is gone: a closed local loop and a remote loop end. *)
LoopAcceptEnd(l) ==
    /\ lpc[l] = "accept" /\ ~CanAccept(loopOf[l])
    /\ FType[loopOf[l]] = "remote" \/ closed[loopOf[l]]
    /\ Exit(l)
    /\ UNCHANGED <<sessVars, fwdVars, procVars, taken, connVars>>

(* A remote loop dials the local port itself. *)
LoopDialOk(l) ==
    /\ LGoto(l, "dial", "track")
    /\ UNCHANGED <<sessVars, fwdVars, procVars, loopOf, taken, connVars>>

(* Mutant of LoopDialFails: no `continue' after the connection is closed. *)
LoopDialFallsThrough(l) ==
    /\ LGoto(l, "dial", "track")
    /\ xstate' = [xstate EXCEPT ![taken[l]] = "closed"]
    /\ taken' = [taken EXCEPT ![l] = None]
    /\ UNCHANGED <<sessVars, fwdVars, procVars, loopOf, xof>>

LoopDialFails(l) ==
    /\ LGoto(l, "dial", "check")
    /\ xstate' = [xstate EXCEPT ![taken[l]] = "closed"]
    /\ taken' = [taken EXCEPT ![l] = None]
    /\ UNCHANGED <<sessVars, fwdVars, procVars, loopOf, xof>>

(* f.conns[conn] = true and the goroutine that serves the connection. *)
LoopTrack(l) ==
    /\ LGoto(l, "track", "check")
    /\ conns' = [conns EXCEPT ![loopOf[l]] = @ \cup {taken[l]}]
    /\ xstate' = [xstate EXCEPT ![taken[l]] =
                     IF FType[loopOf[l]] = "local" THEN "dialling" ELSE "open"]
    /\ taken' = [taken EXCEPT ![l] = None]
    /\ UNCHANGED <<sessVars, forwards, born, client, listener, closed, lifecycleMu, procVars,
                   loopOf, xof>>

(* handleLocalConnection: a channel on the client the forwarder has now. *)
ConnDialOk(x) ==
    /\ xstate[x] = "dialling" /\ Works(client[xof[x]])
    /\ xstate' = [xstate EXCEPT ![x] = "open"]
    /\ UNCHANGED <<sessVars, fwdVars, procVars, loopVars, xof>>

(* The channel cannot be opened, or the copying ends. *)
ConnEnd(x) ==
    /\ xstate[x] \in {"dialling", "open"}
    /\ xstate' = [xstate EXCEPT ![x] = "closed"]
    /\ conns' = [conns EXCEPT ![xof[x]] = @ \ {x}]
    /\ UNCHANGED <<sessVars, forwards, born, client, listener, closed, lifecycleMu, procVars,
                   loopVars, xof>>

-------------------------------------------------------------------------------
(* The session. *)

SessionBreaks ==
    /\ alive /\ alive' = FALSE
    /\ UNCHANGED <<cur, dials, fwdVars, procVars, loopVars, connVars>>

(* `use' or `connect' dials: the monitor then finds the session alive. *)
Redialled ==
    /\ "redial" \in Ops /\ Dial
    /\ UNCHANGED <<fwdVars, procVars, loopVars, connVars>>

SessionKilled ==
    /\ "kill" \in Ops /\ cur # 0 /\ cur' = 0 /\ alive' = FALSE
    /\ UNCHANGED <<dials, fwdVars, procVars, loopVars, connVars>>

-------------------------------------------------------------------------------

AddStep(p) ==
    \/ (\E f \in Fwds : AddNew(p, f)) \/ AddNewFails(p) \/ AddRegister(p)
    \/ StartClosed(p) \/ StartLocal(p) \/ StartRemote(p)
    \/ AddListenOk(p) \/ AddListenFails(p) \/ AddRemove(p)

CloseStep(p) == CloseLock(p) \/ CloseWait(p)

RestartStep(p) ==
    \/ RestartAll(p) \/ (\E f \in Fwds : RestartShut(p, f)) \/ RestartReset(p)
    \/ RestartLocal(p) \/ RestartRemoteOk(p) \/ RestartRemoteFails(p) \/ RestartAllDone(p)

LoopStep(l) ==
    \/ LoopSeesClosed(l) \/ LoopListens(l) \/ LoopAcceptRetry(l) \/ LoopAcceptEnd(l)
    \/ LoopDialOk(l) \/ LoopDialFails(l) \/ LoopTrack(l)

CallStep(p) == AddStep(p) \/ CloseStep(p) \/ RestartStep(p)

Next ==
    \/ \E p \in Procs :
          \/ AddBegin(p) \/ (\E f \in Fwds : CloseDelete(p, f)) \/ MonitorReconnect(p)
          \/ CallStep(p)
    \/ \E l \in Loops : LoopStep(l) \/ \E x \in Conns : LoopAccept(l, x)
    \/ \E x \in Conns : ConnDialOk(x) \/ ConnEnd(x)
    \/ SessionBreaks \/ Redialled \/ SessionKilled

Spec == Init /\ [][Next]_pvars

(* Fairness: goroutines run, listens and dials end, and the mutexes are     *)
(* handed to their waiters.  Peers owe nothing: no fairness for LoopAccept, *)
(* ConnEnd or the session.                                                  *)
FairSpec ==
    /\ Spec
    /\ \A p \in Procs : SF_pvars(CallStep(p))
    /\ \A l \in Loops : WF_pvars(LoopStep(l))

-------------------------------------------------------------------------------
(* Properties. *)

(* Every variable keeps its type, only a forwarder that exists is listed,   *)
(* and an accept loop has a connection in hand exactly between Accept and   *)
(* the moment it enters it in the map or drops it.                          *)
TypeOK ==
    /\ cur \in 0..MaxDials /\ dials \in 1..MaxDials /\ alive \in BOOLEAN
    /\ forwards \subseteq born /\ born \subseteq Fwds
    /\ client \in [Fwds -> 0..MaxDials]
    /\ listener \in [Fwds -> {"nil", "open", "closed"}]
    /\ closed \in [Fwds -> BOOLEAN]
    /\ conns \in [Fwds -> SUBSET Conns]
    /\ lifecycleMu \in [Fwds -> Procs \cup {None}]
    /\ readers \subseteq Procs
    /\ pc \in [Procs -> {"idle", "addNew", "addRegister", "addStart", "addListen", "addRemove",
                         "closeLock", "closeWait", "restartAll", "restartNext", "restartWait",
                         "restartStart"}]
    /\ fwd \in [Procs -> Fwds \cup {None}]
    /\ arg \in [Procs -> 0..MaxDials]
    /\ todo \in [Procs -> SUBSET Fwds]
    /\ loopOf \in [Loops -> Fwds \cup {None}]
    /\ lpc \in [Loops -> {"off", "check", "accept", "dial", "track"}]
    /\ taken \in [Loops -> Conns \cup {None}]
    /\ \A l \in Loops : taken[l] # None <=> lpc[l] \in {"dial", "track"}
    /\ xstate \in [Conns -> {"new", "accepted", "dialling", "open", "closed"}]
    /\ xof \in [Conns -> Fwds \cup {None}]

InCall(f) == \E p \in Procs : fwd[p] = f

(* When Close has returned, the forwarder listens no more and none of its   *)
(* accept loops runs, whatever Start and Restart were in progress.          *)
ClosedIsQuiet ==
    \A f \in Fwds : closed[f] /\ lifecycleMu[f] = None =>
        listener[f] # "open" /\ LoopsOf(f) = {}

(* A local forward in the list has an accept loop, however many restarts,   *)
(* failed listens and concurrent requests it has been through.              *)
ListedIsServed ==
    \A f \in forwards : ~InCall(f) /\ FType[f] = "local" =>
        ~closed[f] /\ LoopsOf(f) # {}

Active(f) == listener[f] = "open" /\ LoopsOf(f) # {}

(* The list shows every active local forward: one that listens and accepts  *)
(* is in it, or a call on it is still in progress.                          *)
ActiveIsListed ==
    \A f \in Fwds : Active(f) /\ FType[f] = "local" => f \in forwards \/ InCall(f)

(* The same for forwards of both types. *)
AllActiveListed == \A f \in Fwds : Active(f) => f \in forwards \/ InCall(f)

(* When Close has returned, no connection of the forward is open.           *)
CloseEndsConnections ==
    \A f \in Fwds : closed[f] /\ lifecycleMu[f] = None =>
        \A x \in Conns : xof[x] = f => xstate[x] = "closed"

(* While the session has a working client and no call is in progress, every *)
(* forward of the session uses that client.                                 *)
ForwardsFollowSession ==
    alive /\ (\A p \in Procs : pc[p] = "idle") => \A f \in forwards : client[f] = cur

(* RestartAll leaves no forward behind: each one in the list that it has    *)
(* passed uses the client it was called with, also one whose Add is still   *)
(* in progress with an older client (Service.mu is held for this).          *)
RestartReachesAll ==
    pc[Monitor] = "restartNext" => \A f \in forwards \ todo[Monitor] : client[f] = arg[Monitor]

(* Whom a call waits for at this moment: the holder of lifecycleMu, the     *)
(* readers of Service.mu, or the accept loops in wg.Wait.                   *)
WaitsFor(p) ==
    {q \in Procs :
        \/ pc[p] \in {"addStart", "closeLock"} /\ lifecycleMu[fwd[p]] = q
        \/ pc[p] \in {"addRegister", "addRemove"} /\ q \in readers
        \/ /\ pc[p] = "restartNext"
           /\ \A f \in todo[p] : lifecycleMu[f] # None
           /\ \E f \in todo[p] : lifecycleMu[f] = q}
    \cup {l \in LoopsOf(fwd[p]) : pc[p] \in {"closeWait", "restartWait"}}

(* A remote loop is left to its peers while its listener accepts. *)
AtPeersMercy ==
    {l \in Loops : lpc[l] = "accept" /\ FType[loopOf[l]] = "remote" /\ CanAccept(loopOf[l])}

(* No deadlock: Add, Close and RestartAll never wait for each other in a    *)
(* circle through Service.mu and lifecycleMu, and none waits in wg.Wait for *)
(* a loop that only a peer could wake.                                      *)
NoDeadlock ==
    \A S \in (SUBSET Procs) \ {{}} : \E p \in S : WaitsFor(p) \cap (S \cup AtPeersMercy) = {}

(* Add, Close and RestartAll return: no order of s.mu, lifecycleMu and      *)
(* wg.Wait leaves them waiting for each other.                              *)
OpsReturn == \A p \in Procs : pc[p] # "idle" ~> pc[p] = "idle"
===============================================================================
