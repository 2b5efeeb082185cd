---------------------------- MODULE SessionManager ----------------------------
(***************************************************************************)
(* The session manager of gssh (internal/session/session.go): the registry *)
(* of named sessions, the default session, and the dial-and-adopt protocol *)
(* that gives an SSH session its client.                                   *)
(*                                                                         *)
(* A process is a goroutine that calls the manager: a connection handler,  *)
(* a monitor loop, a restore goroutine or Stop.  pc[p] says where p is in  *)
(* the call it makes; an action is one critical section of the code (under *)
(* m.mu, sess.mu or sess.reconnMu) or one effect outside every lock (a     *)
(* dial, the close of a client).  A method with several early returns is   *)
(* several actions with the same entry label.                              *)
(*                                                                         *)
(* Abstracted: credentials, CreatedAt and LastCmd (a dial may succeed or   *)
(* fail whatever the credentials); a (user, host, port) triple is a Host.  *)
(***************************************************************************)

CONSTANTS
    Procs,      \* goroutines that call the manager
    Names,      \* session names
    Hosts,      \* (user, host, port) triples
    AutoName,   \* the name "user@host" ConnectSSH gives a nameless session
    Objs,       \* session objects, each allocated at most once
    Clients,    \* SSH clients, each the result of at most one dial
    Ops,        \* the methods the processes of this instance call
    None        \* nil, and the empty name

AllOps == {"connect", "local", "kill", "use", "reconnect", "killall", "restore"}

LocalHost == "local"

ASSUME NoneAssumption ==
    None \notin Procs \cup Names \cup Hosts \cup Objs \cup Clients \cup {LocalHost}
ASSUME HostAssumption == LocalHost \notin Hosts
ASSUME AutoNameAssumption == AutoName \in [Hosts -> Names]
ASSUME OpsAssumption == Ops \subseteq AllOps

VARIABLES
    sessions,     \* Manager.sessions: the object registered under a name
    defaultName,  \* Manager.defaultName
    host,         \* the target of an object, "local", or None before it exists
    sname,        \* SSHSession.Name
    status,       \* SSHSession.Status
    client,       \* SSHSession.Client
    reconnMu,     \* the holder of SSHSession.reconnMu
    closed,       \* history: Session.Close has been called on the object
    conn,         \* what has become of each client
    pc,           \* where a process is
    name,         \* local variable name of the running call
    obj,          \* local variable sess of the running call
    cl,           \* the client this process alone must adopt or close
    todo,         \* KillAll's snapshot, what is left of it
    restoring,    \* Server.restoreState has not returned
    stopped       \* Server.Stop has called KillAll

regVars  == <<sessions, defaultName>>
objVars  == <<host, sname, status, client, reconnMu, closed>>
procVars == <<pc, name, obj, cl, todo>>
srvVars  == <<restoring, stopped>>
vars     == <<regVars, objVars, conn, procVars, srvVars>>

Statuses  == {"connected", "disconnected", "reconnecting", "offline", "connecting"}
InFlight  == {"connecting", "reconnecting"}
ConnState == {"unused", "open", "broken", "closed"}
Live      == {"open", "broken"}     \* a client nobody has closed yet

(* Labels inside reconnectSSH, where the process holds sess.reconnMu. *)
LockedPcs == {"takeOld", "closeOld", "redial", "recheck", "readopt", "rejectClose"}
(* Labels between taking a client from its session and closing it. *)
TakenPcs == {"closeOld", "killCl", "killAllCl"}
Pcs == LockedPcs \cup
       {"idle", "retOk", "retErr",
        "dial", "unregister", "adopt", "connectReject", "await", "awaitGet",
        "killLookup", "killClose", "killCl", "killAll", "killAllCl",
        "useLookup", "useDefault", "useStatus", "reconnLock"}

Init ==
    /\ sessions = [n \in Names |-> None]
    /\ defaultName = None
    /\ host = [o \in Objs |-> None]
    /\ sname = [o \in Objs |-> None]
    /\ status = [o \in Objs |-> "offline"]
    /\ client = [o \in Objs |-> None]
    /\ reconnMu = [o \in Objs |-> None]
    /\ closed = [o \in Objs |-> FALSE]
    /\ conn = [c \in Clients |-> "unused"]
    /\ pc = [p \in Procs |-> "idle"]
    /\ name = [p \in Procs |-> None]
    /\ obj = [p \in Procs |-> None]
    /\ cl = [p \in Procs |-> None]
    /\ todo = [p \in Procs |-> {}]
    /\ restoring = IF "restore" \in Ops THEN TRUE ELSE FALSE
    /\ stopped = FALSE

-------------------------------------------------------------------------------
(* Helpers. *)

Unborn(o)     == host[o] = None
IsLocal(o)    == host[o] = LocalHost
Registered(o) == \E n \in Names : sessions[n] = o

Goto(p, label)     == pc' = [pc EXCEPT ![p] = label]
SetStatus(o, s)    == status' = [status EXCEPT ![o] = s]
SetName(p, n)      == name' = [name EXCEPT ![p] = n]
SetObj(p, o)       == obj' = [obj EXCEPT ![p] = o]
Hold(p, c)         == cl' = [cl EXCEPT ![p] = c]

(* A process may start a call.  Requests are served only once restoreState *)
(* has returned; until then only its reconnect goroutines and a signal's   *)
(* Stop call the manager.                                                  *)
Begins(p, op) == pc[p] = "idle" /\ op \in Ops
Request(p, op) == Begins(p, op) /\ ~restoring

(* sessions[name], where the empty name is never a key. *)
Lookup(n) == IF n \in Names THEN sessions[n] ELSE None

(* Mutant of Unregister: the default name stays. *)
UnregisterOnly(n) ==
    /\ sessions' = [sessions EXCEPT ![n] = None]
    /\ UNCHANGED defaultName

(* delete(m.sessions, name) and the reset of the default that goes with it. *)
Unregister(n) ==
    /\ sessions' = [sessions EXCEPT ![n] = None]
    /\ defaultName' = IF defaultName = n THEN None ELSE defaultName

(* A new session object, registered under n. *)
Register(n, o, h, s) ==
    /\ Unborn(o)
    /\ sessions' = [sessions EXCEPT ![n] = o]
    /\ host' = [host EXCEPT ![o] = h]
    /\ sname' = [sname EXCEPT ![o] = n]
    /\ SetStatus(o, s)
    /\ UNCHANGED <<client, reconnMu, closed>>

(* The locked section of SSHSession.Close: detach the client (p will close *)
(* it) and mark the session disconnected.                                  *)
Detach(p, o) ==
    /\ Hold(p, client[o])
    /\ client' = [client EXCEPT ![o] = None]
    /\ SetStatus(o, "disconnected")
    /\ closed' = [closed EXCEPT ![o] = TRUE]
    /\ UNCHANGED <<host, sname, reconnMu>>

Adopt(p, o) ==
    /\ client' = [client EXCEPT ![o] = cl[p]]
    /\ SetStatus(o, "connected")
    /\ Hold(p, None)

-------------------------------------------------------------------------------
(* ConnectSSH(name, user, host, port, ...).  The section under m.mu decides *)
(* between five outcomes.                                                   *)

ConnectName(n, h) == IF n = None THEN AutoName[h] ELSE n

ConnectConnected(p, n, h) ==
    LET nm == ConnectName(n, h) o == sessions[nm] IN
    /\ Request(p, "connect")
    /\ o # None /\ host[o] = h /\ status[o] = "connected"
    /\ defaultName' = nm
    /\ Goto(p, "retOk") /\ SetName(p, nm) /\ SetObj(p, o)
    /\ UNCHANGED <<sessions, objVars, conn, cl, todo, srvVars>>

ConnectInFlight(p, n, h) ==
    LET nm == ConnectName(n, h) o == sessions[nm] IN
    /\ Request(p, "connect")
    /\ o # None /\ host[o] = h /\ status[o] \in InFlight
    /\ defaultName' = nm
    /\ Goto(p, "await") /\ SetName(p, nm) /\ SetObj(p, o)
    /\ UNCHANGED <<sessions, objVars, conn, cl, todo, srvVars>>

ConnectOffline(p, n, h) ==
    LET nm == ConnectName(n, h) o == sessions[nm] IN
    /\ Request(p, "connect")
    /\ o # None /\ host[o] = h /\ status[o] \in {"offline", "disconnected"}
    /\ defaultName' = nm
    /\ Goto(p, "reconnLock") /\ SetName(p, nm) /\ SetObj(p, o)
    /\ UNCHANGED <<sessions, objVars, conn, cl, todo, srvVars>>

ConnectCollision(p, n, h) ==
    LET nm == ConnectName(n, h) o == sessions[nm] IN
    /\ Request(p, "connect")
    /\ o # None /\ host[o] # h
    /\ Goto(p, "retErr")
    /\ UNCHANGED <<regVars, objVars, conn, name, obj, cl, todo, srvVars>>

ConnectNew(p, n, h, o) ==
    LET nm == ConnectName(n, h) IN
    /\ Request(p, "connect")
    /\ sessions[nm] = None
    /\ Register(nm, o, h, "connecting")
    /\ defaultName' = nm
    /\ Goto(p, "dial") /\ SetName(p, nm) /\ SetObj(p, o)
    /\ UNCHANGED <<conn, cl, todo, srvVars>>

(* The dial of a new session, outside every lock. *)
ConnectDialOk(p, c) ==
    /\ pc[p] = "dial" /\ conn[c] = "unused"
    /\ conn' = [conn EXCEPT ![c] = "open"]
    /\ Hold(p, c) /\ Goto(p, "adopt")
    /\ UNCHANGED <<regVars, objVars, name, obj, todo, srvVars>>

(* The dial failed: the session goes offline before it is removed. *)
ConnectDialFail(p) ==
    /\ pc[p] = "dial"
    /\ SetStatus(obj[p], "offline") /\ Goto(p, "unregister")
    /\ UNCHANGED <<regVars, host, sname, client, reconnMu, closed, conn, name, obj, cl,
                   todo, srvVars>>

(* The removal is by name: it does not look at what the name now denotes. *)
ConnectUnregister(p) ==
    /\ pc[p] = "unregister"
    /\ Unregister(name[p]) /\ Goto(p, "retErr")
    /\ UNCHANGED <<objVars, conn, name, obj, cl, todo, srvVars>>

(* Mutant of ConnectAdopt: no look at the status after the dial. *)
ConnectAdoptBlindly(p) ==
    /\ pc[p] = "adopt"
    /\ Adopt(p, obj[p]) /\ Goto(p, "retOk")
    /\ UNCHANGED <<regVars, host, sname, reconnMu, closed, conn, name, obj, todo, srvVars>>

ConnectAdopt(p) ==
    /\ pc[p] = "adopt" /\ status[obj[p]] = "connecting"
    /\ Adopt(p, obj[p]) /\ Goto(p, "retOk")
    /\ UNCHANGED <<regVars, host, sname, reconnMu, closed, conn, name, obj, todo, srvVars>>

ConnectReject(p) ==
    /\ pc[p] = "adopt" /\ status[obj[p]] # "connecting"
    /\ Goto(p, "connectReject")
    /\ UNCHANGED <<regVars, objVars, conn, name, obj, cl, todo, srvVars>>

(* client.Close() of a client only this call still refers to. *)
CloseHeld(p, from, to) ==
    /\ pc[p] = from
    /\ conn' = [conn EXCEPT ![cl[p]] = "closed"]
    /\ Hold(p, None) /\ Goto(p, to)
    /\ UNCHANGED <<regVars, objVars, name, obj, todo, srvVars>>

ConnectCloseRejected(p) == CloseHeld(p, "connectReject", "retErr")

(* SSHSession.AwaitClient: the status and the client are read in separate   *)
(* sections, and a poll that finds neither a client nor a terminal state    *)
(* sleeps (a stuttering step here) or gives up at the deadline.             *)
AwaitConnected(p) ==
    /\ pc[p] = "await" /\ status[obj[p]] = "connected"
    /\ Goto(p, "awaitGet")
    /\ UNCHANGED <<regVars, objVars, conn, name, obj, cl, todo, srvVars>>

AwaitTerminal(p) ==
    /\ pc[p] = "await" /\ status[obj[p]] \in {"offline", "disconnected"}
    /\ Goto(p, "retErr")
    /\ UNCHANGED <<regVars, objVars, conn, name, obj, cl, todo, srvVars>>

(* GetSSHClient: a client the liveness probe closed has no GoClient. *)
HasGoClient(o) == client[o] # None /\ conn[client[o]] # "closed"

AwaitGet(p) ==
    /\ pc[p] = "awaitGet"
    /\ Goto(p, IF HasGoClient(obj[p]) THEN "retOk" ELSE "await")
    /\ UNCHANGED <<regVars, objVars, conn, name, obj, cl, todo, srvVars>>

AwaitTimeout(p) ==
    /\ \/ pc[p] = "await" /\ status[obj[p]] \in InFlight
       \/ pc[p] = "awaitGet" /\ ~HasGoClient(obj[p])
    /\ Goto(p, "retErr")
    /\ UNCHANGED <<regVars, objVars, conn, name, obj, cl, todo, srvVars>>

-------------------------------------------------------------------------------
(* ConnectLocal(name).  Also called by restoreState. *)

ConnectLocalExisting(p, n) ==
    /\ Request(p, "local") /\ sessions[n] # None /\ IsLocal(sessions[n])
    /\ defaultName' = n
    /\ Goto(p, "retOk") /\ SetName(p, n) /\ SetObj(p, sessions[n])
    /\ UNCHANGED <<sessions, objVars, conn, cl, todo, srvVars>>

ConnectLocalCollision(p, n) ==
    /\ Request(p, "local") /\ sessions[n] # None /\ ~IsLocal(sessions[n])
    /\ Goto(p, "retErr")
    /\ UNCHANGED <<regVars, objVars, conn, name, obj, cl, todo, srvVars>>

ConnectLocalNew(p, n, o) ==
    /\ Begins(p, "local") /\ sessions[n] = None
    /\ Register(n, o, LocalHost, "connected")
    /\ defaultName' = n
    /\ Goto(p, "retOk") /\ SetName(p, n) /\ SetObj(p, o)
    /\ UNCHANGED <<conn, cl, todo, srvVars>>

-------------------------------------------------------------------------------
(* Kill(name): an empty name is replaced by the default in a section of its *)
(* own; then lookup and removal, then Close, then the client's close.       *)

KillBegin(p, n) ==
    /\ Request(p, "kill")
    /\ SetName(p, IF n = None THEN defaultName ELSE n) /\ Goto(p, "killLookup")
    /\ UNCHANGED <<regVars, objVars, conn, obj, cl, todo, srvVars>>

KillNotFound(p) ==
    /\ pc[p] = "killLookup" /\ Lookup(name[p]) = None
    /\ Goto(p, "retErr")
    /\ UNCHANGED <<regVars, objVars, conn, name, obj, cl, todo, srvVars>>

KillRemove(p) ==
    /\ pc[p] = "killLookup" /\ Lookup(name[p]) # None
    /\ SetObj(p, sessions[name[p]])
    /\ Unregister(name[p]) /\ Goto(p, "killClose")
    /\ UNCHANGED <<objVars, conn, name, cl, todo, srvVars>>

KillClose(p) ==
    /\ pc[p] = "killClose"
    /\ Detach(p, obj[p])
    /\ Goto(p, IF client[obj[p]] = None THEN "retOk" ELSE "killCl")
    /\ UNCHANGED <<regVars, conn, name, obj, todo, srvVars>>

KillCloseClient(p) == CloseHeld(p, "killCl", "retOk")

-------------------------------------------------------------------------------
(* Use(name, ...): lookup, default and status are three separate sections. *)

UseBegin(p, n) ==
    /\ Request(p, "use")
    /\ SetName(p, IF n = None THEN defaultName ELSE n) /\ Goto(p, "useLookup")
    /\ UNCHANGED <<regVars, objVars, conn, obj, cl, todo, srvVars>>

UseLookup(p) ==
    /\ pc[p] = "useLookup"
    /\ SetObj(p, Lookup(name[p]))
    /\ Goto(p, IF Lookup(name[p]) = None THEN "retErr" ELSE "useDefault")
    /\ UNCHANGED <<regVars, objVars, conn, name, cl, todo, srvVars>>

UseSetDefault(p) ==
    /\ pc[p] = "useDefault"
    /\ defaultName' = name[p]
    /\ Goto(p, IF IsLocal(obj[p]) THEN "retOk" ELSE "useStatus")
    /\ UNCHANGED <<sessions, objVars, conn, name, obj, cl, todo, srvVars>>

UseStatus(p) ==
    /\ pc[p] = "useStatus"
    /\ Goto(p, IF status[obj[p]] \in InFlight \cup {"connected"} THEN "retOk"
               ELSE "reconnLock")
    /\ UNCHANGED <<regVars, objVars, conn, name, obj, cl, todo, srvVars>>

-------------------------------------------------------------------------------
(* Reconnect(name) and reconnectSSH(sess). *)

Reconnect(p, n) ==
    LET o == sessions[n] IN
    /\ Begins(p, "reconnect")
    /\ SetName(p, n) /\ SetObj(p, o)
    /\ Goto(p, IF o = None THEN "retErr"
               ELSE IF IsLocal(o) THEN "retErr" ELSE "reconnLock")
    /\ UNCHANGED <<regVars, objVars, conn, cl, todo, srvVars>>

(* Mutant of ReconnLock: the status is left as it was. *)
ReconnLockSilently(p) ==
    /\ pc[p] = "reconnLock" /\ reconnMu[obj[p]] = None
    /\ reconnMu' = [reconnMu EXCEPT ![obj[p]] = p] /\ Goto(p, "takeOld")
    /\ UNCHANGED <<regVars, host, sname, status, client, closed, conn, name, obj, cl, todo,
                   srvVars>>

(* reconnMu.Lock() and SetStatus(Reconnecting). *)
ReconnLock(p) ==
    /\ pc[p] = "reconnLock" /\ reconnMu[obj[p]] = None
    /\ reconnMu' = [reconnMu EXCEPT ![obj[p]] = p]
    /\ SetStatus(obj[p], "reconnecting") /\ Goto(p, "takeOld")
    /\ UNCHANGED <<regVars, host, sname, client, closed, conn, name, obj, cl, todo, srvVars>>

(* Mutant of ReconnTakeOld: the old client is neither closed nor detached. *)
ReconnForgetOld(p) ==
    /\ pc[p] = "takeOld" /\ Goto(p, "redial")
    /\ UNCHANGED <<regVars, objVars, conn, name, obj, cl, todo, srvVars>>

ReconnTakeOld(p) ==
    /\ pc[p] = "takeOld"
    /\ Hold(p, client[obj[p]])
    /\ client' = [client EXCEPT ![obj[p]] = None]
    /\ Goto(p, IF client[obj[p]] = None THEN "redial" ELSE "closeOld")
    /\ UNCHANGED <<regVars, host, sname, status, reconnMu, closed, conn, name, obj, todo,
                   srvVars>>

ReconnCloseOld(p) == CloseHeld(p, "closeOld", "redial")

ReconnDialOk(p, c) ==
    /\ pc[p] = "redial" /\ conn[c] = "unused"
    /\ conn' = [conn EXCEPT ![c] = "open"]
    /\ Hold(p, c) /\ Goto(p, "recheck")
    /\ UNCHANGED <<regVars, objVars, name, obj, todo, srvVars>>

(* Mutants of ReconnDialFail: no unlock; no SetStatus(Offline). *)
ReconnDialFailLocked(p) ==
    /\ pc[p] = "redial"
    /\ SetStatus(obj[p], "offline") /\ Goto(p, "retErr")
    /\ UNCHANGED <<regVars, host, sname, client, reconnMu, closed, conn, name, obj, cl, todo,
                   srvVars>>
ReconnDialFailSilently(p) ==
    /\ pc[p] = "redial"
    /\ reconnMu' = [reconnMu EXCEPT ![obj[p]] = None] /\ Goto(p, "retErr")
    /\ UNCHANGED <<regVars, host, sname, status, client, closed, conn, name, obj, cl, todo,
                   srvVars>>

(* SetStatus(Offline), then the deferred reconnMu.Unlock(). *)
ReconnDialFail(p) ==
    /\ pc[p] = "redial"
    /\ SetStatus(obj[p], "offline")
    /\ reconnMu' = [reconnMu EXCEPT ![obj[p]] = None] /\ Goto(p, "retErr")
    /\ UNCHANGED <<regVars, host, sname, client, closed, conn, name, obj, cl, todo, srvVars>>

(* Is the session still the one registered under its name? *)
ReconnRecheck(p) ==
    /\ pc[p] = "recheck"
    /\ Goto(p, IF Lookup(sname[obj[p]]) = obj[p] THEN "readopt" ELSE "rejectClose")
    /\ UNCHANGED <<regVars, objVars, conn, name, obj, cl, todo, srvVars>>

ReconnAdopt(p) ==
    /\ pc[p] = "readopt" /\ status[obj[p]] = "reconnecting"
    /\ Adopt(p, obj[p])
    /\ reconnMu' = [reconnMu EXCEPT ![obj[p]] = None] /\ Goto(p, "retOk")
    /\ UNCHANGED <<regVars, host, sname, closed, conn, name, obj, todo, srvVars>>

(* Mutant of ReconnStateChanged: the rejected client is not closed. *)
ReconnLeak(p) ==
    /\ pc[p] = "readopt" /\ status[obj[p]] # "reconnecting"
    /\ reconnMu' = [reconnMu EXCEPT ![obj[p]] = None]
    /\ Hold(p, None) /\ Goto(p, "retErr")
    /\ UNCHANGED <<regVars, host, sname, status, client, closed, conn, name, obj, todo,
                   srvVars>>

ReconnStateChanged(p) ==
    /\ pc[p] = "readopt" /\ status[obj[p]] # "reconnecting"
    /\ Goto(p, "rejectClose")
    /\ UNCHANGED <<regVars, objVars, conn, name, obj, cl, todo, srvVars>>

(* client.Close() of the rejected client, then the deferred unlock. *)
ReconnReject(p) ==
    /\ pc[p] = "rejectClose"
    /\ conn' = [conn EXCEPT ![cl[p]] = "closed"]
    /\ reconnMu' = [reconnMu EXCEPT ![obj[p]] = None]
    /\ Hold(p, None) /\ Goto(p, "retErr")
    /\ UNCHANGED <<regVars, host, sname, status, client, closed, name, obj, todo, srvVars>>

-------------------------------------------------------------------------------
(* KillAll(): Server.Stop calls it once. *)

(* Mutant of KillAllBegin: the snapshot has an entry for every name. *)
KillAllEveryName(p) ==
    /\ Begins(p, "killall") /\ ~stopped
    /\ todo' = [todo EXCEPT ![p] = {sessions[n] : n \in Names}]
    /\ sessions' = [n \in Names |-> None]
    /\ defaultName' = None
    /\ stopped' = TRUE
    /\ Goto(p, "killAll")
    /\ UNCHANGED <<objVars, conn, name, obj, cl, restoring>>

KillAllBegin(p) ==
    /\ Begins(p, "killall") /\ ~stopped
    /\ todo' = [todo EXCEPT ![p] = {sessions[n] : n \in Names} \ {None}]
    /\ sessions' = [n \in Names |-> None]
    /\ defaultName' = None
    /\ stopped' = TRUE
    /\ Goto(p, "killAll")
    /\ UNCHANGED <<objVars, conn, name, obj, cl, restoring>>

KillAllClose(p, o) ==
    /\ pc[p] = "killAll" /\ o \in todo[p]
    /\ todo' = [todo EXCEPT ![p] = @ \ {o}]
    /\ Detach(p, o)
    /\ Goto(p, IF client[o] = None THEN "killAll" ELSE "killAllCl")
    /\ UNCHANGED <<regVars, conn, name, obj, srvVars>>

KillAllCloseClient(p) == CloseHeld(p, "killAllCl", "killAll")

KillAllDone(p) ==
    /\ pc[p] = "killAll" /\ todo[p] = {}
    /\ Goto(p, "retOk")
    /\ UNCHANGED <<regVars, objVars, conn, name, obj, cl, todo, srvVars>>

-------------------------------------------------------------------------------
(* RegisterOfflineSession: restoreState registers the persisted sessions,   *)
(* whose names are distinct, before the daemon accepts connections.         *)

RegisterOfflineSession(n, h, o) ==
    /\ restoring /\ sessions[n] = None
    /\ Register(n, o, h, "offline")
    /\ UNCHANGED <<defaultName, conn, procVars, srvVars>>

RestoreDone ==
    /\ restoring /\ restoring' = FALSE
    /\ UNCHANGED <<regVars, objVars, conn, procVars, stopped>>

(* The caller takes the result. *)
Return(p) ==
    /\ pc[p] \in {"retOk", "retErr"}
    /\ Goto(p, "idle") /\ SetName(p, None) /\ SetObj(p, None)
    /\ UNCHANGED <<regVars, objVars, conn, cl, todo, srvVars>>

-------------------------------------------------------------------------------
(* The network. *)

(* An SSH connection dies. *)
Break(c) ==
    /\ conn[c] = "open"
    /\ conn' = [conn EXCEPT ![c] = "broken"]
    /\ UNCHANGED <<regVars, objVars, procVars, srvVars>>

(* The keepalive probe of Client.IsAlive times out and closes the client,   *)
(* under the session that still refers to it or under the call that has     *)
(* taken it from there and is about to close it too.                        *)
ProbeTimeout(c) ==
    /\ conn[c] = "broken"
    /\ \/ \E o \in Objs : client[o] = c
       \/ \E p \in Procs : cl[p] = c /\ pc[p] \in TakenPcs
    /\ conn' = [conn EXCEPT ![c] = "closed"]
    /\ UNCHANGED <<regVars, objVars, procVars, srvVars>>

-------------------------------------------------------------------------------

(* The entry of a call. *)
Call(p) ==
    \/ \E n \in Names \cup {None}, h \in Hosts :
          \/ ConnectConnected(p, n, h) \/ ConnectInFlight(p, n, h)
          \/ ConnectOffline(p, n, h) \/ ConnectCollision(p, n, h)
          \/ \E o \in Objs : ConnectNew(p, n, h, o)
    \/ \E n \in Names :
          \/ ConnectLocalExisting(p, n) \/ ConnectLocalCollision(p, n)
          \/ \E o \in Objs : ConnectLocalNew(p, n, o)
          \/ Reconnect(p, n)
    \/ \E n \in Names \cup {None} : KillBegin(p, n) \/ UseBegin(p, n)
    \/ KillAllBegin(p)

(* The dials, which end by themselves: they have a deadline. *)
DialStep(p) ==
    \/ \E c \in Clients : ConnectDialOk(p, c) \/ ReconnDialOk(p, c)
    \/ ConnectDialFail(p) \/ ReconnDialFail(p)

(* Every other step inside a call. *)
Step(p) ==
    \/ ConnectUnregister(p) \/ ConnectAdopt(p) \/ ConnectReject(p)
    \/ ConnectCloseRejected(p)
    \/ AwaitConnected(p) \/ AwaitTerminal(p) \/ AwaitGet(p) \/ AwaitTimeout(p)
    \/ KillNotFound(p) \/ KillRemove(p) \/ KillClose(p) \/ KillCloseClient(p)
    \/ UseLookup(p) \/ UseSetDefault(p) \/ UseStatus(p)
    \/ ReconnLock(p) \/ ReconnTakeOld(p) \/ ReconnCloseOld(p)
    \/ ReconnRecheck(p) \/ ReconnAdopt(p) \/ ReconnStateChanged(p) \/ ReconnReject(p)
    \/ \E o \in Objs : KillAllClose(p, o)
    \/ KillAllCloseClient(p) \/ KillAllDone(p)

Inside(p) == DialStep(p) \/ Step(p)

Network == \E c \in Clients : Break(c) \/ ProbeTimeout(c)

Restore ==
    \/ \E n \in Names, h \in Hosts, o \in Objs : RegisterOfflineSession(n, h, o)
    \/ RestoreDone

Next ==
    \/ \E p \in Procs : Call(p) \/ Inside(p) \/ Return(p)
    \/ Network
    \/ Restore

Spec == Init /\ [][Next]_vars

-------------------------------------------------------------------------------
(* Properties. *)

(* Every variable keeps its type; a process that works on a session object  *)
(* knows it, and one that must adopt or close a client has one.             *)
TypeOK ==
    /\ sessions \in [Names -> Objs \cup {None}]
    /\ defaultName \in Names \cup {None}
    /\ host \in [Objs -> Hosts \cup {LocalHost, None}]
    /\ sname \in [Objs -> Names \cup {None}]
    /\ status \in [Objs -> Statuses]
    /\ client \in [Objs -> Clients \cup {None}]
    /\ reconnMu \in [Objs -> Procs \cup {None}]
    /\ closed \in [Objs -> BOOLEAN]
    /\ conn \in [Clients -> ConnState]
    /\ pc \in [Procs -> Pcs]
    /\ name \in [Procs -> Names \cup {None}]
    /\ obj \in [Procs -> Objs \cup {None}]
    /\ cl \in [Procs -> Clients \cup {None}]
    /\ todo \in [Procs -> SUBSET Objs]
    /\ restoring \in BOOLEAN /\ stopped \in BOOLEAN

(* No client leaks and none is shared: a client nobody has closed is        *)
(* attached to exactly one session object or is in the hands of exactly one *)
(* call that will adopt or close it (reconnMu, the re-validation after the  *)
(* dial and the Status check before adopting are there for this).           *)
Owners(c) == {o \in Objs : client[o] = c} \cup {p \in Procs : cl[p] = c}
OneOwner ==
    \A c \in Clients :
        /\ conn[c] \in Live => \E x \in Owners(c) : Owners(c) = {x}
        /\ conn[c] = "unused" => Owners(c) = {}

(* A session that Kill or KillAll has closed never holds a client or shows  *)
(* as connected again, whatever reconnect, use or connect was in flight.    *)
KilledStaysDead ==
    \A o \in Objs : closed[o] =>
        client[o] = None /\ status[o] # "connected" /\ ~Registered(o)

(* Connected means usable: an SSH session whose status is connected has a   *)
(* client, whichever of the paths that set Status and Client ran last.      *)
ConnectedHasClient ==
    \A o \in Objs : status[o] = "connected" /\ ~IsLocal(o) => client[o] # None

(* AwaitClient waits on the connecting and reconnecting states because a    *)
(* dial is in flight: for a registered session there always is one.         *)
InFlightHasDialer ==
    \A o \in Objs : Registered(o) /\ status[o] \in InFlight =>
        \E p \in Procs : obj[p] = o /\ pc[p] \in {"dial", "adopt"} \cup LockedPcs

(* A session that holds a client can be reached by its name, unless a Kill  *)
(* or KillAll that has just removed it is about to close it.                *)
Closing(o) == \E p \in Procs : (pc[p] = "killClose" /\ obj[p] = o) \/ o \in todo[p]
LiveIsRegistered ==
    \A o \in Objs : client[o] # None => Registered(o) \/ Closing(o)

(* The default name, when there is one, is the name of a session.           *)
DefaultIsRegistered == defaultName # None => Lookup(defaultName) # None

(* A default that names no session comes from nowhere but a use that has    *)
(* lost its session between its look at the registry and its write of the   *)
(* default: no kill, failed connect or KillAll leaves one behind.           *)
DefaultGoesStaleByUse ==
    [][DefaultIsRegistered /\ ~DefaultIsRegistered' =>
          \E p \in Procs : pc[p] = "useDefault" /\ pc'[p] # "useDefault"]_vars

(* A client is adopted only by a session that has none, so that "the        *)
(* loser's client" is never overwritten.                                    *)
NoOverwrite ==
    \A o \in Objs : client'[o] # client[o] => None \in {client[o], client'[o]}
AdoptOverNothing == [][NoOverwrite]_vars

(* The manager implements ClientOwnership: seen from the clients, every     *)
(* step of every call is one of dial, attach, detach, close a session or    *)
(* close a client, or changes nothing.  A client whose close is the probe's *)
(* stays attached until the session or a reconnect lets go of it.           *)
InTransit == {c \in Clients : \E p \in Procs : cl[p] = c}
GoneForGood ==
    {c \in Clients : conn[c] = "closed" /\ c \notin InTransit /\ \A o \in Objs : client[o] # c}
Own == INSTANCE ClientOwnership
         WITH Sessions <- Objs, attached <- client, transit <- InTransit,
              fresh <- {c \in Clients : conn[c] = "unused"},
              gone <- GoneForGood, dead <- {o \in Objs : closed[o]}
OwnershipKept == Own!Spec

(* A session's healthy connection is taken away only by closing the         *)
(* session: nothing dials again for a session that is already connected.    *)
HealthyKept ==
    [][\A o \in Objs :
          client[o] # None /\ client'[o] # client[o] =>
              conn[client[o]] # "open" \/ closed'[o]]_vars

(* Every call of a manager method returns. *)
CallsReturn == \A p \in Procs : pc[p] # "idle" ~> pc[p] = "idle"

-------------------------------------------------------------------------------
(* The inductive invariant behind the safety properties, by parts. *)

(* Labels at which a call works on an SSH session, and at which it holds a  *)
(* client it must adopt or close.                                           *)
SSHPcs  == LockedPcs \cup {"dial", "unregister", "adopt", "connectReject", "await",
                           "awaitGet", "useStatus", "reconnLock"}
HoldPcs == {"adopt", "connectReject", "closeOld", "recheck", "readopt", "rejectClose",
            "killCl", "killAllCl"}

(* What a process knows at each label. *)
ProcInv ==
    \A p \in Procs :
        /\ pc[p] \in SSHPcs =>
              obj[p] \in Objs /\ host[obj[p]] \notin {None, LocalHost}
        /\ pc[p] \in {"killClose", "useDefault"} => obj[p] \in Objs /\ ~Unborn(obj[p])
        /\ pc[p] \in {"dial", "unregister"} => name[p] \in Names
        /\ cl[p] # None <=> pc[p] \in HoldPcs
        /\ todo[p] # {} => pc[p] \in {"killAll", "killAllCl"}

(* The registry maps a name to an object created under that name. *)
RegistryInv ==
    /\ \A n \in Names : sessions[n] # None =>
          ~Unborn(sessions[n]) /\ sname[sessions[n]] = n
    /\ \A p \in Procs :
          /\ pc[p] = "killClose" => ~Registered(obj[p])
          /\ \A o \in todo[p] : ~Unborn(o) /\ ~Registered(o)

(* reconnMu is held exactly by the process inside reconnectSSH. *)
LockInv ==
    \A p \in Procs, o \in Objs :
        reconnMu[o] = p <=> pc[p] \in LockedPcs /\ obj[p] = o

(* Attached and held clients are distinct, and no live client is neither. *)
OwnerInv ==
    /\ \A o1, o2 \in Objs : client[o1] = client[o2] /\ client[o1] # None => o1 = o2
    /\ \A p1, p2 \in Procs : cl[p1] = cl[p2] /\ cl[p1] # None => p1 = p2
    /\ \A o \in Objs, p \in Procs : client[o] = cl[p] => client[o] = None
    /\ \A o \in Objs : client[o] # None => conn[client[o]] # "unused"
    /\ \A p \in Procs : cl[p] # None => conn[cl[p]] # "unused"
    /\ \A c \in Clients : conn[c] \in Live =>
          (\E o \in Objs : client[o] = c) \/ (\E p \in Procs : cl[p] = c)

(* How Status and Client go together, also inside reconnectSSH. *)
StatusInv ==
    /\ \A o \in Objs :
          /\ host[o] \in {None, LocalHost} => client[o] = None
          /\ Unborn(o) => status[o] = "offline" /\ ~closed[o]
          /\ status[o] = "connecting" => client[o] = None
          /\ status[o] = "connected" /\ ~IsLocal(o) => client[o] # None
    /\ \A p \in Procs :
          /\ pc[p] \in LockedPcs => status[obj[p]] # "connecting"
          /\ pc[p] \in LockedPcs \ {"takeOld"} => client[obj[p]] = None
          /\ pc[p] = "takeOld" => status[obj[p]] # "connected"

(* What Close leaves behind, also for a reconnect that passed its check. *)
ClosedInv ==
    /\ \A o \in Objs : closed[o] =>
          /\ client[o] = None /\ ~Registered(o)
          /\ status[o] \notin {"connected", "connecting"}
    /\ \A p \in Procs : pc[p] = "readopt" /\ closed[obj[p]] =>
          status[obj[p]] # "reconnecting"

(* Who resolves the in-flight states of a registered session. *)
ConnectingInv ==
    \A o \in Objs : Registered(o) /\ status[o] = "connecting" =>
        \E p \in Procs : obj[p] = o /\ pc[p] \in {"dial", "adopt"}
ReconnectingInv ==
    /\ \A o \in Objs : Registered(o) /\ status[o] = "reconnecting" => reconnMu[o] # None
    /\ \A p \in Procs : pc[p] = "rejectClose" =>
          status[obj[p]] # "reconnecting" \/ ~Registered(obj[p])

(* Every part of the invariant that the proofs carry from step to step: how *)
(* the labels of reconnectSSH and ConnectSSH, reconnMu, the registry, the   *)
(* statuses and the clients hang together.                                  *)
IInv ==
    /\ TypeOK /\ ProcInv /\ RegistryInv /\ LockInv
    /\ OwnerInv /\ StatusInv /\ ClosedInv
    /\ ConnectingInv /\ ReconnectingInv
===============================================================================
