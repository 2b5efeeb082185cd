------------------------ MODULE ReconnectMonitorProofs ------------------------
(* The manager together with the monitor and the handlers: the composition   *)
(* implements SessionManager, so that all that is proved of the manager      *)
(* holds of it, and the watched map describes the loops that run.            *)
EXTENDS ReconnectMonitor, SessionManagerProofs

(* Every reference to a session object is to one that ConnectSSH,            *)
(* ConnectLocal or RegisterOfflineSession has named and registered.          *)
BornInv ==
    /\ \A o \in Objs : ~Unborn(o) => sname[o] \in Names
    /\ \A p \in Procs : obj[p] # None => ~Unborn(obj[p])
    /\ \A h \in Handlers : found[h] # None => ~Unborn(found[h])
    /\ \A l \in Loops : lsess[l] # None => ~Unborn(lsess[l])

(* A call that succeeded has a session: KillAll, which has none, is not      *)
(* called here.                                                              *)
ResultInv ==
    \A p \in Procs :
        /\ pc[p] \notin {"killAll", "killAllCl"}
        /\ pc[p] \in {"retOk", "killCl"} => obj[p] # None

(* A loop that runs has a session, and only such a loop is cancelled.        *)
LoopInv ==
    \A l \in Loops :
        /\ Running(l) <=> lsess[l] # None
        /\ cancelled[l] => Running(l)

(* A client under probe has been dialled, and a call that holds it has taken *)
(* it from its session.                                                      *)
ProbeInv ==
    \A l \in Loops :
        /\ lpc[l] \in {"probe", "probing"} => probed[l] # None
        /\ probed[l] # None => conn[probed[l]] # "unused"
        /\ probed[l] # None => \A p \in Procs : cl[p] = probed[l] => pc[p] \in TakenPcs

MInv == IInv /\ MTypeOK /\ BornInv /\ ResultInv /\ LoopInv /\ ProbeInv /\ WatchInv

-------------------------------------------------------------------------------
(* The manager's part of a step.                                             *)

(* The entries of the manager that the handlers and the loops use.           *)
Entry(p) ==
    \/ \E n \in Names \cup {None}, h \in Hosts :
          \/ ConnectConnected(p, n, h) \/ ConnectInFlight(p, n, h)
          \/ ConnectOffline(p, n, h) \/ ConnectCollision(p, n, h)
          \/ \E o \in Objs : ConnectNew(p, n, h, o)
    \/ \E n \in Names : Reconnect(p, n)
    \/ \E n \in Names \cup {None} : KillBegin(p, n) \/ UseBegin(p, n)

Part == (\E p \in Procs : Entry(p) \/ Inside(p) \/ Return(p)) \/ Network \/ Restore

(* They are some of its steps.                                               *)
LEMMA PartIsNext == Part => Next
  BY DEF Part, Next, Entry, Call

(* Every step of a handler or a loop is one step of the manager, or none.    *)
LEMMA StepIsPart == ASSUME MInv, [MNext]_mvars  PROVE  [Part]_vars
<1>1. Handlers \subseteq Procs /\ Loops \subseteq Procs
  BY ProcAssumption
<1>2. ASSUME NEW h \in Handlers, HandlerStart(h) \/ HandlerStep(h)  PROVE  [Part]_vars
  <2>1. h \in Procs /\ param[h] \in Names \cup {None}
    BY <1>1, <1>2 DEF MInv, MTypeOK
  <2>2. ASSUME ConnectRequest(h) \/ KillCall(h) \/ UseCall(h)
               \/ \E n \in Names : RestoreReconnect(h, n)
        PROVE  Entry(h)
    BY <2>1, <2>2 DEF ConnectRequest, KillCall, UseCall, RestoreReconnect, Entry
  <2>3. ASSUME ConnectOk(h) \/ RestoreOk(h) \/ UseWatch(h) \/ PlainResponse(h)
        PROVE  Return(h)
    BY <2>3 DEF ConnectOk, RestoreOk, UseWatch, PlainResponse, Respond
  <2>4. ASSUME \/ \E n \in Names \cup {None} : KillRequest(h, n) \/ UseRequest(h, n)
               \/ UseWasOffline(h) \/ UseAgain(h)
        PROVE  UNCHANGED vars
    BY <2>4 DEF KillRequest, UseRequest, UseWasOffline, UseAgain
  <2>. QED
    BY <1>2, <2>1, <2>2, <2>3, <2>4 DEF HandlerStart, HandlerStep, Part
<1>3. ASSUME NEW l \in Loops, LoopStep(l)  PROVE  [Part]_vars
  <2>1. CASE LoopReconnect(l)
    <3>1. lsess[l] \in Objs /\ sname[lsess[l]] \in Names
      BY <2>1 DEF LoopReconnect, MInv, MTypeOK, LoopInv, BornInv, Running
    <3>. QED
      BY <1>1, <2>1, <3>1 DEF LoopReconnect, Entry, Part
  <2>2. CASE LoopFailed(l) \/ LoopSucceeded(l)
    BY <1>1, <2>2 DEF LoopFailed, LoopSucceeded, Part
  <2>3. CASE LoopDead(l)
    <3>. DEFINE c == probed[l]
    <3>1. c \in Clients /\ conn[c] \in {"broken", "closed"}
      BY <2>3 DEF LoopDead, MInv, MTypeOK, TypeOK, ConnState, ProbeInv
    <3>2. CASE conn' = conn \/ conn[c] = "closed"
      <4>1. conn' = conn
        BY <2>3, <3>1, <3>2 DEF LoopDead, MInv, MTypeOK, TypeOK
      <4>. QED
        BY <2>3, <4>1 DEF LoopDead, vars
    <3>3. CASE conn' = [conn EXCEPT ![c] = "closed"] /\ conn[c] = "broken"
      <4>1. (\E o \in Objs : client[o] = c) \/ (\E p \in Procs : cl[p] = c)
        BY <3>1, <3>3 DEF MInv, IInv, OwnerInv, Live
      <4>2. \A p \in Procs : cl[p] = c => pc[p] \in TakenPcs
        BY <3>1, NoneAssumption DEF MInv, ProbeInv
      <4>3. ProbeTimeout(c)
        BY <2>3, <3>3, <4>1, <4>2 DEF LoopDead, ProbeTimeout
      <4>. QED
        BY <3>1, <4>3 DEF Part, Network
    <3>. QED
      BY <2>3, <3>1, <3>2, <3>3 DEF LoopDead
  <2>4. ASSUME \/ LoopExit(l) \/ LoopCheck(l) \/ LoopStopWatch(l) \/ LoopGetClient(l)
               \/ LoopProbe(l) \/ LoopAlive(l) \/ LoopRestarted(l)
        PROVE  UNCHANGED vars
    BY <2>4 DEF LoopExit, LoopCheck, LoopStopWatch, LoopGetClient, LoopProbe, LoopAlive,
       LoopRestarted
  <2>. QED
    BY <1>3, <2>1, <2>2, <2>3, <2>4 DEF LoopStep
<1>4. ASSUME NEW p \in Procs, Manager(p)  PROVE  [Part]_vars
  BY <1>4 DEF Manager, Part
<1>5. ASSUME NEW c \in Clients, Break(c)  PROVE  [Part]_vars
  BY <1>5 DEF Part, Network
<1>6. ASSUME \/ \E n \in Names, h \in Hosts, o \in Objs : RestoreSession(n, h, o)
             \/ RestoreFinish
      PROVE  [Part]_vars
  BY <1>6 DEF RestoreSession, RestoreFinish, Part, Restore
<1>7. CASE UNCHANGED mvars
  BY <1>7 DEF mvars
<1>. QED
  BY <1>2, <1>3, <1>4, <1>5, <1>6, <1>7 DEF MNext

(* An object keeps its name, and a call only gets hold of objects that have  *)
(* one.                                                                      *)
NamesStay ==
    /\ \A o \in Objs : ~Unborn(o) => host'[o] = host[o] /\ sname'[o] = sname[o]
    /\ \A o \in Objs : host'[o] # None => sname'[o] \in Names
    /\ \A p \in Procs : obj'[p] # None => host'[obj'[p]] # None

(* A client that was dialled stays dialled, and comes into the hands of a    *)
(* call only from its session.                                               *)
ClientsStay ==
    /\ \A c \in Clients : conn[c] # "unused" => conn'[c] # "unused"
    /\ \A p \in Procs : cl'[p] # None /\ pc'[p] \notin TakenPcs =>
          conn[cl'[p]] = "unused" \/ (cl[p] = cl'[p] /\ pc[p] \notin TakenPcs)

(* What a step of the manager leaves to the monitor.                         *)
LEMMA PartEffects ==
    ASSUME MInv, [Part]_vars  PROVE  NamesStay /\ ClientsStay /\ ResultInv'
<1>. DEFINE Good == NamesStay /\ ClientsStay /\ ResultInv'
<1>. USE NoneAssumption, HostAssumption, AutoNameAssumption
     DEF MInv, IInv, TypeOK, ProcInv, RegistryInv, OwnerInv, BornInv, ResultInv, NamesStay,
         ClientsStay, regVars, objVars, procVars, srvVars, Goto, SetStatus, SetName, SetObj,
         Hold, Unborn, IsLocal, Lookup, Begins, Request, Unregister, Register, Detach, Adopt,
         CloseHeld, ConnectName, HasGoClient, SSHPcs, LockedPcs, HoldPcs, TakenPcs,
         InFlight, LocalHost
<1>1. ASSUME NEW p \in Procs, Entry(p)  PROVE  Good
  <2>1. ASSUME NEW n \in Names \cup {None}, NEW h \in Hosts,
               \/ ConnectConnected(p, n, h) \/ ConnectInFlight(p, n, h)
               \/ ConnectOffline(p, n, h) \/ ConnectCollision(p, n, h)
        PROVE  Good
    <3>1. CASE ConnectConnected(p, n, h)
      BY <3>1 DEF ConnectConnected
    <3>2. CASE ConnectInFlight(p, n, h)
      BY <3>2 DEF ConnectInFlight
    <3>3. CASE ConnectOffline(p, n, h)
      BY <3>3 DEF ConnectOffline
    <3>4. CASE ConnectCollision(p, n, h)
      BY <3>4 DEF ConnectCollision
    <3>. QED
      BY <2>1, <3>1, <3>2, <3>3, <3>4
  <2>2. ASSUME NEW n \in Names \cup {None}, NEW h \in Hosts, NEW o \in Objs,
               ConnectNew(p, n, h, o)
        PROVE  Good
    BY <2>2 DEF ConnectNew
  <2>3. ASSUME NEW n \in Names, Reconnect(p, n)  PROVE  Good
    BY <2>3 DEF Reconnect
  <2>4. ASSUME NEW n \in Names \cup {None}, KillBegin(p, n) \/ UseBegin(p, n)  PROVE  Good
    BY <2>4 DEF KillBegin, UseBegin
  <2>. QED
    BY <1>1, <2>1, <2>2, <2>3, <2>4 DEF Entry
<1>2. ASSUME NEW p \in Procs, DialStep(p)  PROVE  Good
  <2>1. ASSUME NEW c \in Clients, ConnectDialOk(p, c) \/ ReconnDialOk(p, c)  PROVE  Good
    BY <2>1 DEF ConnectDialOk, ReconnDialOk
  <2>2. CASE ConnectDialFail(p) \/ ReconnDialFail(p)
    BY <2>2 DEF ConnectDialFail, ReconnDialFail
  <2>. QED
    BY <1>2, <2>1, <2>2 DEF DialStep
<1>3. ASSUME NEW p \in Procs, Step(p) \/ Return(p)  PROVE  Good
  <2>1. CASE \/ ConnectUnregister(p) \/ ConnectAdopt(p) \/ ConnectReject(p)
             \/ ConnectCloseRejected(p)
    BY <2>1 DEF ConnectUnregister, ConnectAdopt, ConnectReject, ConnectCloseRejected
  <2>2. CASE AwaitConnected(p) \/ AwaitTerminal(p) \/ AwaitGet(p) \/ AwaitTimeout(p)
    BY <2>2 DEF AwaitConnected, AwaitTerminal, AwaitGet, AwaitTimeout
  <2>3. CASE KillNotFound(p) \/ KillRemove(p)
    BY <2>3 DEF KillNotFound, KillRemove
  <2>4. CASE KillClose(p)
    BY <2>4 DEF KillClose
  <2>5. CASE KillCloseClient(p)
    BY <2>5 DEF KillCloseClient
  <2>6. CASE UseLookup(p) \/ UseSetDefault(p) \/ UseStatus(p)
    BY <2>6 DEF UseLookup, UseSetDefault, UseStatus
  <2>7. CASE ReconnLock(p) \/ ReconnTakeOld(p) \/ ReconnCloseOld(p) \/ ReconnRecheck(p)
    BY <2>7 DEF ReconnLock, ReconnTakeOld, ReconnCloseOld, ReconnRecheck
  <2>8. CASE ReconnAdopt(p) \/ ReconnStateChanged(p) \/ ReconnReject(p)
    BY <2>8 DEF ReconnAdopt, ReconnStateChanged, ReconnReject
  <2>9. CASE (\E o \in Objs : KillAllClose(p, o)) \/ KillAllCloseClient(p) \/ KillAllDone(p)
    BY <2>9 DEF KillAllClose, KillAllCloseClient, KillAllDone
  <2>10. CASE Return(p)
    BY <2>10 DEF Return
  <2>. QED
    BY <1>3, <2>1, <2>2, <2>3, <2>4, <2>5, <2>6, <2>7, <2>8, <2>9, <2>10 DEF Step
<1>4. CASE Network
  BY <1>4 DEF Network, Break, ProbeTimeout
<1>5. CASE Restore
  <2>1. ASSUME NEW n \in Names, NEW h \in Hosts, NEW o \in Objs,
               RegisterOfflineSession(n, h, o)
        PROVE  Good
    BY <2>1 DEF RegisterOfflineSession
  <2>2. CASE RestoreDone
    BY <2>2 DEF RestoreDone
  <2>. QED
    BY <1>5, <2>1, <2>2 DEF Restore
<1>6. CASE UNCHANGED vars
  BY <1>6 DEF vars
<1>. QED
  BY <1>1, <1>2, <1>3, <1>4, <1>5, <1>6 DEF Part, Inside

-------------------------------------------------------------------------------
(* The watched map and the loops.                                            *)

(* The part of MTypeOK about the monitor.                                    *)
LoopTypes ==
    /\ watched \in [Names -> Loops \cup {None}] /\ cancelled \in [Loops -> BOOLEAN]
    /\ lsess \in [Loops -> Objs \cup {None}] /\ lpc \in [Loops -> LPcs]

WatchPart ==
    /\ LoopTypes /\ LoopInv /\ WatchInv
    /\ \A l \in Loops : lsess[l] # None => ~Unborn(lsess[l])

(* The watches as they were, after a step of the manager.                    *)
LEMMA WatchesStay ==
    ASSUME MInv, NamesStay, UNCHANGED <<watched, cancelled, lsess>>,
           lpc' \in [Loops -> LPcs], \A l \in Loops : Running(l)' <=> Running(l)
    PROVE  WatchPart'
<1>1. \A l \in Loops : lsess[l] # None =>
         host'[lsess[l]] # None /\ sname'[lsess[l]] = sname[lsess[l]]
  BY DEF MInv, MTypeOK, BornInv, NamesStay, Unborn
<1>2. LoopTypes' /\ LoopInv'
  BY DEF MInv, MTypeOK, LoopTypes, LoopInv
<1>3. WatchInv'
  BY <1>1, NoneAssumption DEF MInv, MTypeOK, LoopInv, WatchInv
<1>. QED
  BY <1>1, <1>2, <1>3 DEF WatchPart, Unborn

(* Monitor.Watch of a session that has a name.                               *)
LEMMA WatchKeeps ==
    ASSUME MInv, NamesStay, NEW o \in Objs, ~Unborn(o), Watch(o)  PROVE  WatchPart'
<1>1. CASE UNCHANGED loopVars
  BY <1>1, WatchesStay DEF loopVars, Running, MInv, MTypeOK
<1>2. ASSUME NEW l \in Loops, lpc[l] = "unused", watched[sname[o]] = None,
             watched' = [watched EXCEPT ![sname[o]] = l],
             lsess' = [lsess EXCEPT ![l] = o], lpc' = [lpc EXCEPT ![l] = "wait"],
             UNCHANGED cancelled
      PROVE  WatchPart'
  <2>1. sname[o] \in Names /\ ~cancelled[l]
    BY <1>2 DEF MInv, BornInv, LoopInv, Running
  <2>2. \A k \in Loops : lsess'[k] # None =>
           /\ host'[lsess'[k]] # None /\ sname'[lsess'[k]] = sname[lsess'[k]]
           /\ sname[lsess'[k]] \in Names
    BY <1>2 DEF MInv, MTypeOK, BornInv, NamesStay, Unborn
  <2>3. LoopTypes'
    BY <1>2, <2>1 DEF MInv, MTypeOK, LoopTypes, LPcs
  <2>4. LoopInv'
    BY <1>2, NoneAssumption DEF MInv, MTypeOK, LoopInv, Running
  <2>5. ASSUME NEW n \in Names, watched'[n] # None
        PROVE  /\ lpc'[watched'[n]] # "unused" /\ ~cancelled'[watched'[n]]
               /\ sname'[lsess'[watched'[n]]] = n
    <3>1. CASE n = sname[o]
      <4>1. watched'[n] = l /\ lsess'[l] = o /\ lpc'[l] = "wait"
        BY <1>2, <2>1, <3>1 DEF MInv, MTypeOK
      <4>2. sname'[o] = n
        BY <3>1 DEF NamesStay
      <4>. QED
        BY <1>2, <2>1, <4>1, <4>2 DEF Running
    <3>2. CASE n # sname[o]
      <4>. DEFINE k == watched[n]
      <4>1. /\ watched'[n] = k /\ k \in Loops /\ Running(k) /\ ~cancelled[k]
            /\ sname[lsess[k]] = n
        BY <1>2, <2>1, <2>5, <3>2 DEF MInv, MTypeOK, WatchInv
      <4>2. k # l /\ lsess'[k] = lsess[k] /\ lpc'[k] = lpc[k] /\ lsess[k] # None
        BY <1>2, <4>1 DEF Running, MInv, MTypeOK, LoopInv
      <4>. QED
        BY <1>2, <2>2, <4>1, <4>2 DEF Running
    <3>. QED
      BY <3>1, <3>2
  <2>6. ASSUME NEW k \in Loops, lpc'[k] # "unused", ~cancelled'[k]
        PROVE  watched'[sname'[lsess'[k]]] = k
    <3>1. CASE k = l
      BY <1>2, <2>1, <3>1 DEF MInv, MTypeOK, NamesStay
    <3>2. CASE k # l
      <4>1. /\ Running(k) /\ ~cancelled[k] /\ lsess'[k] = lsess[k] /\ lsess[k] # None
            /\ watched[sname[lsess[k]]] = k
        BY <1>2, <2>6, <3>2 DEF MInv, MTypeOK, LoopInv, WatchInv, Running
      <4>2. sname[lsess[k]] # sname[o] /\ sname[lsess[k]] \in Names
        BY <1>2, <2>2, <4>1, NoneAssumption, ProcAssumption
      <4>. QED
        BY <1>2, <2>1, <2>2, <4>1, <4>2 DEF MInv, MTypeOK
    <3>. QED
      BY <3>1, <3>2
  <2>7. WatchInv'
    BY <2>5, <2>6 DEF WatchInv, Running
  <2>8. \A k \in Loops : (lsess[k] # None => ~Unborn(lsess[k]))'
    BY <2>2 DEF Unborn
  <2>. QED
    BY <2>3, <2>4, <2>7, <2>8 DEF WatchPart
<1>. QED
  BY <1>1, <1>2 DEF Watch

(* Monitor.StopWatch of whatever name.                                       *)
LEMMA StopWatchKeeps ==
    ASSUME MInv, UNCHANGED <<vars, lsess>>, NEW n, StopWatch(n),
           lpc' \in [Loops -> LPcs], \A l \in Loops : Running(l)' <=> Running(l)
    PROVE  WatchPart'
<1>1. NamesStay
  BY DEF vars, objVars, procVars, MInv, BornInv, NamesStay, Unborn
<1>2. CASE UNCHANGED <<cancelled, watched>>
  BY <1>1, <1>2, WatchesStay
<1>3. CASE /\ n \in Names /\ watched[n] # None
           /\ cancelled' = [cancelled EXCEPT ![watched[n]] = TRUE]
           /\ watched' = [watched EXCEPT ![n] = None]
  <2>1. UNCHANGED <<sname, host>>
    BY DEF vars, objVars
  <2>2. LoopTypes' /\ LoopInv'
    BY <1>3 DEF MInv, MTypeOK, LoopTypes, LoopInv, WatchInv
  <2>3. WatchInv'
    BY <1>3, <2>1, NoneAssumption DEF MInv, MTypeOK, LoopInv, BornInv, WatchInv
  <2>. QED
    BY <2>1, <2>2, <2>3 DEF WatchPart, Unborn, MInv, BornInv
<1>. QED
  BY <1>2, <1>3 DEF StopWatch

(* The goroutine of a cancelled watch ends.                                  *)
LEMMA ExitKeeps ==
    ASSUME MInv, NEW l \in Loops, LoopExit(l)  PROVE  WatchPart'
<1>1. /\ cancelled[l] /\ UNCHANGED <<watched, sname, host>>
      /\ lpc' = [lpc EXCEPT ![l] = "unused"] /\ lsess' = [lsess EXCEPT ![l] = None]
      /\ cancelled' = [cancelled EXCEPT ![l] = FALSE]
  BY DEF LoopExit, LGoto, vars, objVars
<1>2. LoopTypes' /\ LoopInv'
  BY <1>1 DEF MInv, MTypeOK, LoopTypes, LoopInv, Running, LPcs
<1>3. WatchInv'
  BY <1>1, NoneAssumption DEF MInv, MTypeOK, LoopInv, WatchInv, Running
<1>. QED
  BY <1>1, <1>2, <1>3 DEF WatchPart, MInv, MTypeOK, BornInv, Unborn

(* Handlers and loops change the watches through Watch and StopWatch only.   *)
LEMMA WatchesStep ==
    ASSUME MInv, [MNext]_mvars, NamesStay  PROVE  WatchPart'
<1>. USE DEF LPcs
<1>1. ASSUME UNCHANGED loopVars  PROVE  WatchPart'
  BY <1>1, WatchesStay DEF loopVars, Running, MInv, MTypeOK
<1>2. ASSUME NEW h \in Handlers, HandlerStart(h) \/ HandlerStep(h)  PROVE  WatchPart'
  <2>1. CASE ConnectOk(h) \/ RestoreOk(h)
    <3>1. h \in Procs /\ pc[h] = "retOk"
      BY <2>1, ProcAssumption DEF ConnectOk, RestoreOk
    <3>2. obj[h] \in Objs /\ ~Unborn(obj[h])
      BY <3>1 DEF MInv, MTypeOK, TypeOK, ResultInv, BornInv
    <3>. QED
      BY <2>1, <3>2, WatchKeeps DEF ConnectOk, RestoreOk
  <2>2. CASE UseWatch(h)
    <3>1. CASE found[h] # None /\ Watch(found[h])
      BY <3>1, WatchKeeps DEF MInv, MTypeOK, BornInv
    <3>. QED
      BY <1>1, <2>2, <3>1 DEF UseWatch
  <2>3. ASSUME NEW n \in Names \cup {None}, KillRequest(h, n)  PROVE  WatchPart'
    BY <2>3, StopWatchKeeps DEF KillRequest, MInv, MTypeOK, Running
  <2>. QED
    BY <1>1, <1>2, <2>1, <2>2, <2>3 DEF HandlerStart, HandlerStep, ConnectRequest,
       UseRequest, RestoreReconnect, KillCall, UseWasOffline, UseCall, UseAgain,
       PlainResponse
<1>3. ASSUME NEW l \in Loops, LoopStep(l)  PROVE  WatchPart'
  <2>1. CASE LoopStopWatch(l)
    BY <2>1, StopWatchKeeps DEF LoopStopWatch, LGoto, MInv, MTypeOK, Running
  <2>2. ASSUME UNCHANGED <<watched, cancelled, lsess>>, lpc[l] # "unused",
               NEW label \in LPcs \ {"unused"}, LGoto(l, label)
        PROVE  WatchPart'
    BY <2>2, WatchesStay DEF LGoto, MInv, MTypeOK, Running
  <2>3. CASE \/ LoopCheck(l) \/ LoopGetClient(l) \/ LoopProbe(l) \/ LoopAlive(l)
             \/ LoopDead(l) \/ LoopReconnect(l) \/ LoopFailed(l) \/ LoopSucceeded(l)
             \/ LoopRestarted(l)
    <3>1. UNCHANGED <<watched, cancelled, lsess>> /\ lpc[l] # "unused"
      BY <2>3 DEF LoopCheck, LoopGetClient, LoopProbe, LoopAlive, LoopDead,
         LoopReconnect, LoopFailed, LoopSucceeded, LoopRestarted
    <3>2. \E label \in LPcs \ {"unused"} : LGoto(l, label)
      BY <2>3 DEF LoopCheck, LoopGetClient, LoopProbe, LoopAlive, LoopDead,
         LoopReconnect, LoopFailed, LoopSucceeded, LoopRestarted
    <3>. QED
      BY <2>2, <3>1, <3>2
  <2>. QED
    BY <1>3, <2>1, <2>3, ExitKeeps DEF LoopStep
<1>4. CASE UNCHANGED mvars
  BY <1>1, <1>4 DEF mvars
<1>. QED
  BY <1>1, <1>2, <1>3, <1>4 DEF MNext, Manager, RestoreSession, RestoreFinish

-------------------------------------------------------------------------------
(* The local variables of the handlers.                                      *)
HandlerPart ==
    /\ req \in [Handlers -> Reqs] /\ param \in [Handlers -> Names \cup {None}]
    /\ found \in [Handlers -> Objs \cup {None}] /\ wasOffline \in [Handlers -> BOOLEAN]
    /\ pending \subseteq Names
    /\ \A h \in Handlers : found[h] # None => ~Unborn(found[h])

(* Server.dispatch keeps a session only as long as the request it serves.    *)
LEMMA HandlersStep ==
    ASSUME MInv, [MNext]_mvars, NamesStay  PROVE  HandlerPart'
<1>. DEFINE Types == /\ req' \in [Handlers -> Reqs]
                     /\ param' \in [Handlers -> Names \cup {None}]
                     /\ wasOffline' \in [Handlers -> BOOLEAN]
                     /\ pending' \subseteq Names
            Found == /\ found' \in [Handlers -> Objs \cup {None}]
                     /\ \A h \in Handlers : found'[h] # None => ~Unborn(found'[h])
<1>. USE DEF MInv, MTypeOK, Reqs
<1>1. SUFFICES Types /\ Found
  <2>1. ASSUME Found, NEW h \in Handlers, found'[h] # None  PROVE  host'[found'[h]] # None
    BY <2>1 DEF NamesStay, Unborn
  <2>. QED
    BY <2>1 DEF HandlerPart, Unborn
<1>2. ASSUME UNCHANGED handlerVars  PROVE  Types /\ Found
  BY <1>2 DEF handlerVars, BornInv
<1>3. ASSUME UNCHANGED found  PROVE  Found
  BY <1>3 DEF BornInv
<1>4. ASSUME NEW h \in Handlers, NEW n \in Names \cup {None}, Get(h, n)  PROVE  Found
  <2>1. Lookup(IF n = None THEN defaultName ELSE n) \in Objs \cup {None}
    BY <1>4 DEF TypeOK, Lookup
  <2>2. LET o == Lookup(IF n = None THEN defaultName ELSE n) IN o # None => ~Unborn(o)
    BY <1>4 DEF IInv, TypeOK, RegistryInv, Lookup
  <2>. QED
    BY <1>4, <2>1, <2>2 DEF Get, BornInv
<1>5. ASSUME NEW h \in Handlers, Respond(h)  PROVE  Types /\ Found
  BY <1>5 DEF Respond, Become, BornInv
<1>6. ASSUME NEW h \in Handlers, HandlerStart(h)  PROVE  Types /\ Found
  <2>1. CASE ConnectRequest(h)
    BY <1>3, <2>1 DEF ConnectRequest, Become
  <2>2. ASSUME NEW n \in Names \cup {None}, KillRequest(h, n)  PROVE  Types /\ Found
    BY <1>3, <2>2 DEF KillRequest, Become
  <2>3. ASSUME NEW n \in Names \cup {None}, UseRequest(h, n)  PROVE  Types /\ Found
    BY <1>4, <2>3 DEF UseRequest, Become
  <2>4. ASSUME NEW n \in Names, RestoreReconnect(h, n)  PROVE  Types /\ Found
    BY <1>3, <2>4 DEF RestoreReconnect, Become
  <2>. QED
    BY <1>6, <2>1, <2>2, <2>3, <2>4 DEF HandlerStart
<1>7. ASSUME NEW h \in Handlers, HandlerStep(h)  PROVE  Types /\ Found
  <2>1. CASE ConnectOk(h) \/ UseWatch(h) \/ RestoreOk(h) \/ PlainResponse(h)
    BY <1>5, <2>1 DEF ConnectOk, UseWatch, RestoreOk, PlainResponse
  <2>2. CASE KillCall(h) \/ UseCall(h)
    BY <1>3, <2>2 DEF KillCall, UseCall, Become
  <2>3. CASE UseWasOffline(h)
    <3>1. wasOffline' \in [Handlers -> BOOLEAN]
      BY <2>3 DEF UseWasOffline
    <3>. QED
      BY <1>3, <2>3, <3>1 DEF UseWasOffline, Become
  <2>4. CASE UseAgain(h)
    BY <1>4, <2>4 DEF UseAgain, Become
  <2>. QED
    BY <1>7, <2>1, <2>2, <2>3, <2>4 DEF HandlerStep
<1>8. ASSUME NEW l \in Loops, LoopStep(l)  PROVE  UNCHANGED handlerVars
  BY <1>8 DEF LoopStep, LoopExit, LoopCheck, LoopStopWatch, LoopGetClient, LoopProbe,
     LoopAlive, LoopDead, LoopReconnect, LoopFailed, LoopSucceeded, LoopRestarted
<1>9. ASSUME NEW n \in Names, NEW h \in Hosts, NEW o \in Objs, RestoreSession(n, h, o)
      PROVE  Types /\ Found
  BY <1>3, <1>9 DEF RestoreSession
<1>. QED
  BY <1>2, <1>6, <1>7, <1>8, <1>9 DEF MNext, Manager, RestoreFinish, mvars

-------------------------------------------------------------------------------
(* Probes and delays.                                                        *)
ProbePart ==
    /\ probed \in [Loops -> Clients \cup {None}]
    /\ backoff \in [Loops -> InitialBackoff..MaxBackoff]
    /\ ProbeInv

(* checkAndReconnect probes the client that its session had.                 *)
LEMMA ProbesStep ==
    ASSUME MInv, [MNext]_mvars, ClientsStay  PROVE  ProbePart'
<1>. USE DEF MInv, MTypeOK
<1>1. ASSUME NEW c \in Clients, conn[c] # "unused",
             \A p \in Procs : cl[p] = c => pc[p] \in TakenPcs
      PROVE  conn'[c] # "unused" /\ \A p \in Procs : cl'[p] = c => pc'[p] \in TakenPcs
  BY <1>1, NoneAssumption DEF ClientsStay
<1>2. ASSUME NEW l \in Loops, NEW c \in Clients \cup {None}, c \in {probed[l], None}
      PROVE  c # None => /\ conn'[c] # "unused"
                         /\ \A p \in Procs : cl'[p] = c => pc'[p] \in TakenPcs
  BY <1>1, <1>2 DEF ProbeInv
<1>3. ASSUME probed' \in [Loops -> Clients \cup {None}],
             backoff' \in [Loops -> InitialBackoff..MaxBackoff],
             \A l \in Loops : probed'[l] \in {probed[l], None},
             \A l \in Loops : lpc'[l] \in {"probe", "probing"} => probed'[l] # None
      PROVE  ProbePart'
  BY <1>2, <1>3 DEF ProbePart, ProbeInv
<1>4. ASSUME NEW h \in Handlers, HandlerStart(h) \/ HandlerStep(h)  PROVE  ProbePart'
  <2>1. /\ UNCHANGED <<probed, backoff>>
        /\ \A l \in Loops : lpc'[l] \in {lpc[l], "wait"}
    <3>1. ASSUME NEW o, Watch(o)
          PROVE  /\ UNCHANGED <<probed, backoff>>
                 /\ \A l \in Loops : lpc'[l] \in {lpc[l], "wait"}
      BY <3>1 DEF Watch, loopVars
    <3>. QED
      BY <1>4, <3>1 DEF HandlerStart, HandlerStep, ConnectRequest, KillRequest, UseRequest,
         RestoreReconnect, ConnectOk, KillCall, UseWasOffline, UseCall, UseAgain, UseWatch,
         RestoreOk, PlainResponse, loopVars
  <2>. QED
    BY <1>3, <2>1 DEF ProbeInv
<1>5. ASSUME NEW l \in Loops, LoopStep(l)  PROVE  ProbePart'
  <2>. USE DEF LGoto, ResetBackoff
  <2>1. CASE LoopGetClient(l)
    <3>1. lsess[l] \in Objs
      BY <2>1 DEF LoopGetClient, LoopInv, Running
    <3>. DEFINE c == client[lsess[l]]
    <3>2. c \in Clients \cup {None}
      BY <3>1 DEF TypeOK
    <3>3. c # None => conn[c] # "unused" /\ \A p \in Procs : cl[p] # c
      BY <3>1, NoneAssumption DEF IInv, OwnerInv
    <3>4. UNCHANGED <<conn, cl, pc, backoff>> /\ probed' = [probed EXCEPT ![l] = c]
      BY <2>1 DEF LoopGetClient, vars, procVars
    <3>5. \A k \in Loops : lpc'[k] \in {"probe", "probing"} => probed'[k] # None
      BY <2>1, <3>2, <3>4 DEF LoopGetClient, ProbeInv
    <3>. QED
      BY <3>2, <3>3, <3>4, <3>5, NoneAssumption DEF ProbePart, ProbeInv
  <2>2. CASE LoopFailed(l)
    <3>1. backoff' \in [Loops -> InitialBackoff..MaxBackoff]
      BY <2>2, BackoffAssumption DEF LoopFailed, NextBackoff
    <3>. QED
      BY <1>3, <2>2, <3>1 DEF LoopFailed, ProbeInv
  <2>3. CASE LoopExit(l) \/ LoopAlive(l) \/ LoopSucceeded(l)
    <3>1. backoff' \in [Loops -> InitialBackoff..MaxBackoff]
      BY <2>3, BackoffAssumption DEF LoopExit, LoopAlive, LoopSucceeded
    <3>. QED
      BY <1>3, <2>3, <3>1 DEF LoopExit, LoopAlive, LoopSucceeded, ProbeInv
  <2>4. CASE LoopCheck(l) \/ LoopStopWatch(l) \/ LoopRestarted(l)
    BY <1>3, <2>4 DEF LoopCheck, LoopStopWatch, LoopRestarted, ProbeInv
  <2>5. CASE LoopProbe(l) \/ LoopDead(l) \/ LoopReconnect(l)
    BY <1>3, <2>5 DEF LoopProbe, LoopDead, LoopReconnect, ProbeInv
  <2>. QED
    BY <1>5, <2>1, <2>2, <2>3, <2>4, <2>5 DEF LoopStep
<1>6. ASSUME UNCHANGED loopVars  PROVE  ProbePart'
  BY <1>3, <1>6 DEF loopVars, ProbeInv
<1>. QED
  BY <1>4, <1>5, <1>6 DEF MNext, Manager, RestoreSession, RestoreFinish, mvars

-------------------------------------------------------------------------------
(* The daemon starts without watches.                                        *)
LEMMA InitMInv == MInit => MInv
<1>. SUFFICES ASSUME MInit  PROVE  MInv
  OBVIOUS
<1>1. Init /\ IInv
  BY InitIInv DEF MInit
<1>2. MTypeOK
  BY <1>1, BackoffAssumption DEF IInv, MInit, MTypeOK, Reqs, LPcs
<1>3. BornInv /\ ResultInv /\ LoopInv /\ ProbeInv /\ WatchInv
  BY <1>1 DEF MInit, Init, BornInv, ResultInv, LoopInv, ProbeInv, WatchInv, Unborn, Running
<1>. QED
  BY <1>1, <1>2, <1>3 DEF MInv

(* Every step keeps MInv and is a step of the manager.                       *)
LEMMA MInvStep == MInv /\ [MNext]_mvars => MInv' /\ [Next]_vars
<1>. SUFFICES ASSUME MInv, [MNext]_mvars  PROVE  MInv' /\ [Next]_vars
  OBVIOUS
<1>1. [Part]_vars
  BY StepIsPart
<1>2. [Next]_vars
  BY <1>1, PartIsNext
<1>3. IInv'
  BY <1>2, NextIInv DEF MInv
<1>4. NamesStay /\ ClientsStay /\ ResultInv'
  BY <1>1, PartEffects
<1>5. WatchPart' /\ HandlerPart' /\ ProbePart'
  BY <1>4, WatchesStep, HandlersStep, ProbesStep
<1>6. MTypeOK'
  BY <1>3, <1>5 DEF IInv, WatchPart, LoopTypes, HandlerPart, ProbePart, MTypeOK
<1>7. BornInv'
  BY <1>4, <1>5 DEF NamesStay, WatchPart, HandlerPart, BornInv, Unborn
<1>. QED
  BY <1>2, <1>3, <1>4, <1>5, <1>6, <1>7 DEF MInv, WatchPart, ProbePart

-------------------------------------------------------------------------------
(* The daemon's handlers and the monitor loops keep MInv.                    *)
THEOREM MonitorInductive == MSpec => []MInv
<1>. QED
  BY InitMInv, MInvStep, PTL DEF MSpec

(* Handlers and monitor loops use the manager only through its methods: the  *)
(* composition of all of them implements SessionManager.                     *)
THEOREM MonitorImplementsManager == MSpec => Spec
<1>1. MInit => Init
  BY DEF MInit
<1>. QED
  BY <1>1, MonitorInductive, MInvStep, PTL DEF MSpec, Spec

(* What is proved of the manager holds under the monitor: no client is       *)
(* leaked, shared or overwritten, and no watch revives a killed session.     *)
THEOREM WatchedSessionsAreSafe ==
    MSpec => [](OneOwner /\ KilledStaysDead /\ ConnectedHasClient) /\ AdoptOverNothing
<1>. QED
  BY MonitorImplementsManager, EveryClientHasOneOwner, KilledSessionsStayDead,
     ConnectedSessionsHaveClients, NoClientIsOverwritten, PTL

(* The types of the handlers' and the loops' state, with the delay of        *)
(* monitorLoop between initialBackoff and maxBackoff.                        *)
THEOREM MonitorTypes == MSpec => []MTypeOK
<1>. QED
  BY MonitorInductive, PTL DEF MInv

(* Monitor.watched holds exactly the watches that run and have not been      *)
(* cancelled: close(ctx.cancel) is called once for each.                     *)
THEOREM WatchedMapIsExact == MSpec => []WatchInv
<1>. QED
  BY MonitorInductive, PTL DEF MInv
===============================================================================
