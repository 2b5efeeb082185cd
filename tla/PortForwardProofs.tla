--------------------------- MODULE PortForwardProofs ---------------------------
(* What PortForward promises, for any number of requests, forwards, accept   *)
(* loops, connections and reconnects.                                        *)
EXTENDS PortForward, TLAPS

AddPcs     == {"addNew", "addRegister", "addStart", "addListen", "addRemove"}
ClosePcs   == {"closeLock", "closeWait"}
RestartPcs == {"restartNext", "restartWait", "restartStart"}
LockPcs    == {"addListen", "closeWait", "restartWait", "restartStart"}

(* What a call knows at each label: requests add and close, the monitor      *)
(* restarts, and a forward that is not in the list yet has no other call.    *)
CallInv ==
    /\ \A p \in Procs : fwd[p] \in born \cup {None}
    /\ \A p \in Procs :
          fwd[p] = None <=> pc[p] \in {"idle", "addNew", "restartAll", "restartNext"}
    /\ \A p \in Handlers : pc[p] \in {"idle"} \cup AddPcs \cup ClosePcs
    /\ pc[Monitor] \in {"idle", "restartAll"} \cup RestartPcs
    /\ \A p, q \in Procs :
          pc[p] = "addRegister" /\ fwd[q] = fwd[p] => p = q

(* lifecycleMu is held by the call that is between Lock and Unlock on it.    *)
LockInv ==
    \A p \in Procs, f \in Fwds :
        lifecycleMu[f] = p <=> fwd[p] = f /\ pc[p] \in LockPcs

(* Service.mu is held for reading by RestartAll and nobody else, so that the *)
(* list does not change under it.                                            *)
ListInv ==
    /\ readers = IF pc[Monitor] \in RestartPcs THEN {Monitor} ELSE {}
    /\ \A p \in Procs : todo[p] # {} => p = Monitor /\ pc[p] \in RestartPcs
    /\ todo[Monitor] \subseteq forwards
    /\ fwd[Monitor] # None => fwd[Monitor] \in forwards
    /\ \A p \in Procs : pc[p] \in {"addRegister"} \cup ClosePcs => fwd[p] \notin forwards

(* How closed, the listener, the loops and the list go together.             *)
ClosedInv ==
    /\ \A f \in Fwds : closed[f] => f \in born /\ listener[f] # "open"
    /\ \A f \in Fwds : listener[f] = "open" => f \in born
    /\ \A f \in Fwds : closed[f] /\ f \in forwards =>
          fwd[Monitor] = f /\ pc[Monitor] = "restartWait"
    /\ \A p \in Procs :
          /\ pc[p] \in {"closeWait", "restartWait"} => closed[fwd[p]]
          /\ pc[p] \in {"addRegister", "addListen", "restartStart"} => ~closed[fwd[p]]
          /\ pc[p] = "addListen" => FType[fwd[p]] = "remote"
          /\ pc[p] = "addRemove" /\ FType[fwd[p]] = "local" =>
                closed[fwd[p]] /\ fwd[p] \notin forwards

(* An accept loop that runs belongs to a forward.                            *)
LoopInv == \A l \in Loops : lpc[l] = "off" <=> loopOf[l] = None

(* A local forward that exists is in the list or closed, except while the    *)
(* call that is to put it there or close it is about to.                     *)
BornInv ==
    \A f \in born : FType[f] = "local" =>
        \/ f \in forwards \/ closed[f]
        \/ \E p \in Procs : fwd[p] = f /\ pc[p] \in {"addRegister", "closeLock"}

(* What RestartAll has already done.                                         *)
RestartedInv ==
    pc[Monitor] \in RestartPcs => \A f \in forwards \ todo[Monitor] :
        client[f] = arg[Monitor] \/ (f = fwd[Monitor] /\ pc[Monitor] = "restartWait")

PInv == /\ TypeOK /\ CallInv /\ LockInv /\ ListInv /\ LoopInv /\ ClosedInv
        /\ BornInv /\ RestartedInv /\ ClosedIsQuiet /\ ListedIsServed

-------------------------------------------------------------------------------
USE NoneAssumption, MonitorAssumption
    DEF sessVars, fwdVars, procVars, loopVars, connVars, Procs, PGoto, LGoto, Locked, Unlocked,
        StartLoop, LoopsOf, InCall, Shut, Done, Dial, RestartNext, Exit, RemoteListenOk,
        CanAccept, Works, AddPcs, ClosePcs, RestartPcs, LockPcs

(* What `go func()' does to the loops of the forwards.                       *)
LEMMA NewLoop ==
    ASSUME PInv, NEW f \in Fwds, StartLoop(f)
    PROVE  LoopsOf(f)' # {} /\ \A g \in Fwds : LoopsOf(g) \subseteq LoopsOf(g)'
<1>1. PICK l \in Loops : lpc[l] = "off" /\ loopOf' = [loopOf EXCEPT ![l] = f]
  OBVIOUS
<1>. QED
  BY <1>1 DEF PInv, TypeOK, LoopInv

(* The labels and the forwards of the calls.                                 *)
LEMMA CallInvStep == ASSUME PInv, [Next]_pvars  PROVE  CallInv'
<1>. USE DEF PInv, TypeOK, CallInv, ListInv
<1>1. ASSUME UNCHANGED <<born, fwd, pc>>  PROVE  CallInv'
  BY <1>1
<1>2. ASSUME NEW p \in Procs,
             AddBegin(p) \/ (\E f \in Fwds : CloseDelete(p, f)) \/ MonitorReconnect(p)
      PROVE  CallInv'
  <2>1. CASE AddBegin(p)
    BY <2>1 DEF AddBegin
  <2>2. ASSUME NEW f \in Fwds, CloseDelete(p, f)  PROVE  CallInv'
    BY <2>2 DEF CloseDelete
  <2>3. CASE MonitorReconnect(p)
    BY <2>3 DEF MonitorReconnect
  <2>. QED
    BY <1>2, <2>1, <2>2, <2>3
<1>3. ASSUME NEW p \in Procs, AddStep(p)  PROVE  CallInv'
  <2>1. ASSUME NEW f \in Fwds, AddNew(p, f)  PROVE  CallInv'
    BY <2>1 DEF AddNew
  <2>2. CASE AddNewFails(p)
    BY <2>2 DEF AddNewFails
  <2>3. CASE AddRegister(p)
    BY <2>3 DEF AddRegister
  <2>4. CASE StartClosed(p)
    BY <2>4 DEF StartClosed
  <2>5. CASE StartLocal(p)
    BY <2>5 DEF StartLocal
  <2>6. CASE StartRemote(p)
    BY <2>6 DEF StartRemote
  <2>7. CASE AddListenOk(p)
    BY <2>7 DEF AddListenOk
  <2>8. CASE AddListenFails(p)
    BY <2>8 DEF AddListenFails
  <2>9. CASE AddRemove(p)
    BY <2>9 DEF AddRemove
  <2>. QED
    BY <1>3, <2>1, <2>2, <2>3, <2>4, <2>5, <2>6, <2>7, <2>8, <2>9 DEF AddStep
<1>4. ASSUME NEW p \in Procs, CloseStep(p)  PROVE  CallInv'
  <2>1. CASE CloseLock(p)
    BY <2>1 DEF CloseLock
  <2>2. CASE CloseWait(p)
    BY <2>2 DEF CloseWait
  <2>. QED
    BY <1>4, <2>1, <2>2 DEF CloseStep
<1>5. ASSUME NEW p \in Procs, RestartStep(p)  PROVE  CallInv'
  <2>1. CASE RestartAll(p)
    BY <2>1 DEF RestartAll
  <2>2. ASSUME NEW f \in Fwds, RestartShut(p, f)  PROVE  CallInv'
    BY <2>2 DEF RestartShut
  <2>3. CASE RestartReset(p)
    BY <2>3 DEF RestartReset
  <2>4. CASE RestartLocal(p)
    BY <2>4 DEF RestartLocal
  <2>5. CASE RestartRemoteOk(p)
    BY <2>5 DEF RestartRemoteOk
  <2>6. CASE RestartRemoteFails(p)
    BY <2>6 DEF RestartRemoteFails
  <2>7. CASE RestartAllDone(p)
    BY <2>7 DEF RestartAllDone
  <2>. QED
    BY <1>5, <2>1, <2>2, <2>3, <2>4, <2>5, <2>6, <2>7 DEF RestartStep
<1>. QED
  BY <1>1, <1>2, <1>3, <1>4, <1>5 DEF Next, CallStep, pvars, LoopStep, LoopSeesClosed,
     LoopListens, LoopAcceptRetry, LoopAcceptEnd, LoopDialOk, LoopDialFails,
     LoopTrack, LoopAccept, ConnDialOk, ConnEnd, SessionBreaks, Redialled,
     SessionKilled

(* Lock and Unlock of lifecycleMu come in pairs on every path.               *)
LEMMA LockInvStep == ASSUME PInv, [Next]_pvars  PROVE  LockInv'
<1>. USE DEF PInv, TypeOK, CallInv, LockInv
<1>1. ASSUME UNCHANGED <<lifecycleMu, fwd, pc>>  PROVE  LockInv'
  BY <1>1
<1>2. ASSUME NEW p \in Procs,
             AddBegin(p) \/ (\E f \in Fwds : CloseDelete(p, f)) \/ MonitorReconnect(p)
      PROVE  LockInv'
  <2>1. CASE AddBegin(p)
    BY <2>1 DEF AddBegin
  <2>2. ASSUME NEW f \in Fwds, CloseDelete(p, f)  PROVE  LockInv'
    BY <2>2 DEF CloseDelete
  <2>3. CASE MonitorReconnect(p)
    BY <2>3 DEF MonitorReconnect
  <2>. QED
    BY <1>2, <2>1, <2>2, <2>3
<1>3. ASSUME NEW p \in Procs, AddStep(p)  PROVE  LockInv'
  <2>1. ASSUME NEW f \in Fwds, AddNew(p, f)  PROVE  LockInv'
    BY <2>1 DEF AddNew
  <2>2. CASE AddNewFails(p)
    BY <2>2 DEF AddNewFails
  <2>3. CASE AddRegister(p)
    BY <2>3 DEF AddRegister
  <2>4. CASE StartClosed(p)
    BY <2>4 DEF StartClosed
  <2>5. CASE StartLocal(p)
    BY <2>5 DEF StartLocal
  <2>6. CASE StartRemote(p)
    BY <2>6 DEF StartRemote
  <2>7. CASE AddListenOk(p)
    BY <2>7 DEF AddListenOk
  <2>8. CASE AddListenFails(p)
    BY <2>8 DEF AddListenFails
  <2>9. CASE AddRemove(p)
    BY <2>9 DEF AddRemove
  <2>. QED
    BY <1>3, <2>1, <2>2, <2>3, <2>4, <2>5, <2>6, <2>7, <2>8, <2>9 DEF AddStep
<1>4. ASSUME NEW p \in Procs, CloseStep(p)  PROVE  LockInv'
  <2>1. CASE CloseLock(p)
    BY <2>1 DEF CloseLock
  <2>2. CASE CloseWait(p)
    BY <2>2 DEF CloseWait
  <2>. QED
    BY <1>4, <2>1, <2>2 DEF CloseStep
<1>5. ASSUME NEW p \in Procs, RestartStep(p)  PROVE  LockInv'
  <2>1. CASE RestartAll(p)
    BY <2>1 DEF RestartAll
  <2>2. ASSUME NEW f \in Fwds, RestartShut(p, f)  PROVE  LockInv'
    BY <2>2 DEF RestartShut
  <2>3. CASE RestartReset(p)
    BY <2>3 DEF RestartReset
  <2>4. CASE RestartLocal(p)
    BY <2>4 DEF RestartLocal
  <2>5. CASE RestartRemoteOk(p)
    BY <2>5 DEF RestartRemoteOk
  <2>6. CASE RestartRemoteFails(p)
    BY <2>6 DEF RestartRemoteFails
  <2>7. CASE RestartAllDone(p)
    BY <2>7 DEF RestartAllDone
  <2>. QED
    BY <1>5, <2>1, <2>2, <2>3, <2>4, <2>5, <2>6, <2>7 DEF RestartStep
<1>. QED
  BY <1>1, <1>2, <1>3, <1>4, <1>5 DEF Next, CallStep, pvars, LoopStep, LoopSeesClosed,
     LoopListens, LoopAcceptRetry, LoopAcceptEnd, LoopDialOk, LoopDialFails,
     LoopTrack, LoopAccept, ConnDialOk, ConnEnd, SessionBreaks, Redialled,
     SessionKilled

(* The list stays as it is while RestartAll walks through it.                *)
LEMMA ListInvStep == ASSUME PInv, [Next]_pvars  PROVE  ListInv'
<1>. USE DEF PInv, TypeOK, CallInv, ListInv
<1>1. ASSUME UNCHANGED <<readers, pc, todo, forwards, fwd>>  PROVE  ListInv'
  BY <1>1
<1>2. ASSUME NEW p \in Procs,
             AddBegin(p) \/ (\E f \in Fwds : CloseDelete(p, f)) \/ MonitorReconnect(p)
      PROVE  ListInv'
  <2>1. CASE AddBegin(p)
    BY <2>1 DEF AddBegin
  <2>2. ASSUME NEW f \in Fwds, CloseDelete(p, f)  PROVE  ListInv'
    <3>. readers = {}
      BY <2>2 DEF CloseDelete
    <3>1. pc[Monitor] \notin RestartPcs
      OBVIOUS
    <3>2. fwd[Monitor] = None /\ p # Monitor
      BY <2>2, <3>1 DEF CloseDelete
    <3>. QED
      BY <2>2, <3>1, <3>2 DEF CloseDelete
  <2>3. CASE MonitorReconnect(p)
    BY <2>3 DEF MonitorReconnect
  <2>. QED
    BY <1>2, <2>1, <2>2, <2>3
<1>3. ASSUME NEW p \in Procs, AddStep(p)  PROVE  ListInv'
  <2>1. ASSUME NEW f \in Fwds, AddNew(p, f)  PROVE  ListInv'
    BY <2>1 DEF AddNew
  <2>2. CASE AddNewFails(p)
    BY <2>2 DEF AddNewFails
  <2>3. CASE AddRegister(p)
    BY <2>3 DEF AddRegister
  <2>4. CASE StartClosed(p)
    BY <2>4 DEF StartClosed
  <2>5. CASE StartLocal(p)
    BY <2>5 DEF StartLocal
  <2>6. CASE StartRemote(p)
    BY <2>6 DEF StartRemote
  <2>7. CASE AddListenOk(p)
    BY <2>7 DEF AddListenOk
  <2>8. CASE AddListenFails(p)
    BY <2>8 DEF AddListenFails
  <2>9. CASE AddRemove(p)
    BY <2>9 DEF AddRemove
  <2>. QED
    BY <1>3, <2>1, <2>2, <2>3, <2>4, <2>5, <2>6, <2>7, <2>8, <2>9 DEF AddStep
<1>4. ASSUME NEW p \in Procs, CloseStep(p)  PROVE  ListInv'
  <2>1. CASE CloseLock(p)
    BY <2>1 DEF CloseLock
  <2>2. CASE CloseWait(p)
    BY <2>2 DEF CloseWait
  <2>. QED
    BY <1>4, <2>1, <2>2 DEF CloseStep
<1>5. ASSUME NEW p \in Procs, RestartStep(p)  PROVE  ListInv'
  <2>1. CASE RestartAll(p)
    BY <2>1 DEF RestartAll
  <2>2. ASSUME NEW f \in Fwds, RestartShut(p, f)  PROVE  ListInv'
    BY <2>2 DEF RestartShut
  <2>3. CASE RestartReset(p)
    BY <2>3 DEF RestartReset
  <2>4. CASE RestartLocal(p)
    BY <2>4 DEF RestartLocal
  <2>5. CASE RestartRemoteOk(p)
    BY <2>5 DEF RestartRemoteOk
  <2>6. CASE RestartRemoteFails(p)
    BY <2>6 DEF RestartRemoteFails
  <2>7. CASE RestartAllDone(p)
    BY <2>7 DEF RestartAllDone
  <2>. QED
    BY <1>5, <2>1, <2>2, <2>3, <2>4, <2>5, <2>6, <2>7 DEF RestartStep
<1>. QED
  BY <1>1, <1>2, <1>3, <1>4, <1>5 DEF Next, CallStep, pvars, LoopStep, LoopSeesClosed,
     LoopListens, LoopAcceptRetry, LoopAcceptEnd, LoopDialOk, LoopDialFails,
     LoopTrack, LoopAccept, ConnDialOk, ConnEnd, SessionBreaks, Redialled,
     SessionKilled

(* An accept loop belongs to a forward from wg.Add to wg.Done.               *)
LEMMA LoopInvStep == ASSUME PInv, [Next]_pvars  PROVE  LoopInv'
<1>. USE DEF PInv, TypeOK, CallInv, LoopInv
<1>1. ASSUME UNCHANGED <<lpc, loopOf>>  PROVE  LoopInv'
  BY <1>1
<1>2. ASSUME NEW p \in Procs, AddStep(p)  PROVE  LoopInv'
  <2>1. CASE StartLocal(p)
    BY <2>1 DEF StartLocal
  <2>2. CASE AddListenOk(p)
    BY <2>2 DEF AddListenOk
  <2>. QED
    BY <1>1, <1>2, <2>1, <2>2 DEF AddStep, AddNew, AddNewFails, AddRegister,
       StartClosed, StartRemote, AddListenFails, AddRemove
<1>3. ASSUME NEW p \in Procs, RestartStep(p)  PROVE  LoopInv'
  <2>1. CASE RestartLocal(p)
    BY <2>1 DEF RestartLocal
  <2>2. CASE RestartRemoteOk(p)
    BY <2>2 DEF RestartRemoteOk
  <2>. QED
    BY <1>1, <1>3, <2>1, <2>2 DEF RestartStep, RestartAll, RestartShut, RestartReset,
       RestartRemoteFails, RestartAllDone
<1>4. ASSUME NEW l \in Loops, LoopStep(l)  PROVE  LoopInv'
  <2>1. CASE LoopSeesClosed(l)
    BY <2>1 DEF LoopSeesClosed
  <2>2. CASE LoopListens(l)
    BY <2>2 DEF LoopListens
  <2>3. CASE LoopAcceptRetry(l)
    BY <2>3 DEF LoopAcceptRetry
  <2>4. CASE LoopAcceptEnd(l)
    BY <2>4 DEF LoopAcceptEnd
  <2>5. CASE LoopDialOk(l)
    BY <2>5 DEF LoopDialOk
  <2>6. CASE LoopDialFails(l)
    BY <2>6 DEF LoopDialFails
  <2>7. CASE LoopTrack(l)
    BY <2>7 DEF LoopTrack
  <2>. QED
    BY <1>4, <2>1, <2>2, <2>3, <2>4, <2>5, <2>6, <2>7 DEF LoopStep
<1>5. ASSUME NEW l \in Loops, NEW x \in Conns, LoopAccept(l, x)  PROVE  LoopInv'
  BY <1>5 DEF LoopAccept
<1>. QED
  BY <1>1, <1>2, <1>3, <1>4, <1>5 DEF Next, CallStep, pvars, AddBegin, CloseDelete,
     MonitorReconnect, CloseStep, CloseLock, CloseWait, ConnDialOk, ConnEnd,
     SessionBreaks, Redialled, SessionKilled

(* The flag closed and the listener.                                         *)
LEMMA ClosedInvStep == ASSUME PInv, [Next]_pvars  PROVE  ClosedInv'
<1>. USE DEF PInv, TypeOK, CallInv, LockInv, ListInv, ClosedInv
<1>1. ASSUME UNCHANGED <<closed, born, listener, forwards, fwd, pc>>  PROVE  ClosedInv'
  BY <1>1
<1>2. ASSUME NEW p \in Procs,
             AddBegin(p) \/ (\E f \in Fwds : CloseDelete(p, f)) \/ MonitorReconnect(p)
      PROVE  ClosedInv'
  <2>1. CASE AddBegin(p)
    BY <2>1 DEF AddBegin
  <2>2. ASSUME NEW f \in Fwds, CloseDelete(p, f)  PROVE  ClosedInv'
    BY <2>2 DEF CloseDelete
  <2>3. CASE MonitorReconnect(p)
    BY <2>3 DEF MonitorReconnect
  <2>. QED
    BY <1>2, <2>1, <2>2, <2>3
<1>3. ASSUME NEW p \in Procs, AddStep(p)  PROVE  ClosedInv'
  <2>1. ASSUME NEW f \in Fwds, AddNew(p, f)  PROVE  ClosedInv'
    BY <2>1 DEF AddNew
  <2>2. CASE AddNewFails(p)
    BY <2>2 DEF AddNewFails
  <2>3. CASE AddRegister(p)
    BY <2>3 DEF AddRegister
  <2>4. CASE StartClosed(p)
    BY <2>4 DEF StartClosed
  <2>5. CASE StartLocal(p)
    BY <2>5 DEF StartLocal
  <2>6. CASE StartRemote(p)
    BY <2>6 DEF StartRemote
  <2>7. CASE AddListenOk(p)
    BY <2>7 DEF AddListenOk
  <2>8. CASE AddListenFails(p)
    BY <2>8 DEF AddListenFails
  <2>9. CASE AddRemove(p)
    BY <2>9 DEF AddRemove
  <2>. QED
    BY <1>3, <2>1, <2>2, <2>3, <2>4, <2>5, <2>6, <2>7, <2>8, <2>9 DEF AddStep
<1>4. ASSUME NEW p \in Procs, CloseStep(p)  PROVE  ClosedInv'
  <2>1. CASE CloseLock(p)
    BY <2>1 DEF CloseLock
  <2>2. CASE CloseWait(p)
    BY <2>2 DEF CloseWait
  <2>. QED
    BY <1>4, <2>1, <2>2 DEF CloseStep
<1>5. ASSUME NEW p \in Procs, RestartStep(p)  PROVE  ClosedInv'
  <2>1. CASE RestartAll(p)
    BY <2>1 DEF RestartAll
  <2>2. ASSUME NEW f \in Fwds, RestartShut(p, f)  PROVE  ClosedInv'
    BY <2>2 DEF RestartShut
  <2>3. CASE RestartReset(p)
    BY <2>3 DEF RestartReset
  <2>4. CASE RestartLocal(p)
    BY <2>4 DEF RestartLocal
  <2>5. CASE RestartRemoteOk(p)
    BY <2>5 DEF RestartRemoteOk
  <2>6. CASE RestartRemoteFails(p)
    BY <2>6 DEF RestartRemoteFails
  <2>7. CASE RestartAllDone(p)
    BY <2>7 DEF RestartAllDone
  <2>. QED
    BY <1>5, <2>1, <2>2, <2>3, <2>4, <2>5, <2>6, <2>7 DEF RestartStep
<1>. QED
  BY <1>1, <1>2, <1>3, <1>4, <1>5 DEF Next, CallStep, pvars, LoopStep, LoopSeesClosed,
     LoopListens, LoopAcceptRetry, LoopAcceptEnd, LoopDialOk, LoopDialFails,
     LoopTrack, LoopAccept, ConnDialOk, ConnEnd, SessionBreaks, Redialled,
     SessionKilled

(* Where a local forward that exists is to be found.                         *)
LEMMA BornInvStep == ASSUME PInv, [Next]_pvars  PROVE  BornInv'
<1>. USE DEF PInv, TypeOK, CallInv, ListInv, ClosedInv, BornInv
<1>1. ASSUME UNCHANGED <<born, forwards, closed, fwd, pc>>  PROVE  BornInv'
  BY <1>1
<1>2. ASSUME NEW p \in Procs,
             AddBegin(p) \/ (\E f \in Fwds : CloseDelete(p, f)) \/ MonitorReconnect(p)
      PROVE  BornInv'
  <2>1. CASE AddBegin(p)
    BY <2>1 DEF AddBegin
  <2>2. ASSUME NEW f \in Fwds, CloseDelete(p, f)  PROVE  BornInv'
    BY <2>2 DEF CloseDelete
  <2>3. CASE MonitorReconnect(p)
    BY <2>3 DEF MonitorReconnect
  <2>. QED
    BY <1>2, <2>1, <2>2, <2>3
<1>3. ASSUME NEW p \in Procs, AddStep(p)  PROVE  BornInv'
  <2>1. ASSUME NEW f \in Fwds, AddNew(p, f)  PROVE  BornInv'
    BY <2>1 DEF AddNew
  <2>2. CASE AddNewFails(p)
    BY <2>2 DEF AddNewFails
  <2>3. CASE AddRegister(p)
    BY <2>3 DEF AddRegister
  <2>4. CASE StartClosed(p)
    BY <2>4 DEF StartClosed
  <2>5. CASE StartLocal(p)
    BY <2>5 DEF StartLocal
  <2>6. CASE StartRemote(p)
    BY <2>6 DEF StartRemote
  <2>7. CASE AddListenOk(p)
    BY <2>7 DEF AddListenOk
  <2>8. CASE AddListenFails(p)
    BY <2>8 DEF AddListenFails
  <2>9. CASE AddRemove(p)
    BY <2>9 DEF AddRemove
  <2>. QED
    BY <1>3, <2>1, <2>2, <2>3, <2>4, <2>5, <2>6, <2>7, <2>8, <2>9 DEF AddStep
<1>4. ASSUME NEW p \in Procs, CloseStep(p)  PROVE  BornInv'
  <2>1. CASE CloseLock(p)
    BY <2>1 DEF CloseLock
  <2>2. CASE CloseWait(p)
    BY <2>2 DEF CloseWait
  <2>. QED
    BY <1>4, <2>1, <2>2 DEF CloseStep
<1>5. ASSUME NEW p \in Procs, RestartStep(p)  PROVE  BornInv'
  <2>1. CASE RestartAll(p)
    BY <2>1 DEF RestartAll
  <2>2. ASSUME NEW f \in Fwds, RestartShut(p, f)  PROVE  BornInv'
    BY <2>2 DEF RestartShut
  <2>3. CASE RestartReset(p)
    BY <2>3 DEF RestartReset
  <2>4. CASE RestartLocal(p)
    BY <2>4 DEF RestartLocal
  <2>5. CASE RestartRemoteOk(p)
    BY <2>5 DEF RestartRemoteOk
  <2>6. CASE RestartRemoteFails(p)
    BY <2>6 DEF RestartRemoteFails
  <2>7. CASE RestartAllDone(p)
    BY <2>7 DEF RestartAllDone
  <2>. QED
    BY <1>5, <2>1, <2>2, <2>3, <2>4, <2>5, <2>6, <2>7 DEF RestartStep
<1>. QED
  BY <1>1, <1>2, <1>3, <1>4, <1>5 DEF Next, CallStep, pvars, LoopStep, LoopSeesClosed,
     LoopListens, LoopAcceptRetry, LoopAcceptEnd, LoopDialOk, LoopDialFails,
     LoopTrack, LoopAccept, ConnDialOk, ConnEnd, SessionBreaks, Redialled,
     SessionKilled

(* The forwards behind RestartAll have its client.                           *)
LEMMA RestartedInvStep == ASSUME PInv, [Next]_pvars  PROVE  RestartedInv'
<1>. USE DEF PInv, TypeOK, CallInv, LockInv, ListInv, RestartedInv
<1>1. ASSUME UNCHANGED <<pc, forwards, todo, client, arg, fwd>>  PROVE  RestartedInv'
  BY <1>1
<1>2. ASSUME NEW p \in Procs,
             AddBegin(p) \/ (\E f \in Fwds : CloseDelete(p, f)) \/ MonitorReconnect(p)
      PROVE  RestartedInv'
  <2>1. CASE AddBegin(p)
    BY <2>1 DEF AddBegin
  <2>2. ASSUME NEW f \in Fwds, CloseDelete(p, f)  PROVE  RestartedInv'
    BY <2>2 DEF CloseDelete
  <2>3. CASE MonitorReconnect(p)
    BY <2>3 DEF MonitorReconnect
  <2>. QED
    BY <1>2, <2>1, <2>2, <2>3
<1>3. ASSUME NEW p \in Procs, AddStep(p)  PROVE  RestartedInv'
  <2>1. ASSUME NEW f \in Fwds, AddNew(p, f)  PROVE  RestartedInv'
    BY <2>1 DEF AddNew
  <2>2. CASE AddNewFails(p)
    BY <2>2 DEF AddNewFails
  <2>3. CASE AddRegister(p)
    BY <2>3 DEF AddRegister
  <2>4. CASE StartClosed(p)
    BY <2>4 DEF StartClosed
  <2>5. CASE StartLocal(p)
    BY <2>5 DEF StartLocal
  <2>6. CASE StartRemote(p)
    BY <2>6 DEF StartRemote
  <2>7. CASE AddListenOk(p)
    BY <2>7 DEF AddListenOk
  <2>8. CASE AddListenFails(p)
    BY <2>8 DEF AddListenFails
  <2>9. CASE AddRemove(p)
    BY <2>9 DEF AddRemove
  <2>. QED
    BY <1>3, <2>1, <2>2, <2>3, <2>4, <2>5, <2>6, <2>7, <2>8, <2>9 DEF AddStep
<1>4. ASSUME NEW p \in Procs, CloseStep(p)  PROVE  RestartedInv'
  <2>1. CASE CloseLock(p)
    BY <2>1 DEF CloseLock
  <2>2. CASE CloseWait(p)
    BY <2>2 DEF CloseWait
  <2>. QED
    BY <1>4, <2>1, <2>2 DEF CloseStep
<1>5. ASSUME NEW p \in Procs, RestartStep(p)  PROVE  RestartedInv'
  <2>1. CASE RestartAll(p)
    BY <2>1 DEF RestartAll
  <2>2. ASSUME NEW f \in Fwds, RestartShut(p, f)  PROVE  RestartedInv'
    BY <2>2 DEF RestartShut
  <2>3. CASE RestartReset(p)
    BY <2>3 DEF RestartReset
  <2>4. CASE RestartLocal(p)
    BY <2>4 DEF RestartLocal
  <2>5. CASE RestartRemoteOk(p)
    BY <2>5 DEF RestartRemoteOk
  <2>6. CASE RestartRemoteFails(p)
    BY <2>6 DEF RestartRemoteFails
  <2>7. CASE RestartAllDone(p)
    BY <2>7 DEF RestartAllDone
  <2>. QED
    BY <1>5, <2>1, <2>2, <2>3, <2>4, <2>5, <2>6, <2>7 DEF RestartStep
<1>. QED
  BY <1>1, <1>2, <1>3, <1>4, <1>5 DEF Next, CallStep, pvars, LoopStep, LoopSeesClosed,
     LoopListens, LoopAcceptRetry, LoopAcceptEnd, LoopDialOk, LoopDialFails,
     LoopTrack, LoopAccept, ConnDialOk, ConnEnd, SessionBreaks, Redialled,
     SessionKilled

(* wg.Wait under lifecycleMu: no loop is left when a Close or a Restart      *)
(* gives the lock back with closed set.                                      *)
LEMMA ClosedIsQuietStep == ASSUME PInv, [Next]_pvars  PROVE  ClosedIsQuiet'
<1>. USE DEF PInv, TypeOK, CallInv, LockInv, ListInv, ClosedInv, ClosedIsQuiet
<1>1. ASSUME UNCHANGED <<closed, lifecycleMu, listener, loopOf>>  PROVE  ClosedIsQuiet'
  BY <1>1
<1>2. ASSUME NEW p \in Procs, AddStep(p)  PROVE  ClosedIsQuiet'
  <2>1. ASSUME NEW f \in Fwds, AddNew(p, f)  PROVE  ClosedIsQuiet'
    BY <2>1 DEF AddNew
  <2>2. CASE StartLocal(p)
    BY <2>2 DEF StartLocal
  <2>3. CASE StartRemote(p)
    BY <2>3 DEF StartRemote
  <2>4. CASE AddListenOk(p)
    BY <2>4 DEF AddListenOk
  <2>5. CASE AddListenFails(p)
    BY <2>5 DEF AddListenFails
  <2>. QED
    BY <1>1, <1>2, <2>1, <2>2, <2>3, <2>4, <2>5 DEF AddStep, AddNewFails, AddRegister,
       StartClosed, AddRemove
<1>3. ASSUME NEW p \in Procs, CloseStep(p)  PROVE  ClosedIsQuiet'
  <2>1. CASE CloseLock(p)
    BY <2>1 DEF CloseLock
  <2>2. CASE CloseWait(p)
    BY <2>2 DEF CloseWait
  <2>. QED
    BY <1>3, <2>1, <2>2 DEF CloseStep
<1>4. ASSUME NEW p \in Procs, RestartStep(p)  PROVE  ClosedIsQuiet'
  <2>1. ASSUME NEW f \in Fwds, RestartShut(p, f)  PROVE  ClosedIsQuiet'
    BY <2>1 DEF RestartShut
  <2>2. CASE RestartReset(p)
    BY <2>2 DEF RestartReset
  <2>3. CASE RestartLocal(p)
    BY <2>3 DEF RestartLocal
  <2>4. CASE RestartRemoteOk(p)
    BY <2>4 DEF RestartRemoteOk
  <2>5. CASE RestartRemoteFails(p)
    BY <2>5 DEF RestartRemoteFails
  <2>. QED
    BY <1>1, <1>4, <2>1, <2>2, <2>3, <2>4, <2>5 DEF RestartStep, RestartAll,
       RestartAllDone
<1>5. ASSUME NEW l \in Loops, LoopStep(l)  PROVE  ClosedIsQuiet'
  <2>1. CASE LoopSeesClosed(l)
    BY <2>1 DEF LoopSeesClosed
  <2>2. CASE LoopAcceptEnd(l)
    BY <2>2 DEF LoopAcceptEnd
  <2>. QED
    BY <1>1, <1>5, <2>1, <2>2 DEF LoopStep, LoopListens, LoopAcceptRetry, LoopDialOk,
       LoopDialFails, LoopTrack
<1>. QED
  BY <1>1, <1>2, <1>3, <1>4, <1>5 DEF Next, CallStep, pvars, AddBegin, CloseDelete,
     MonitorReconnect, LoopAccept, ConnDialOk, ConnEnd, SessionBreaks, Redialled,
     SessionKilled

(* Only Start and Restart leave a forward in the list without a call, and    *)
(* both have started its loop.                                               *)
LEMMA ListedIsServedStep == ASSUME PInv, [Next]_pvars  PROVE  ListedIsServed'
<1>. USE DEF PInv, TypeOK, CallInv, LockInv, ListInv, ClosedInv, LoopInv,
   ListedIsServed
<1>1. ASSUME UNCHANGED <<forwards, fwd, closed, loopOf>>  PROVE  ListedIsServed'
  BY <1>1
<1>2. ASSUME NEW p \in Procs,
             AddBegin(p) \/ (\E f \in Fwds : CloseDelete(p, f)) \/ MonitorReconnect(p)
      PROVE  ListedIsServed'
  <2>1. ASSUME NEW f \in Fwds, CloseDelete(p, f)  PROVE  ListedIsServed'
    BY <2>1 DEF CloseDelete
  <2>. QED
    BY <1>1, <1>2, <2>1 DEF AddBegin, MonitorReconnect
<1>3. ASSUME NEW p \in Procs, AddStep(p)  PROVE  ListedIsServed'
  <2>1. ASSUME NEW f \in Fwds, AddNew(p, f)  PROVE  ListedIsServed'
    BY <2>1 DEF AddNew
  <2>2. CASE AddRegister(p)
    BY <2>2 DEF AddRegister
  <2>3. CASE StartLocal(p)
    <3>1. fwd[p] \in Fwds
      BY <2>3 DEF StartLocal
    <3>2. StartLoop(fwd[p])
      BY <2>3 DEF StartLocal
    <3>. QED
      BY <2>3, <3>1, <3>2, NewLoop DEF StartLocal
  <2>4. CASE AddListenOk(p)
    <3>1. fwd[p] \in Fwds
      BY <2>4 DEF AddListenOk
    <3>2. StartLoop(fwd[p])
      BY <2>4 DEF AddListenOk
    <3>. QED
      BY <2>4, <3>1, <3>2, NewLoop DEF AddListenOk
  <2>5. CASE AddRemove(p)
    BY <2>5 DEF AddRemove
  <2>. QED
    BY <1>1, <1>3, <2>1, <2>2, <2>3, <2>4, <2>5 DEF AddStep, AddNewFails, StartClosed,
       StartRemote, AddListenFails
<1>4. ASSUME NEW p \in Procs, CloseStep(p)  PROVE  ListedIsServed'
  <2>1. CASE CloseLock(p)
    BY <2>1 DEF CloseLock
  <2>2. CASE CloseWait(p)
    BY <2>2 DEF CloseWait
  <2>. QED
    BY <1>4, <2>1, <2>2 DEF CloseStep
<1>5. ASSUME NEW p \in Procs, RestartStep(p)  PROVE  ListedIsServed'
  <2>1. ASSUME NEW f \in Fwds, RestartShut(p, f)  PROVE  ListedIsServed'
    BY <2>1 DEF RestartShut
  <2>2. CASE RestartReset(p)
    BY <2>2 DEF RestartReset
  <2>3. CASE RestartLocal(p)
    <3>1. fwd[p] \in Fwds
      BY <2>3 DEF RestartLocal
    <3>2. StartLoop(fwd[p])
      BY <2>3 DEF RestartLocal
    <3>. QED
      BY <2>3, <3>1, <3>2, NewLoop DEF RestartLocal
  <2>4. CASE RestartRemoteOk(p)
    <3>1. fwd[p] \in Fwds
      BY <2>4 DEF RestartRemoteOk
    <3>2. StartLoop(fwd[p])
      BY <2>4 DEF RestartRemoteOk
    <3>. QED
      BY <2>4, <3>1, <3>2, NewLoop DEF RestartRemoteOk
  <2>5. CASE RestartRemoteFails(p)
    BY <2>5 DEF RestartRemoteFails
  <2>. QED
    BY <1>1, <1>5, <2>1, <2>2, <2>3, <2>4, <2>5 DEF RestartStep, RestartAll,
       RestartAllDone
<1>6. ASSUME NEW l \in Loops, LoopStep(l)  PROVE  ListedIsServed'
  <2>1. CASE LoopSeesClosed(l)
    BY <2>1 DEF LoopSeesClosed
  <2>2. CASE LoopAcceptEnd(l)
    BY <2>2 DEF LoopAcceptEnd
  <2>. QED
    BY <1>1, <1>6, <2>1, <2>2 DEF LoopStep, LoopListens, LoopAcceptRetry, LoopDialOk,
       LoopDialFails, LoopTrack
<1>. QED
  BY <1>1, <1>2, <1>3, <1>4, <1>5, <1>6 DEF Next, CallStep, pvars, LoopAccept,
     ConnDialOk, ConnEnd, SessionBreaks, Redialled, SessionKilled

(* Every action keeps the types.                                             *)
LEMMA TypesStep == ASSUME PInv, [Next]_pvars  PROVE  TypeOK'
<1>. USE FTypeAssumption, DialsAssumption DEF PInv, TypeOK, CallInv
<1>1. ASSUME NEW p \in Procs,
             AddBegin(p) \/ (\E f \in Fwds : CloseDelete(p, f)) \/ MonitorReconnect(p)
      PROVE  TypeOK'
  <2>1. CASE AddBegin(p)
    BY <2>1 DEF AddBegin
  <2>2. ASSUME NEW f \in Fwds, CloseDelete(p, f)  PROVE  TypeOK'
    BY <2>2 DEF CloseDelete
  <2>3. CASE MonitorReconnect(p)
    BY <2>3 DEF MonitorReconnect
  <2>. QED
    BY <1>1, <2>1, <2>2, <2>3
<1>2. ASSUME NEW p \in Procs, AddStep(p)  PROVE  TypeOK'
  <2>1. ASSUME NEW f \in Fwds, AddNew(p, f)  PROVE  TypeOK'
    BY <2>1 DEF AddNew
  <2>2. CASE AddNewFails(p) \/ AddRegister(p) \/ StartClosed(p) \/ StartRemote(p)
    BY <2>2 DEF AddNewFails, AddRegister, StartClosed, StartRemote
  <2>3. CASE StartLocal(p)
    BY <2>3 DEF StartLocal
  <2>4. CASE AddListenOk(p)
    BY <2>4 DEF AddListenOk
  <2>5. CASE AddListenFails(p) \/ AddRemove(p)
    BY <2>5 DEF AddListenFails, AddRemove
  <2>. QED
    BY <1>2, <2>1, <2>2, <2>3, <2>4, <2>5 DEF AddStep
<1>3. ASSUME NEW p \in Procs, CloseStep(p)  PROVE  TypeOK'
  <2>1. CASE CloseLock(p)
    BY <2>1 DEF CloseLock
  <2>2. CASE CloseWait(p)
    BY <2>2 DEF CloseWait
  <2>. QED
    BY <1>3, <2>1, <2>2 DEF CloseStep
<1>4. ASSUME NEW p \in Procs, RestartStep(p)  PROVE  TypeOK'
  <2>1. CASE RestartAll(p) \/ RestartAllDone(p)
    BY <2>1 DEF RestartAll, RestartAllDone
  <2>2. ASSUME NEW f \in Fwds, RestartShut(p, f)  PROVE  TypeOK'
    BY <2>2 DEF RestartShut
  <2>3. CASE RestartReset(p)
    BY <2>3 DEF RestartReset
  <2>4. CASE RestartLocal(p)
    BY <2>4 DEF RestartLocal
  <2>5. CASE RestartRemoteOk(p)
    BY <2>5 DEF RestartRemoteOk
  <2>6. CASE RestartRemoteFails(p)
    BY <2>6 DEF RestartRemoteFails
  <2>. QED
    BY <1>4, <2>1, <2>2, <2>3, <2>4, <2>5, <2>6 DEF RestartStep
<1>5. ASSUME NEW l \in Loops, LoopStep(l)  PROVE  TypeOK'
  <2>1. CASE LoopSeesClosed(l) \/ LoopListens(l) \/ LoopAcceptRetry(l) \/ LoopAcceptEnd(l)
    BY <2>1 DEF LoopSeesClosed, LoopListens, LoopAcceptRetry, LoopAcceptEnd
  <2>2. CASE LoopDialOk(l) \/ LoopDialFails(l)
    BY <2>2 DEF LoopDialOk, LoopDialFails
  <2>3. CASE LoopTrack(l)
    <3>1. taken[l] \in Conns /\ loopOf[l] \in Fwds
      BY <2>3 DEF LoopTrack, LoopInv
    <3>2. conns' \in [Fwds -> SUBSET Conns]
      BY <2>3, <3>1 DEF LoopTrack
    <3>3. xstate' \in [Conns -> {"new", "accepted", "dialling", "open", "closed"}]
      BY <2>3, <3>1 DEF LoopTrack
    <3>4. /\ lpc' \in [Loops -> {"off", "check", "accept", "dial", "track"}]
          /\ taken' \in [Loops -> Conns \cup {None}]
          /\ \A k \in Loops : taken'[k] # None <=> lpc'[k] \in {"dial", "track"}
      BY <2>3 DEF LoopTrack
    <3>. QED
      BY <2>3, <3>2, <3>3, <3>4 DEF LoopTrack
  <2>. QED
    BY <1>5, <2>1, <2>2, <2>3 DEF LoopStep
<1>6. ASSUME NEW l \in Loops, NEW x \in Conns, LoopAccept(l, x)  PROVE  TypeOK'
  BY <1>6 DEF LoopAccept
<1>7. ASSUME NEW x \in Conns, ConnDialOk(x) \/ ConnEnd(x)  PROVE  TypeOK'
  BY <1>7 DEF ConnDialOk, ConnEnd
<1>8. ASSUME SessionBreaks \/ Redialled \/ SessionKilled  PROVE  TypeOK'
  <2>1. dials + 1 \in Nat /\ 0 \in 0..MaxDials
    OBVIOUS
  <2>2. cur' \in 0..MaxDials /\ dials' \in 1..MaxDials
    BY <1>8, <2>1 DEF SessionBreaks, Redialled, SessionKilled
  <2>3. alive' \in BOOLEAN
    BY <1>8 DEF SessionBreaks, Redialled, SessionKilled
  <2>4. UNCHANGED <<fwdVars, procVars, loopVars, connVars>>
    BY <1>8 DEF SessionBreaks, Redialled, SessionKilled
  <2>. QED
    BY <2>2, <2>3, <2>4
<1>9. CASE UNCHANGED pvars
  BY <1>9 DEF pvars
<1>. QED
  BY <1>1, <1>2, <1>3, <1>4, <1>5, <1>6, <1>7, <1>8, <1>9 DEF Next, CallStep

LEMMA InitPInv == Init => PInv
<1>. SUFFICES ASSUME Init  PROVE  PInv
  OBVIOUS
<1>1. TypeOK
  BY DialsAssumption DEF Init, TypeOK
<1>2. CallInv /\ LockInv /\ ListInv /\ LoopInv
  BY DEF Init, CallInv, LockInv, ListInv, LoopInv
<1>3. ClosedInv /\ BornInv /\ RestartedInv
  BY DEF Init, ClosedInv, BornInv, RestartedInv
<1>4. ClosedIsQuiet /\ ListedIsServed
  BY DEF Init, ClosedIsQuiet, ListedIsServed
<1>. QED
  BY <1>1, <1>2, <1>3, <1>4 DEF PInv

-------------------------------------------------------------------------------
(* The locking of Service and Forwarder keeps PInv in every reachable state. *)
THEOREM ForwardInductive == Spec => []PInv
<1>1. PInv /\ [Next]_pvars => PInv'
  BY CallInvStep, LockInvStep, ListInvStep, LoopInvStep, ClosedInvStep, BornInvStep,
     RestartedInvStep, ClosedIsQuietStep, ListedIsServedStep, TypesStep DEF PInv
<1>. QED
  BY InitPInv, <1>1, PTL DEF Spec

(* The types of the forwarder's state: no accept loop enters or drops a      *)
(* connection it does not hold, and only forwarders that exist are listed.   *)
THEOREM ForwardTypes == Spec => []TypeOK
<1>. QED
  BY ForwardInductive, PTL DEF PInv

(* Forwarder.Close: once it has returned, nothing listens and no accept loop *)
(* runs, whatever Start and Restart did at the same time.                    *)
THEOREM CloseIsFinal == Spec => []ClosedIsQuiet
<1>. QED
  BY ForwardInductive, PTL DEF PInv

(* Service.Add and RestartAll: a local forward in the list has its accept    *)
(* loop, after any number of restarts and failed listens.                    *)
THEOREM ListedForwardsServed == Spec => []ListedIsServed
<1>. QED
  BY ForwardInductive, PTL DEF PInv

(* Service.List shows every local forward that still accepts connections.    *)
THEOREM ActiveForwardsListed == Spec => []ActiveIsListed
<1>1. PInv => ActiveIsListed
  BY DEF PInv, ClosedInv, BornInv, ActiveIsListed, Active
<1>. QED
  BY ForwardInductive, <1>1, PTL

(* RestartAll: a forward in the list that it has passed uses the new client. *)
THEOREM RestartLeavesNone == Spec => []RestartReachesAll
<1>1. PInv => RestartReachesAll
  BY DEF PInv, RestartedInv, RestartReachesAll
<1>. QED
  BY ForwardInductive, <1>1, PTL

-------------------------------------------------------------------------------
(* The order of the locks: who holds lifecycleMu waits for no call, who asks *)
(* for it waits for such a holder only, and who asks for Service.mu waits    *)
(* for RestartAll.                                                           *)
HoldsLock(p)  == pc[p] \in LockPcs
WantsLock(p)  == pc[p] \in {"addStart", "closeLock", "restartNext"}
WantsList(p)  == pc[p] \in {"addRegister", "addRemove"}

LEMMA LockOrder ==
    ASSUME PInv, NEW p \in Procs, NEW q \in WaitsFor(p), q \in Procs
    PROVE  /\ WantsLock(p) \/ WantsList(p)
           /\ WantsLock(p) => HoldsLock(q)
           /\ WantsList(p) => HoldsLock(q) \/ WantsLock(q)
<1>1. ~(pc[p] \in {"closeWait", "restartWait"} /\ q \in LoopsOf(fwd[p]))
  BY GoroutineAssumption
<1>2. CASE pc[p] \in {"addStart", "closeLock"} /\ lifecycleMu[fwd[p]] = q
  BY <1>2 DEF PInv, TypeOK, CallInv, LockInv, WantsLock, HoldsLock, WantsList
<1>3. CASE pc[p] \in {"addRegister", "addRemove"} /\ q \in readers
  BY <1>3 DEF PInv, ListInv, WantsLock, HoldsLock, WantsList
<1>4. CASE pc[p] = "restartNext" /\ \E f \in todo[p] : lifecycleMu[f] = q
  BY <1>4 DEF PInv, TypeOK, LockInv, WantsLock, HoldsLock, WantsList
<1>. QED
  BY <1>1, <1>2, <1>3, <1>4 DEF WaitsFor

(* wg.Wait comes after the listener has been closed: the loops it waits for  *)
(* are not left to a peer.                                                   *)
LEMMA WaitedLoopsEnd ==
    ASSUME PInv, NEW p \in Procs  PROVE  WaitsFor(p) \cap AtPeersMercy = {}
<1>. SUFFICES ASSUME NEW l \in Loops, l \in WaitsFor(p), l \in AtPeersMercy
             PROVE  FALSE
  BY DEF AtPeersMercy
<1>1. pc[p] \in {"closeWait", "restartWait"} /\ loopOf[l] = fwd[p]
  BY GoroutineAssumption DEF WaitsFor
<1>2. fwd[p] \in Fwds /\ closed[fwd[p]]
  BY <1>1 DEF PInv, TypeOK, CallInv, ClosedInv
<1>3. listener[fwd[p]] = "open"
  BY <1>1 DEF AtPeersMercy
<1>. QED
  BY <1>2, <1>3 DEF PInv, ClosedInv

(* Add, Close and RestartAll never wait for each other in a circle through   *)
(* Service.mu and lifecycleMu, nor in wg.Wait for a loop that only a peer    *)
(* could wake.                                                               *)
THEOREM ForwardDeadlockFree == Spec => []NoDeadlock
<1>1. ASSUME PInv  PROVE  NoDeadlock
  <2>. SUFFICES ASSUME NEW S \in SUBSET Procs, S # {}
               PROVE  \E p \in S : WaitsFor(p) \cap (S \cup AtPeersMercy) = {}
    BY DEF NoDeadlock
  <2>1. SUFFICES \E p \in S : WaitsFor(p) \cap S = {}
    BY <1>1, WaitedLoopsEnd
  <2>2. ASSUME NEW p \in S, HoldsLock(p)  PROVE  WaitsFor(p) \cap S = {}
    BY <1>1, <2>2, LockOrder DEF HoldsLock, WantsLock, WantsList
  <2>3. ASSUME NEW p \in S, ~\E q \in S : HoldsLock(q), ~WantsList(p)
        PROVE  WaitsFor(p) \cap S = {}
    BY <1>1, <2>3, LockOrder
  <2>4. ASSUME NEW p \in S, \A q \in S : WantsList(q)
        PROVE  WaitsFor(p) \cap S = {}
    BY <1>1, <2>4, LockOrder DEF HoldsLock, WantsLock, WantsList
  <2>. QED
    BY <2>2, <2>3, <2>4
<1>. QED
  BY ForwardInductive, <1>1, PTL
===============================================================================
