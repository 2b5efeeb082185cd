------------------------- MODULE SessionManagerProofs -------------------------
(***************************************************************************)
(* Proofs about SessionManager for every set of processes, names, hosts,   *)
(* objects and clients and every choice of Ops.                            *)
(*                                                                         *)
(* IInv, the invariant defined in SessionManager, is inductive.  Each part *)
(* is preserved because of the parts before it and itself; one lemma per   *)
(* part, one step per action or per group of actions that do the same to   *)
(* the part.  The theorems read the properties off IInv; the last part     *)
(* shows that the manager implements ClientOwnership.                      *)
(***************************************************************************)
EXTENDS SessionManager, TLAPS

-------------------------------------------------------------------------------
(* How a client changes hands: the four transfers that keep OwnerInv. *)

(* A call takes the client of a session: Kill, KillAll, reconnectSSH. *)
LEMMA TakeKeepsOwners ==
    ASSUME TypeOK, OwnerInv, NEW p \in Procs, NEW o \in Objs, cl[p] = None,
           cl' = [cl EXCEPT ![p] = client[o]],
           client' = [client EXCEPT ![o] = None], conn' = conn
    PROVE  OwnerInv'
BY NoneAssumption DEF TypeOK, OwnerInv

(* A session without a client adopts the one a call holds. *)
LEMMA GiveKeepsOwners ==
    ASSUME TypeOK, OwnerInv, NEW p \in Procs, NEW o \in Objs, client[o] = None,
           client' = [client EXCEPT ![o] = cl[p]],
           cl' = [cl EXCEPT ![p] = None], conn' = conn
    PROVE  OwnerInv'
BY NoneAssumption DEF TypeOK, OwnerInv

(* A dial gives a call that holds nothing a new client. *)
LEMMA DialKeepsOwners ==
    ASSUME TypeOK, OwnerInv, NEW p \in Procs, NEW c \in Clients,
           conn[c] = "unused", cl[p] = None,
           cl' = [cl EXCEPT ![p] = c],
           conn' = [conn EXCEPT ![c] = "open"], client' = client
    PROVE  OwnerInv'
BY NoneAssumption DEF TypeOK, OwnerInv, Live

(* A call closes the client it holds and forgets it. *)
LEMMA CloseKeepsOwners ==
    ASSUME TypeOK, OwnerInv, NEW p \in Procs, cl[p] # None,
           cl' = [cl EXCEPT ![p] = None],
           conn' = [conn EXCEPT ![cl[p]] = "closed"], client' = client
    PROVE  OwnerInv'
BY NoneAssumption DEF TypeOK, OwnerInv, Live

(* Clients change hands only in those ways. *)
LEMMA OwnerStep ==
    ASSUME TypeOK, ProcInv, OwnerInv, StatusInv, [Next]_vars
    PROVE  OwnerInv'
<1>. USE DEF regVars, objVars, procVars, srvVars
<1>0. ASSUME UNCHANGED <<client, cl, conn>>  PROVE  OwnerInv'
  BY <1>0 DEF OwnerInv
<1>1. ASSUME NEW p \in Procs, Call(p)  PROVE  OwnerInv'
  BY <1>0, <1>1 DEF Call, ConnectConnected, ConnectInFlight, ConnectOffline,
     ConnectCollision, ConnectNew, ConnectLocalExisting, ConnectLocalCollision,
     ConnectLocalNew, Register, Reconnect, KillBegin, UseBegin, KillAllBegin
<1>2. ASSUME NEW p \in Procs, DialStep(p)  PROVE  OwnerInv'
  <2>1. ASSUME NEW c \in Clients, ConnectDialOk(p, c) \/ ReconnDialOk(p, c)
        PROVE  OwnerInv'
    <3>1. conn[c] = "unused" /\ cl[p] = None
      BY <2>1 DEF ConnectDialOk, ReconnDialOk, ProcInv, HoldPcs
    <3>. QED
      BY <2>1, <3>1, DialKeepsOwners DEF ConnectDialOk, ReconnDialOk, Hold
  <2>2. CASE ConnectDialFail(p) \/ ReconnDialFail(p)
    BY <1>0, <2>2 DEF ConnectDialFail, ReconnDialFail
  <2>. QED
    BY <1>2, <2>1, <2>2 DEF DialStep
<1>3. ASSUME NEW p \in Procs, Step(p)  PROVE  OwnerInv'
  <2>1. CASE ConnectAdopt(p) \/ ReconnAdopt(p)
    <3>1. obj[p] \in Objs /\ client[obj[p]] = None
      BY <2>1 DEF ConnectAdopt, ReconnAdopt, ProcInv, StatusInv, SSHPcs, LockedPcs
    <3>. QED
      BY <2>1, <3>1, GiveKeepsOwners DEF ConnectAdopt, ReconnAdopt, Adopt, Hold
  <2>2. CASE \/ ConnectCloseRejected(p) \/ KillCloseClient(p) \/ ReconnCloseOld(p)
             \/ KillAllCloseClient(p) \/ ReconnReject(p)
    <3>1. cl[p] # None
      BY <2>2 DEF ConnectCloseRejected, KillCloseClient, ReconnCloseOld,
         KillAllCloseClient, CloseHeld, ReconnReject, ProcInv, HoldPcs
    <3>. QED
      BY <2>2, <3>1, CloseKeepsOwners DEF ConnectCloseRejected, KillCloseClient,
         ReconnCloseOld, KillAllCloseClient, CloseHeld, ReconnReject, Hold
  <2>3. CASE KillClose(p) \/ ReconnTakeOld(p)
    <3>1. obj[p] \in Objs /\ cl[p] = None
      BY <2>3 DEF KillClose, ReconnTakeOld, ProcInv, HoldPcs, SSHPcs, LockedPcs
    <3>. QED
      BY <2>3, <3>1, TakeKeepsOwners DEF KillClose, ReconnTakeOld, Detach, Hold
  <2>4. ASSUME NEW o \in Objs, KillAllClose(p, o)  PROVE  OwnerInv'
    <3>1. cl[p] = None
      BY <2>4 DEF KillAllClose, ProcInv, HoldPcs
    <3>. QED
      BY <2>4, <3>1, TakeKeepsOwners DEF KillAllClose, Detach, Hold
  <2>5. CASE \/ ConnectUnregister(p) \/ ConnectReject(p)
             \/ AwaitConnected(p) \/ AwaitTerminal(p) \/ AwaitGet(p) \/ AwaitTimeout(p)
             \/ KillNotFound(p) \/ KillRemove(p) \/ KillAllDone(p)
             \/ UseLookup(p) \/ UseSetDefault(p) \/ UseStatus(p)
             \/ ReconnLock(p) \/ ReconnRecheck(p) \/ ReconnStateChanged(p)
    BY <1>0, <2>5 DEF ConnectUnregister, ConnectReject, AwaitConnected, AwaitTerminal,
       AwaitGet, AwaitTimeout, KillNotFound, KillRemove, KillAllDone, UseLookup,
       UseSetDefault, UseStatus, ReconnLock, ReconnRecheck, ReconnStateChanged
  <2>. QED
    BY <1>3, <2>1, <2>2, <2>3, <2>4, <2>5 DEF Step
<1>4. ASSUME NEW p \in Procs, Return(p)  PROVE  OwnerInv'
  BY <1>0, <1>4 DEF Return
<1>5. ASSUME NEW c \in Clients, Break(c) \/ ProbeTimeout(c)  PROVE  OwnerInv'
  BY <1>5 DEF Break, ProbeTimeout, OwnerInv, TypeOK, Live
<1>6. ASSUME NEW n \in Names, NEW h \in Hosts, NEW o \in Objs, RegisterOfflineSession(n, h, o)
      PROVE  OwnerInv'
  BY <1>0, <1>6 DEF RegisterOfflineSession, Register
<1>7. CASE RestoreDone \/ UNCHANGED vars
  BY <1>0, <1>7 DEF RestoreDone, vars
<1>. QED
  BY <1>1, <1>2, <1>3, <1>4, <1>5, <1>6, <1>7 DEF Next, Inside, Network, Restore

-------------------------------------------------------------------------------
(* The other parts of IInv. *)

(* Every action keeps the types and leaves each process knowing what its next
   label needs. *)
LEMMA ControlStep ==
    ASSUME TypeOK, ProcInv, RegistryInv, [Next]_vars
    PROVE  (TypeOK /\ ProcInv)'
<1>. USE NoneAssumption, HostAssumption, AutoNameAssumption
     DEF TypeOK, ProcInv, RegistryInv, regVars, objVars,
         procVars, srvVars, LocalHost, InFlight, Live, Statuses, ConnState, LockedPcs,
         SSHPcs, HoldPcs, Pcs, Unborn, IsLocal, Registered, Goto, SetStatus, SetName,
         SetObj, Hold, Begins, Request, Lookup, Unregister, Register, Detach, Adopt,
         ConnectName, CloseHeld, HasGoClient
<1>1. ASSUME NEW p \in Procs, Call(p)  PROVE  (TypeOK /\ ProcInv)'
  <2>1. ASSUME NEW n \in Names \cup {None}, NEW h \in Hosts,
               ConnectConnected(p, n, h) \/ ConnectInFlight(p, n, h)
               \/ ConnectOffline(p, n, h) \/ ConnectCollision(p, n, h)
        PROVE  (TypeOK /\ ProcInv)'
    <3>1. CASE ConnectConnected(p, n, h)
      <4>1. TypeOK'
        BY <3>1 DEF ConnectConnected
      <4>2. ProcInv'
        BY <3>1 DEF ConnectConnected
      <4>. QED
        BY ONLY <4>1, <4>2
    <3>2. CASE ConnectInFlight(p, n, h)
      <4>1. TypeOK'
        BY <3>2 DEF ConnectInFlight
      <4>2. ProcInv'
        BY <3>2 DEF ConnectInFlight
      <4>. QED
        BY ONLY <4>1, <4>2
    <3>3. CASE ConnectOffline(p, n, h)
      <4>1. TypeOK'
        BY <3>3 DEF ConnectOffline
      <4>2. ProcInv'
        BY <3>3 DEF ConnectOffline
      <4>. QED
        BY ONLY <4>1, <4>2
    <3>4. CASE ConnectCollision(p, n, h)
      <4>1. TypeOK'
        BY <3>4 DEF ConnectCollision
      <4>2. ProcInv'
        BY <3>4 DEF ConnectCollision
      <4>. QED
        BY ONLY <4>1, <4>2
    <3>. QED
      BY ONLY <2>1, <3>1, <3>2, <3>3, <3>4
  <2>2. ASSUME NEW n \in Names \cup {None}, NEW h \in Hosts, NEW o \in Objs,
               ConnectNew(p, n, h, o)
        PROVE  (TypeOK /\ ProcInv)'
    BY <2>2 DEF ConnectNew
  <2>3. ASSUME NEW n \in Names,
               ConnectLocalExisting(p, n) \/ ConnectLocalCollision(p, n)
        PROVE  (TypeOK /\ ProcInv)'
    <3>1. CASE ConnectLocalExisting(p, n)
      <4>1. TypeOK'
        BY <3>1 DEF ConnectLocalExisting
      <4>2. ProcInv'
        BY <3>1 DEF ConnectLocalExisting
      <4>. QED
        BY ONLY <4>1, <4>2
    <3>2. CASE ConnectLocalCollision(p, n)
      <4>1. TypeOK'
        BY <3>2 DEF ConnectLocalCollision
      <4>2. ProcInv'
        BY <3>2 DEF ConnectLocalCollision
      <4>. QED
        BY ONLY <4>1, <4>2
    <3>. QED
      BY ONLY <2>3, <3>1, <3>2
  <2>4. ASSUME NEW n \in Names, NEW o \in Objs, ConnectLocalNew(p, n, o)
        PROVE  (TypeOK /\ ProcInv)'
    BY <2>4 DEF ConnectLocalNew
  <2>5. ASSUME NEW n \in Names, Reconnect(p, n)
        PROVE  (TypeOK /\ ProcInv)'
    BY <2>5 DEF Reconnect
  <2>6. ASSUME NEW n \in Names \cup {None}, KillBegin(p, n) \/ UseBegin(p, n)
        PROVE  (TypeOK /\ ProcInv)'
    <3>1. CASE KillBegin(p, n)
      <4>1. TypeOK'
        BY <3>1 DEF KillBegin
      <4>2. ProcInv'
        BY <3>1 DEF KillBegin
      <4>. QED
        BY ONLY <4>1, <4>2
    <3>2. CASE UseBegin(p, n)
      <4>1. TypeOK'
        BY <3>2 DEF UseBegin
      <4>2. ProcInv'
        BY <3>2 DEF UseBegin
      <4>. QED
        BY ONLY <4>1, <4>2
    <3>. QED
      BY ONLY <2>6, <3>1, <3>2
  <2>7. ASSUME KillAllBegin(p)
        PROVE  (TypeOK /\ ProcInv)'
    BY <2>7 DEF KillAllBegin
  <2>. QED
    BY ONLY <1>1, <2>1, <2>2, <2>3, <2>4, <2>5, <2>6, <2>7
    DEF Call
<1>2. ASSUME NEW p \in Procs, DialStep(p)  PROVE  (TypeOK /\ ProcInv)'
  <2>1. ASSUME NEW c \in Clients, ConnectDialOk(p, c) \/ ReconnDialOk(p, c)
        PROVE  (TypeOK /\ ProcInv)'
    <3>1. CASE ConnectDialOk(p, c)
      <4>1. TypeOK'
        BY <3>1 DEF ConnectDialOk
      <4>2. ProcInv'
        BY <3>1 DEF ConnectDialOk
      <4>. QED
        BY ONLY <4>1, <4>2
    <3>2. CASE ReconnDialOk(p, c)
      <4>1. TypeOK'
        BY <3>2 DEF ReconnDialOk
      <4>2. ProcInv'
        BY <3>2 DEF ReconnDialOk
      <4>. QED
        BY ONLY <4>1, <4>2
    <3>. QED
      BY ONLY <2>1, <3>1, <3>2
  <2>2. ASSUME ConnectDialFail(p)
        PROVE  (TypeOK /\ ProcInv)'
    BY <2>2 DEF ConnectDialFail
  <2>3. ASSUME ReconnDialFail(p)
        PROVE  (TypeOK /\ ProcInv)'
    BY <2>3 DEF ReconnDialFail
  <2>. QED
    BY ONLY <1>2, <2>1, <2>2, <2>3
    DEF DialStep
<1>3. ASSUME NEW p \in Procs, Step(p)  PROVE  (TypeOK /\ ProcInv)'
  <2>1. ASSUME ConnectUnregister(p)
        PROVE  (TypeOK /\ ProcInv)'
    BY <2>1 DEF ConnectUnregister
  <2>2. ASSUME ConnectAdopt(p)
        PROVE  (TypeOK /\ ProcInv)'
    BY <2>2 DEF ConnectAdopt
  <2>3. ASSUME ConnectReject(p)
        PROVE  (TypeOK /\ ProcInv)'
    BY <2>3 DEF ConnectReject
  <2>4. ASSUME AwaitConnected(p) \/ AwaitTerminal(p) \/ AwaitGet(p)
               \/ AwaitTimeout(p)
        PROVE  (TypeOK /\ ProcInv)'
    <3>1. CASE AwaitConnected(p)
      <4>1. TypeOK'
        BY <3>1 DEF AwaitConnected
      <4>2. ProcInv'
        BY <3>1 DEF AwaitConnected
      <4>. QED
        BY ONLY <4>1, <4>2
    <3>2. CASE AwaitTerminal(p)
      <4>1. TypeOK'
        BY <3>2 DEF AwaitTerminal
      <4>2. ProcInv'
        BY <3>2 DEF AwaitTerminal
      <4>. QED
        BY ONLY <4>1, <4>2
    <3>3. CASE AwaitGet(p)
      <4>1. TypeOK'
        BY <3>3 DEF AwaitGet
      <4>2. ProcInv'
        BY <3>3 DEF AwaitGet
      <4>. QED
        BY ONLY <4>1, <4>2
    <3>4. CASE AwaitTimeout(p)
      <4>1. TypeOK'
        BY <3>4 DEF AwaitTimeout
      <4>2. ProcInv'
        BY <3>4 DEF AwaitTimeout
      <4>. QED
        BY ONLY <4>1, <4>2
    <3>. QED
      BY ONLY <2>4, <3>1, <3>2, <3>3, <3>4
  <2>5. ASSUME ConnectCloseRejected(p) \/ KillCloseClient(p) \/ ReconnCloseOld(p)
               \/ KillAllCloseClient(p)
        PROVE  (TypeOK /\ ProcInv)'
    <3>1. CASE ConnectCloseRejected(p)
      <4>1. TypeOK'
        BY <3>1 DEF ConnectCloseRejected
      <4>2. ProcInv'
        BY <3>1 DEF ConnectCloseRejected
      <4>. QED
        BY ONLY <4>1, <4>2
    <3>2. CASE KillCloseClient(p)
      <4>1. TypeOK'
        BY <3>2 DEF KillCloseClient
      <4>2. ProcInv'
        BY <3>2 DEF KillCloseClient
      <4>. QED
        BY ONLY <4>1, <4>2
    <3>3. CASE ReconnCloseOld(p)
      <4>1. TypeOK'
        BY <3>3 DEF ReconnCloseOld
      <4>2. ProcInv'
        BY <3>3 DEF ReconnCloseOld
      <4>. QED
        BY ONLY <4>1, <4>2
    <3>4. CASE KillAllCloseClient(p)
      <4>1. TypeOK'
        BY <3>4 DEF KillAllCloseClient
      <4>2. ProcInv'
        BY <3>4 DEF KillAllCloseClient
      <4>. QED
        BY ONLY <4>1, <4>2
    <3>. QED
      BY ONLY <2>5, <3>1, <3>2, <3>3, <3>4
  <2>6. ASSUME KillNotFound(p) \/ KillAllDone(p)
        PROVE  (TypeOK /\ ProcInv)'
    BY <2>6 DEF KillNotFound, KillAllDone
  <2>7. ASSUME KillRemove(p)
        PROVE  (TypeOK /\ ProcInv)'
    BY <2>7 DEF KillRemove
  <2>8. ASSUME KillClose(p)
        PROVE  (TypeOK /\ ProcInv)'
    BY <2>8 DEF KillClose
  <2>9. ASSUME UseLookup(p)
        PROVE  (TypeOK /\ ProcInv)'
    BY <2>9 DEF UseLookup
  <2>10. ASSUME UseSetDefault(p)
         PROVE  (TypeOK /\ ProcInv)'
    BY <2>10 DEF UseSetDefault
  <2>11. ASSUME UseStatus(p)
         PROVE  (TypeOK /\ ProcInv)'
    BY <2>11 DEF UseStatus
  <2>12. ASSUME ReconnLock(p)
         PROVE  (TypeOK /\ ProcInv)'
    BY <2>12 DEF ReconnLock
  <2>13. ASSUME ReconnTakeOld(p)
         PROVE  (TypeOK /\ ProcInv)'
    BY <2>13 DEF ReconnTakeOld
  <2>14. ASSUME ReconnRecheck(p)
         PROVE  (TypeOK /\ ProcInv)'
    BY <2>14 DEF ReconnRecheck
  <2>15. ASSUME ReconnAdopt(p)
         PROVE  (TypeOK /\ ProcInv)'
    BY <2>15 DEF ReconnAdopt
  <2>16. ASSUME ReconnStateChanged(p)
         PROVE  (TypeOK /\ ProcInv)'
    BY <2>16 DEF ReconnStateChanged
  <2>17. ASSUME ReconnReject(p)
         PROVE  (TypeOK /\ ProcInv)'
    BY <2>17 DEF ReconnReject
  <2>18. ASSUME NEW o \in Objs, KillAllClose(p, o)
         PROVE  (TypeOK /\ ProcInv)'
    BY <2>18 DEF KillAllClose
  <2>. QED
    BY ONLY <1>3, <2>1, <2>2, <2>3, <2>4, <2>5, <2>6, <2>7, <2>8, <2>9, <2>10, <2>11,
        <2>12, <2>13, <2>14, <2>15, <2>16, <2>17, <2>18
    DEF Step
<1>4. ASSUME NEW p \in Procs, Return(p)  PROVE  (TypeOK /\ ProcInv)'
  BY <1>4 DEF Return
<1>5. ASSUME NEW c \in Clients, Break(c) \/ ProbeTimeout(c)
      PROVE  (TypeOK /\ ProcInv)'
  BY <1>5 DEF Break, ProbeTimeout
<1>6. ASSUME NEW n \in Names, NEW h \in Hosts, NEW o \in Objs,
             RegisterOfflineSession(n, h, o)
      PROVE  (TypeOK /\ ProcInv)'
  BY <1>6 DEF RegisterOfflineSession
<1>7. ASSUME RestoreDone
      PROVE  (TypeOK /\ ProcInv)'
  BY <1>7 DEF RestoreDone
<1>8. CASE UNCHANGED vars
  BY <1>8 DEF vars
<1>. QED
  BY ONLY [Next]_vars, <1>1, <1>2, <1>3, <1>4, <1>5, <1>6, <1>7, <1>8
  DEF Next, Inside, Network, Restore

(* A name is only ever given to a fresh object and a removed object stays out;
   reconnMu is taken and released exactly at the ends of reconnectSSH. *)
LEMMA RegistryStep ==
    ASSUME TypeOK, ProcInv, RegistryInv, LockInv, [Next]_vars
    PROVE  (RegistryInv /\ LockInv)'
<1>. USE NoneAssumption, HostAssumption, AutoNameAssumption
     DEF TypeOK, ProcInv, RegistryInv, LockInv, regVars, objVars,
         procVars, srvVars, LocalHost, InFlight, Live, Statuses, ConnState, LockedPcs,
         SSHPcs, HoldPcs, Pcs, Unborn, IsLocal, Registered, Goto, SetStatus, SetName,
         SetObj, Hold, Begins, Request, Lookup, Unregister, Register, Detach, Adopt,
         ConnectName, CloseHeld, HasGoClient
<1>1. ASSUME NEW p \in Procs, Call(p)  PROVE  (RegistryInv /\ LockInv)'
  <2>1. ASSUME NEW n \in Names \cup {None}, NEW h \in Hosts,
               ConnectConnected(p, n, h) \/ ConnectInFlight(p, n, h)
               \/ ConnectOffline(p, n, h) \/ ConnectCollision(p, n, h)
        PROVE  (RegistryInv /\ LockInv)'
    <3>1. CASE ConnectConnected(p, n, h)
      BY <3>1 DEF ConnectConnected
    <3>2. CASE ConnectInFlight(p, n, h)
      BY <3>2 DEF ConnectInFlight
    <3>3. CASE ConnectOffline(p, n, h)
      BY <3>3 DEF ConnectOffline
    <3>4. CASE ConnectCollision(p, n, h)
      BY <3>4 DEF ConnectCollision
    <3>. QED
      BY ONLY <2>1, <3>1, <3>2, <3>3, <3>4
  <2>2. ASSUME NEW n \in Names \cup {None}, NEW h \in Hosts, NEW o \in Objs,
               ConnectNew(p, n, h, o)
        PROVE  (RegistryInv /\ LockInv)'
    BY <2>2 DEF ConnectNew
  <2>3. ASSUME NEW n \in Names,
               ConnectLocalExisting(p, n) \/ ConnectLocalCollision(p, n)
        PROVE  (RegistryInv /\ LockInv)'
    BY <2>3 DEF ConnectLocalExisting, ConnectLocalCollision
  <2>4. ASSUME NEW n \in Names, NEW o \in Objs, ConnectLocalNew(p, n, o)
        PROVE  (RegistryInv /\ LockInv)'
    BY <2>4 DEF ConnectLocalNew
  <2>5. ASSUME NEW n \in Names, Reconnect(p, n)
        PROVE  (RegistryInv /\ LockInv)'
    BY <2>5 DEF Reconnect
  <2>6. ASSUME NEW n \in Names \cup {None}, KillBegin(p, n) \/ UseBegin(p, n)
        PROVE  (RegistryInv /\ LockInv)'
    BY <2>6 DEF KillBegin, UseBegin
  <2>7. ASSUME KillAllBegin(p)
        PROVE  (RegistryInv /\ LockInv)'
    BY <2>7 DEF KillAllBegin
  <2>. QED
    BY ONLY <1>1, <2>1, <2>2, <2>3, <2>4, <2>5, <2>6, <2>7
    DEF Call
<1>2. ASSUME NEW p \in Procs, DialStep(p)  PROVE  (RegistryInv /\ LockInv)'
  <2>1. ASSUME NEW c \in Clients, ConnectDialOk(p, c) \/ ReconnDialOk(p, c)
        PROVE  (RegistryInv /\ LockInv)'
    <3>1. CASE ConnectDialOk(p, c)
      BY <3>1 DEF ConnectDialOk
    <3>2. CASE ReconnDialOk(p, c)
      BY <3>2 DEF ReconnDialOk
    <3>. QED
      BY ONLY <2>1, <3>1, <3>2
  <2>2. ASSUME ConnectDialFail(p)
        PROVE  (RegistryInv /\ LockInv)'
    BY <2>2 DEF ConnectDialFail
  <2>3. ASSUME ReconnDialFail(p)
        PROVE  (RegistryInv /\ LockInv)'
    BY <2>3 DEF ReconnDialFail
  <2>. QED
    BY ONLY <1>2, <2>1, <2>2, <2>3
    DEF DialStep
<1>3. ASSUME NEW p \in Procs, Step(p)  PROVE  (RegistryInv /\ LockInv)'
  <2>1. ASSUME ConnectUnregister(p)
        PROVE  (RegistryInv /\ LockInv)'
    BY <2>1 DEF ConnectUnregister
  <2>2. ASSUME ConnectAdopt(p)
        PROVE  (RegistryInv /\ LockInv)'
    BY <2>2 DEF ConnectAdopt
  <2>3. ASSUME ConnectReject(p)
        PROVE  (RegistryInv /\ LockInv)'
    BY <2>3 DEF ConnectReject
  <2>4. ASSUME AwaitConnected(p) \/ AwaitTerminal(p) \/ AwaitGet(p)
               \/ AwaitTimeout(p)
        PROVE  (RegistryInv /\ LockInv)'
    BY <2>4 DEF AwaitConnected, AwaitTerminal, AwaitGet, AwaitTimeout
  <2>5. ASSUME ConnectCloseRejected(p) \/ KillCloseClient(p) \/ ReconnCloseOld(p)
               \/ KillAllCloseClient(p)
        PROVE  (RegistryInv /\ LockInv)'
    BY <2>5 DEF ConnectCloseRejected, KillCloseClient, ReconnCloseOld, KillAllCloseClient
  <2>6. ASSUME KillNotFound(p) \/ KillAllDone(p)
        PROVE  (RegistryInv /\ LockInv)'
    BY <2>6 DEF KillNotFound, KillAllDone
  <2>7. ASSUME KillRemove(p)
        PROVE  (RegistryInv /\ LockInv)'
    BY <2>7 DEF KillRemove
  <2>8. ASSUME KillClose(p)
        PROVE  (RegistryInv /\ LockInv)'
    BY <2>8 DEF KillClose
  <2>9. ASSUME UseLookup(p)
        PROVE  (RegistryInv /\ LockInv)'
    BY <2>9 DEF UseLookup
  <2>10. ASSUME UseSetDefault(p)
         PROVE  (RegistryInv /\ LockInv)'
    BY <2>10 DEF UseSetDefault
  <2>11. ASSUME UseStatus(p)
         PROVE  (RegistryInv /\ LockInv)'
    BY <2>11 DEF UseStatus
  <2>12. ASSUME ReconnLock(p)
         PROVE  (RegistryInv /\ LockInv)'
    BY <2>12 DEF ReconnLock
  <2>13. ASSUME ReconnTakeOld(p)
         PROVE  (RegistryInv /\ LockInv)'
    BY <2>13 DEF ReconnTakeOld
  <2>14. ASSUME ReconnRecheck(p)
         PROVE  (RegistryInv /\ LockInv)'
    BY <2>14 DEF ReconnRecheck
  <2>15. ASSUME ReconnAdopt(p)
         PROVE  (RegistryInv /\ LockInv)'
    BY <2>15 DEF ReconnAdopt
  <2>16. ASSUME ReconnStateChanged(p)
         PROVE  (RegistryInv /\ LockInv)'
    BY <2>16 DEF ReconnStateChanged
  <2>17. ASSUME ReconnReject(p)
         PROVE  (RegistryInv /\ LockInv)'
    BY <2>17 DEF ReconnReject
  <2>18. ASSUME NEW o \in Objs, KillAllClose(p, o)
         PROVE  (RegistryInv /\ LockInv)'
    BY <2>18 DEF KillAllClose
  <2>. QED
    BY ONLY <1>3, <2>1, <2>2, <2>3, <2>4, <2>5, <2>6, <2>7, <2>8, <2>9, <2>10, <2>11,
        <2>12, <2>13, <2>14, <2>15, <2>16, <2>17, <2>18
    DEF Step
<1>4. ASSUME NEW p \in Procs, Return(p)  PROVE  (RegistryInv /\ LockInv)'
  BY <1>4 DEF Return
<1>5. ASSUME NEW c \in Clients, Break(c) \/ ProbeTimeout(c)
      PROVE  (RegistryInv /\ LockInv)'
  BY <1>5 DEF Break, ProbeTimeout
<1>6. ASSUME NEW n \in Names, NEW h \in Hosts, NEW o \in Objs,
             RegisterOfflineSession(n, h, o)
      PROVE  (RegistryInv /\ LockInv)'
  BY <1>6 DEF RegisterOfflineSession
<1>7. ASSUME RestoreDone
      PROVE  (RegistryInv /\ LockInv)'
  BY <1>7 DEF RestoreDone
<1>8. CASE UNCHANGED vars
  BY <1>8 DEF vars
<1>. QED
  BY ONLY [Next]_vars, <1>1, <1>2, <1>3, <1>4, <1>5, <1>6, <1>7, <1>8
  DEF Next, Inside, Network, Restore

(* Status and Client move together, and nothing revives a closed session: a
   reconnect that had passed its registration check finds the status changed,
   a later one fails the check. *)
LEMMA StatusStep ==
    ASSUME TypeOK, ProcInv, RegistryInv, LockInv, StatusInv, ClosedInv, [Next]_vars
    PROVE  (StatusInv /\ ClosedInv)'
<1>. USE NoneAssumption, HostAssumption, AutoNameAssumption
     DEF TypeOK, ProcInv, RegistryInv, LockInv, StatusInv, ClosedInv, regVars, objVars,
         procVars, srvVars, LocalHost, InFlight, Live, Statuses, ConnState, LockedPcs,
         SSHPcs, HoldPcs, Pcs, Unborn, IsLocal, Registered, Goto, SetStatus, SetName,
         SetObj, Hold, Begins, Request, Lookup, Unregister, Register, Detach, Adopt,
         ConnectName, CloseHeld, HasGoClient
<1>1. ASSUME NEW p \in Procs, Call(p)  PROVE  (StatusInv /\ ClosedInv)'
  <2>1. ASSUME NEW n \in Names \cup {None}, NEW h \in Hosts,
               ConnectConnected(p, n, h) \/ ConnectInFlight(p, n, h)
               \/ ConnectOffline(p, n, h) \/ ConnectCollision(p, n, h)
        PROVE  (StatusInv /\ ClosedInv)'
    <3>1. CASE ConnectConnected(p, n, h)
      <4>1. StatusInv'
        BY <3>1 DEF ConnectConnected
      <4>2. ClosedInv'
        BY <3>1 DEF ConnectConnected
      <4>. QED
        BY ONLY <4>1, <4>2
    <3>2. CASE ConnectInFlight(p, n, h)
      <4>1. StatusInv'
        BY <3>2 DEF ConnectInFlight
      <4>2. ClosedInv'
        BY <3>2 DEF ConnectInFlight
      <4>. QED
        BY ONLY <4>1, <4>2
    <3>3. CASE ConnectOffline(p, n, h)
      <4>1. StatusInv'
        BY <3>3 DEF ConnectOffline
      <4>2. ClosedInv'
        BY <3>3 DEF ConnectOffline
      <4>. QED
        BY ONLY <4>1, <4>2
    <3>4. CASE ConnectCollision(p, n, h)
      <4>1. StatusInv'
        BY <3>4 DEF ConnectCollision
      <4>2. ClosedInv'
        BY <3>4 DEF ConnectCollision
      <4>. QED
        BY ONLY <4>1, <4>2
    <3>. QED
      BY ONLY <2>1, <3>1, <3>2, <3>3, <3>4
  <2>2. ASSUME NEW n \in Names \cup {None}, NEW h \in Hosts, NEW o \in Objs,
               ConnectNew(p, n, h, o)
        PROVE  (StatusInv /\ ClosedInv)'
    BY <2>2 DEF ConnectNew
  <2>3. ASSUME NEW n \in Names,
               ConnectLocalExisting(p, n) \/ ConnectLocalCollision(p, n)
        PROVE  (StatusInv /\ ClosedInv)'
    BY <2>3 DEF ConnectLocalExisting, ConnectLocalCollision
  <2>4. ASSUME NEW n \in Names, NEW o \in Objs, ConnectLocalNew(p, n, o)
        PROVE  (StatusInv /\ ClosedInv)'
    BY <2>4 DEF ConnectLocalNew
  <2>5. ASSUME NEW n \in Names, Reconnect(p, n)
        PROVE  (StatusInv /\ ClosedInv)'
    BY <2>5 DEF Reconnect
  <2>6. ASSUME NEW n \in Names \cup {None}, KillBegin(p, n) \/ UseBegin(p, n)
        PROVE  (StatusInv /\ ClosedInv)'
    BY <2>6 DEF KillBegin, UseBegin
  <2>7. ASSUME KillAllBegin(p)
        PROVE  (StatusInv /\ ClosedInv)'
    BY <2>7 DEF KillAllBegin
  <2>. QED
    BY ONLY <1>1, <2>1, <2>2, <2>3, <2>4, <2>5, <2>6, <2>7
    DEF Call
<1>2. ASSUME NEW p \in Procs, DialStep(p)  PROVE  (StatusInv /\ ClosedInv)'
  <2>1. ASSUME NEW c \in Clients, ConnectDialOk(p, c) \/ ReconnDialOk(p, c)
        PROVE  (StatusInv /\ ClosedInv)'
    BY <2>1 DEF ConnectDialOk, ReconnDialOk
  <2>2. ASSUME ConnectDialFail(p)
        PROVE  (StatusInv /\ ClosedInv)'
    BY <2>2 DEF ConnectDialFail
  <2>3. ASSUME ReconnDialFail(p)
        PROVE  (StatusInv /\ ClosedInv)'
    BY <2>3 DEF ReconnDialFail
  <2>. QED
    BY ONLY <1>2, <2>1, <2>2, <2>3
    DEF DialStep
<1>3. ASSUME NEW p \in Procs, Step(p)  PROVE  (StatusInv /\ ClosedInv)'
  <2>1. ASSUME ConnectUnregister(p)
        PROVE  (StatusInv /\ ClosedInv)'
    BY <2>1 DEF ConnectUnregister
  <2>2. ASSUME ConnectAdopt(p)
        PROVE  (StatusInv /\ ClosedInv)'
    BY <2>2 DEF ConnectAdopt
  <2>3. ASSUME ConnectReject(p)
        PROVE  (StatusInv /\ ClosedInv)'
    BY <2>3 DEF ConnectReject
  <2>4. ASSUME AwaitConnected(p) \/ AwaitTerminal(p) \/ AwaitGet(p)
               \/ AwaitTimeout(p)
        PROVE  (StatusInv /\ ClosedInv)'
    BY <2>4 DEF AwaitConnected, AwaitTerminal, AwaitGet, AwaitTimeout
  <2>5. ASSUME ConnectCloseRejected(p) \/ KillCloseClient(p) \/ ReconnCloseOld(p)
               \/ KillAllCloseClient(p)
        PROVE  (StatusInv /\ ClosedInv)'
    BY <2>5 DEF ConnectCloseRejected, KillCloseClient, ReconnCloseOld, KillAllCloseClient
  <2>6. ASSUME KillNotFound(p) \/ KillAllDone(p)
        PROVE  (StatusInv /\ ClosedInv)'
    BY <2>6 DEF KillNotFound, KillAllDone
  <2>7. ASSUME KillRemove(p)
        PROVE  (StatusInv /\ ClosedInv)'
    BY <2>7 DEF KillRemove
  <2>8. ASSUME KillClose(p)
        PROVE  (StatusInv /\ ClosedInv)'
    BY <2>8 DEF KillClose
  <2>9. ASSUME UseLookup(p)
        PROVE  (StatusInv /\ ClosedInv)'
    BY <2>9 DEF UseLookup
  <2>10. ASSUME UseSetDefault(p)
         PROVE  (StatusInv /\ ClosedInv)'
    BY <2>10 DEF UseSetDefault
  <2>11. ASSUME UseStatus(p)
         PROVE  (StatusInv /\ ClosedInv)'
    BY <2>11 DEF UseStatus
  <2>12. ASSUME ReconnLock(p)
         PROVE  (StatusInv /\ ClosedInv)'
    BY <2>12 DEF ReconnLock
  <2>13. ASSUME ReconnTakeOld(p)
         PROVE  (StatusInv /\ ClosedInv)'
    BY <2>13 DEF ReconnTakeOld
  <2>14. ASSUME ReconnRecheck(p)
         PROVE  (StatusInv /\ ClosedInv)'
    BY <2>14 DEF ReconnRecheck
  <2>15. ASSUME ReconnAdopt(p)
         PROVE  (StatusInv /\ ClosedInv)'
    BY <2>15 DEF ReconnAdopt
  <2>16. ASSUME ReconnStateChanged(p)
         PROVE  (StatusInv /\ ClosedInv)'
    BY <2>16 DEF ReconnStateChanged
  <2>17. ASSUME ReconnReject(p)
         PROVE  (StatusInv /\ ClosedInv)'
    BY <2>17 DEF ReconnReject
  <2>18. ASSUME NEW o \in Objs, KillAllClose(p, o)
         PROVE  (StatusInv /\ ClosedInv)'
    BY <2>18 DEF KillAllClose
  <2>. QED
    BY ONLY <1>3, <2>1, <2>2, <2>3, <2>4, <2>5, <2>6, <2>7, <2>8, <2>9, <2>10, <2>11,
        <2>12, <2>13, <2>14, <2>15, <2>16, <2>17, <2>18
    DEF Step
<1>4. ASSUME NEW p \in Procs, Return(p)  PROVE  (StatusInv /\ ClosedInv)'
  BY <1>4 DEF Return
<1>5. ASSUME NEW c \in Clients, Break(c) \/ ProbeTimeout(c)
      PROVE  (StatusInv /\ ClosedInv)'
  BY <1>5 DEF Break, ProbeTimeout
<1>6. ASSUME NEW n \in Names, NEW h \in Hosts, NEW o \in Objs,
             RegisterOfflineSession(n, h, o)
      PROVE  (StatusInv /\ ClosedInv)'
  BY <1>6 DEF RegisterOfflineSession
<1>7. ASSUME RestoreDone
      PROVE  (StatusInv /\ ClosedInv)'
  BY <1>7 DEF RestoreDone
<1>8. CASE UNCHANGED vars
  BY <1>8 DEF vars
<1>. QED
  BY ONLY [Next]_vars, <1>1, <1>2, <1>3, <1>4, <1>5, <1>6, <1>7, <1>8
  DEF Next, Inside, Network, Restore

(* A registered session is connecting only while its ConnectSSH dials or adopts. *)
LEMMA ConnectingStep ==
    ASSUME TypeOK, ProcInv, RegistryInv, ConnectingInv, [Next]_vars
    PROVE  ConnectingInv'
<1>. USE NoneAssumption, HostAssumption, AutoNameAssumption
     DEF TypeOK, ProcInv, RegistryInv, ConnectingInv, regVars, objVars,
         procVars, srvVars, LocalHost, InFlight, Live, Statuses, ConnState, LockedPcs,
         SSHPcs, HoldPcs, Pcs, Unborn, IsLocal, Registered, Goto, SetStatus, SetName,
         SetObj, Hold, Begins, Request, Lookup, Unregister, Register, Detach, Adopt,
         ConnectName, CloseHeld, HasGoClient
<1>1. ASSUME NEW p \in Procs, Call(p)  PROVE  ConnectingInv'
  <2>1. ASSUME NEW n \in Names \cup {None}, NEW h \in Hosts,
               ConnectConnected(p, n, h) \/ ConnectInFlight(p, n, h)
               \/ ConnectOffline(p, n, h) \/ ConnectCollision(p, n, h)
        PROVE  ConnectingInv'
    <3>1. CASE ConnectConnected(p, n, h)
      BY <3>1 DEF ConnectConnected
    <3>2. CASE ConnectInFlight(p, n, h)
      BY <3>2 DEF ConnectInFlight
    <3>3. CASE ConnectOffline(p, n, h)
      BY <3>3 DEF ConnectOffline
    <3>4. CASE ConnectCollision(p, n, h)
      BY <3>4 DEF ConnectCollision
    <3>. QED
      BY ONLY <2>1, <3>1, <3>2, <3>3, <3>4
  <2>2. ASSUME NEW n \in Names \cup {None}, NEW h \in Hosts, NEW o \in Objs,
               ConnectNew(p, n, h, o)
        PROVE  ConnectingInv'
    BY <2>2 DEF ConnectNew
  <2>3. ASSUME NEW n \in Names,
               ConnectLocalExisting(p, n) \/ ConnectLocalCollision(p, n)
        PROVE  ConnectingInv'
    <3>1. CASE ConnectLocalExisting(p, n)
      BY <3>1 DEF ConnectLocalExisting
    <3>2. CASE ConnectLocalCollision(p, n)
      BY <3>2 DEF ConnectLocalCollision
    <3>. QED
      BY ONLY <2>3, <3>1, <3>2
  <2>4. ASSUME NEW n \in Names, NEW o \in Objs, ConnectLocalNew(p, n, o)
        PROVE  ConnectingInv'
    BY <2>4 DEF ConnectLocalNew
  <2>5. ASSUME NEW n \in Names, Reconnect(p, n)
        PROVE  ConnectingInv'
    BY <2>5 DEF Reconnect
  <2>6. ASSUME NEW n \in Names \cup {None}, KillBegin(p, n) \/ UseBegin(p, n)
        PROVE  ConnectingInv'
    BY <2>6 DEF KillBegin, UseBegin
  <2>7. ASSUME KillAllBegin(p)
        PROVE  ConnectingInv'
    BY <2>7 DEF KillAllBegin
  <2>. QED
    BY ONLY <1>1, <2>1, <2>2, <2>3, <2>4, <2>5, <2>6, <2>7
    DEF Call
<1>2. ASSUME NEW p \in Procs, DialStep(p)  PROVE  ConnectingInv'
  <2>1. ASSUME NEW c \in Clients, ConnectDialOk(p, c) \/ ReconnDialOk(p, c)
        PROVE  ConnectingInv'
    BY <2>1 DEF ConnectDialOk, ReconnDialOk
  <2>2. ASSUME ConnectDialFail(p)
        PROVE  ConnectingInv'
    BY <2>2 DEF ConnectDialFail
  <2>3. ASSUME ReconnDialFail(p)
        PROVE  ConnectingInv'
    BY <2>3 DEF ReconnDialFail
  <2>. QED
    BY ONLY <1>2, <2>1, <2>2, <2>3
    DEF DialStep
<1>3. ASSUME NEW p \in Procs, Step(p)  PROVE  ConnectingInv'
  <2>1. ASSUME ConnectUnregister(p)
        PROVE  ConnectingInv'
    BY <2>1 DEF ConnectUnregister
  <2>2. ASSUME ConnectAdopt(p)
        PROVE  ConnectingInv'
    BY <2>2 DEF ConnectAdopt
  <2>3. ASSUME ConnectReject(p)
        PROVE  ConnectingInv'
    BY <2>3 DEF ConnectReject
  <2>4. ASSUME AwaitConnected(p) \/ AwaitTerminal(p) \/ AwaitGet(p)
               \/ AwaitTimeout(p)
        PROVE  ConnectingInv'
    BY <2>4 DEF AwaitConnected, AwaitTerminal, AwaitGet, AwaitTimeout
  <2>5. ASSUME ConnectCloseRejected(p) \/ KillCloseClient(p) \/ ReconnCloseOld(p)
               \/ KillAllCloseClient(p)
        PROVE  ConnectingInv'
    BY <2>5 DEF ConnectCloseRejected, KillCloseClient, ReconnCloseOld, KillAllCloseClient
  <2>6. ASSUME KillNotFound(p) \/ KillAllDone(p)
        PROVE  ConnectingInv'
    BY <2>6 DEF KillNotFound, KillAllDone
  <2>7. ASSUME KillRemove(p)
        PROVE  ConnectingInv'
    BY <2>7 DEF KillRemove
  <2>8. ASSUME KillClose(p)
        PROVE  ConnectingInv'
    BY <2>8 DEF KillClose
  <2>9. ASSUME UseLookup(p)
        PROVE  ConnectingInv'
    BY <2>9 DEF UseLookup
  <2>10. ASSUME UseSetDefault(p)
         PROVE  ConnectingInv'
    BY <2>10 DEF UseSetDefault
  <2>11. ASSUME UseStatus(p)
         PROVE  ConnectingInv'
    BY <2>11 DEF UseStatus
  <2>12. ASSUME ReconnLock(p)
         PROVE  ConnectingInv'
    BY <2>12 DEF ReconnLock
  <2>13. ASSUME ReconnTakeOld(p)
         PROVE  ConnectingInv'
    BY <2>13 DEF ReconnTakeOld
  <2>14. ASSUME ReconnRecheck(p)
         PROVE  ConnectingInv'
    BY <2>14 DEF ReconnRecheck
  <2>15. ASSUME ReconnAdopt(p)
         PROVE  ConnectingInv'
    BY <2>15 DEF ReconnAdopt
  <2>16. ASSUME ReconnStateChanged(p)
         PROVE  ConnectingInv'
    BY <2>16 DEF ReconnStateChanged
  <2>17. ASSUME ReconnReject(p)
         PROVE  ConnectingInv'
    BY <2>17 DEF ReconnReject
  <2>18. ASSUME NEW o \in Objs, KillAllClose(p, o)
         PROVE  ConnectingInv'
    BY <2>18 DEF KillAllClose
  <2>. QED
    BY ONLY <1>3, <2>1, <2>2, <2>3, <2>4, <2>5, <2>6, <2>7, <2>8, <2>9, <2>10, <2>11,
        <2>12, <2>13, <2>14, <2>15, <2>16, <2>17, <2>18
    DEF Step
<1>4. ASSUME NEW p \in Procs, Return(p)  PROVE  ConnectingInv'
  BY <1>4 DEF Return
<1>5. ASSUME NEW c \in Clients, Break(c) \/ ProbeTimeout(c)
      PROVE  ConnectingInv'
  BY <1>5 DEF Break, ProbeTimeout
<1>6. ASSUME NEW n \in Names, NEW h \in Hosts, NEW o \in Objs,
             RegisterOfflineSession(n, h, o)
      PROVE  ConnectingInv'
  BY <1>6 DEF RegisterOfflineSession
<1>7. ASSUME RestoreDone
      PROVE  ConnectingInv'
  BY <1>7 DEF RestoreDone
<1>8. CASE UNCHANGED vars
  BY <1>8 DEF vars
<1>. QED
  BY ONLY [Next]_vars, <1>1, <1>2, <1>3, <1>4, <1>5, <1>6, <1>7, <1>8
  DEF Next, Inside, Network, Restore

(* A registered session is reconnecting only while a call holds its reconnMu. *)
LEMMA ReconnectingStep ==
    ASSUME TypeOK, ProcInv, RegistryInv, LockInv, ReconnectingInv, [Next]_vars
    PROVE  ReconnectingInv'
<1>. USE NoneAssumption, HostAssumption, AutoNameAssumption
     DEF TypeOK, ProcInv, RegistryInv, LockInv, ReconnectingInv, regVars, objVars,
         procVars, srvVars, LocalHost, InFlight, Live, Statuses, ConnState, LockedPcs,
         SSHPcs, HoldPcs, Pcs, Unborn, IsLocal, Registered, Goto, SetStatus, SetName,
         SetObj, Hold, Begins, Request, Lookup, Unregister, Register, Detach, Adopt,
         ConnectName, CloseHeld, HasGoClient
<1>1. ASSUME NEW p \in Procs, Call(p)  PROVE  ReconnectingInv'
  <2>1. ASSUME NEW n \in Names \cup {None}, NEW h \in Hosts,
               ConnectConnected(p, n, h) \/ ConnectInFlight(p, n, h)
               \/ ConnectOffline(p, n, h) \/ ConnectCollision(p, n, h)
        PROVE  ReconnectingInv'
    BY <2>1 DEF ConnectConnected, ConnectInFlight, ConnectOffline, ConnectCollision
  <2>2. ASSUME NEW n \in Names \cup {None}, NEW h \in Hosts, NEW o \in Objs,
               ConnectNew(p, n, h, o)
        PROVE  ReconnectingInv'
    BY <2>2 DEF ConnectNew
  <2>3. ASSUME NEW n \in Names,
               ConnectLocalExisting(p, n) \/ ConnectLocalCollision(p, n)
        PROVE  ReconnectingInv'
    BY <2>3 DEF ConnectLocalExisting, ConnectLocalCollision
  <2>4. ASSUME NEW n \in Names, NEW o \in Objs, ConnectLocalNew(p, n, o)
        PROVE  ReconnectingInv'
    BY <2>4 DEF ConnectLocalNew
  <2>5. ASSUME NEW n \in Names, Reconnect(p, n)
        PROVE  ReconnectingInv'
    BY <2>5 DEF Reconnect
  <2>6. ASSUME NEW n \in Names \cup {None}, KillBegin(p, n) \/ UseBegin(p, n)
        PROVE  ReconnectingInv'
    BY <2>6 DEF KillBegin, UseBegin
  <2>7. ASSUME KillAllBegin(p)
        PROVE  ReconnectingInv'
    BY <2>7 DEF KillAllBegin
  <2>. QED
    BY ONLY <1>1, <2>1, <2>2, <2>3, <2>4, <2>5, <2>6, <2>7
    DEF Call
<1>2. ASSUME NEW p \in Procs, DialStep(p)  PROVE  ReconnectingInv'
  <2>1. ASSUME NEW c \in Clients, ConnectDialOk(p, c) \/ ReconnDialOk(p, c)
        PROVE  ReconnectingInv'
    BY <2>1 DEF ConnectDialOk, ReconnDialOk
  <2>2. ASSUME ConnectDialFail(p)
        PROVE  ReconnectingInv'
    BY <2>2 DEF ConnectDialFail
  <2>3. ASSUME ReconnDialFail(p)
        PROVE  ReconnectingInv'
    BY <2>3 DEF ReconnDialFail
  <2>. QED
    BY ONLY <1>2, <2>1, <2>2, <2>3
    DEF DialStep
<1>3. ASSUME NEW p \in Procs, Step(p)  PROVE  ReconnectingInv'
  <2>1. ASSUME ConnectUnregister(p)
        PROVE  ReconnectingInv'
    BY <2>1 DEF ConnectUnregister
  <2>2. ASSUME ConnectAdopt(p)
        PROVE  ReconnectingInv'
    BY <2>2 DEF ConnectAdopt
  <2>3. ASSUME ConnectReject(p)
        PROVE  ReconnectingInv'
    BY <2>3 DEF ConnectReject
  <2>4. ASSUME AwaitConnected(p) \/ AwaitTerminal(p) \/ AwaitGet(p)
               \/ AwaitTimeout(p)
        PROVE  ReconnectingInv'
    BY <2>4 DEF AwaitConnected, AwaitTerminal, AwaitGet, AwaitTimeout
  <2>5. ASSUME ConnectCloseRejected(p) \/ KillCloseClient(p) \/ ReconnCloseOld(p)
               \/ KillAllCloseClient(p)
        PROVE  ReconnectingInv'
    <3>1. CASE ConnectCloseRejected(p)
      BY <3>1 DEF ConnectCloseRejected
    <3>2. CASE KillCloseClient(p)
      BY <3>2 DEF KillCloseClient
    <3>3. CASE ReconnCloseOld(p)
      BY <3>3 DEF ReconnCloseOld
    <3>4. CASE KillAllCloseClient(p)
      BY <3>4 DEF KillAllCloseClient
    <3>. QED
      BY ONLY <2>5, <3>1, <3>2, <3>3, <3>4
  <2>6. ASSUME KillNotFound(p) \/ KillAllDone(p)
        PROVE  ReconnectingInv'
    BY <2>6 DEF KillNotFound, KillAllDone
  <2>7. ASSUME KillRemove(p)
        PROVE  ReconnectingInv'
    BY <2>7 DEF KillRemove
  <2>8. ASSUME KillClose(p)
        PROVE  ReconnectingInv'
    BY <2>8 DEF KillClose
  <2>9. ASSUME UseLookup(p)
        PROVE  ReconnectingInv'
    BY <2>9 DEF UseLookup
  <2>10. ASSUME UseSetDefault(p)
         PROVE  ReconnectingInv'
    BY <2>10 DEF UseSetDefault
  <2>11. ASSUME UseStatus(p)
         PROVE  ReconnectingInv'
    BY <2>11 DEF UseStatus
  <2>12. ASSUME ReconnLock(p)
         PROVE  ReconnectingInv'
    BY <2>12 DEF ReconnLock
  <2>13. ASSUME ReconnTakeOld(p)
         PROVE  ReconnectingInv'
    BY <2>13 DEF ReconnTakeOld
  <2>14. ASSUME ReconnRecheck(p)
         PROVE  ReconnectingInv'
    BY <2>14 DEF ReconnRecheck
  <2>15. ASSUME ReconnAdopt(p)
         PROVE  ReconnectingInv'
    BY <2>15 DEF ReconnAdopt
  <2>16. ASSUME ReconnStateChanged(p)
         PROVE  ReconnectingInv'
    BY <2>16 DEF ReconnStateChanged
  <2>17. ASSUME ReconnReject(p)
         PROVE  ReconnectingInv'
    BY <2>17 DEF ReconnReject
  <2>18. ASSUME NEW o \in Objs, KillAllClose(p, o)
         PROVE  ReconnectingInv'
    BY <2>18 DEF KillAllClose
  <2>. QED
    BY ONLY <1>3, <2>1, <2>2, <2>3, <2>4, <2>5, <2>6, <2>7, <2>8, <2>9, <2>10, <2>11,
        <2>12, <2>13, <2>14, <2>15, <2>16, <2>17, <2>18
    DEF Step
<1>4. ASSUME NEW p \in Procs, Return(p)  PROVE  ReconnectingInv'
  BY <1>4 DEF Return
<1>5. ASSUME NEW c \in Clients, Break(c) \/ ProbeTimeout(c)
      PROVE  ReconnectingInv'
  BY <1>5 DEF Break, ProbeTimeout
<1>6. ASSUME NEW n \in Names, NEW h \in Hosts, NEW o \in Objs,
             RegisterOfflineSession(n, h, o)
      PROVE  ReconnectingInv'
  BY <1>6 DEF RegisterOfflineSession
<1>7. ASSUME RestoreDone
      PROVE  ReconnectingInv'
  BY <1>7 DEF RestoreDone
<1>8. CASE UNCHANGED vars
  BY <1>8 DEF vars
<1>. QED
  BY ONLY [Next]_vars, <1>1, <1>2, <1>3, <1>4, <1>5, <1>6, <1>7, <1>8
  DEF Next, Inside, Network, Restore

-------------------------------------------------------------------------------
(* IInv is an invariant. *)

LEMMA InitIInv == Init => IInv
<1>. USE NoneAssumption DEF LockedPcs, SSHPcs, HoldPcs, Pcs, Statuses, ConnState, Live,
       Unborn, IsLocal, Registered, LocalHost
<1>. SUFFICES ASSUME Init  PROVE  IInv
  OBVIOUS
<1>. USE DEF Init
<1>0. restoring \in BOOLEAN
  OBVIOUS
<1>1. TypeOK
  BY <1>0 DEF TypeOK
<1>2. ProcInv /\ RegistryInv /\ LockInv
  BY DEF ProcInv, RegistryInv, LockInv
<1>3. OwnerInv /\ StatusInv /\ ClosedInv /\ ConnectingInv /\ ReconnectingInv
  BY DEF OwnerInv, StatusInv, ClosedInv, ConnectingInv, ReconnectingInv
<1>. QED
  BY <1>1, <1>2, <1>3 DEF IInv

LEMMA NextIInv == IInv /\ [Next]_vars => IInv'
<1>. SUFFICES ASSUME IInv, [Next]_vars  PROVE  IInv'
  OBVIOUS
<1>. USE DEF IInv
<1>1. TypeOK' /\ ProcInv' /\ RegistryInv' /\ LockInv'
  BY ONLY IInv, [Next]_vars, ControlStep, RegistryStep
<1>2. OwnerInv' /\ StatusInv' /\ ClosedInv'
  BY ONLY IInv, [Next]_vars, OwnerStep, StatusStep
<1>3. ConnectingInv' /\ ReconnectingInv'
  BY ONLY IInv, [Next]_vars, ConnectingStep, ReconnectingStep
<1>. QED
  BY ONLY <1>1, <1>2, <1>3 DEF IInv

(* The labels of ConnectSSH and reconnectSSH, reconnMu, the registry, the   *)
(* statuses and the clients agree in every reachable state.                 *)
THEOREM Inductive == Spec => []IInv
<1>. QED
  BY ONLY InitIInv, NextIInv, PTL DEF Spec

(* Every variable of the manager keeps its type. *)
THEOREM TypeCorrect == Spec => []TypeOK
<1>1. IInv => TypeOK
  BY DEF IInv
<1>. QED
  BY <1>1, Inductive, PTL

(* No client of Manager.connect leaks and none is shared: each one nobody   *)
(* has closed has exactly one owner, a session or a call.                   *)
THEOREM EveryClientHasOneOwner == Spec => []OneOwner
<1>1. ASSUME IInv  PROVE  OneOwner
  <2>. USE NoneAssumption, <1>1 DEF IInv, Live
  <2>. SUFFICES ASSUME NEW c \in Clients
                PROVE  /\ conn[c] \in Live => \E x \in Owners(c) : Owners(c) = {x}
                       /\ conn[c] = "unused" => Owners(c) = {}
    BY DEF OneOwner
  <2>1. ASSUME NEW o \in Objs, client[o] = c  PROVE  Owners(c) = {o}
    BY <2>1 DEF Owners, OwnerInv
  <2>2. ASSUME NEW p \in Procs, cl[p] = c  PROVE  Owners(c) = {p}
    BY <2>2 DEF Owners, OwnerInv
  <2>3. conn[c] = "unused" => Owners(c) = {}
    BY DEF Owners, OwnerInv
  <2>4. conn[c] \in Live => (\E o \in Objs : client[o] = c) \/ (\E p \in Procs : cl[p] = c)
    BY DEF OwnerInv
  <2>. QED
    BY ONLY <2>1, <2>2, <2>3, <2>4
<1>. QED
  BY <1>1, Inductive, PTL

(* Once Kill or KillAll has closed a session it never again has a client,   *)
(* shows as connected or is registered, whatever dial was in flight.        *)
THEOREM KilledSessionsStayDead == Spec => []KilledStaysDead
<1>1. IInv => KilledStaysDead
  BY DEF IInv, ClosedInv, KilledStaysDead, Registered
<1>. QED
  BY <1>1, Inductive, PTL

(* An SSH session whose status is connected has a client. *)
THEOREM ConnectedSessionsHaveClients == Spec => []ConnectedHasClient
<1>1. IInv => ConnectedHasClient
  BY DEF IInv, StatusInv, ConnectedHasClient
<1>. QED
  BY <1>1, Inductive, PTL

(* The connecting and reconnecting states AwaitClient waits on have, for a  *)
(* registered session, a call at work on them.                              *)
THEOREM InFlightSessionsHaveDialers == Spec => []InFlightHasDialer
<1>1. ASSUME IInv  PROVE  InFlightHasDialer
  <2>. USE NoneAssumption, <1>1 DEF IInv, LockedPcs
  <2>1. ASSUME NEW o \in Objs, Registered(o), status[o] = "connecting"
        PROVE  \E p \in Procs : obj[p] = o /\ pc[p] \in {"dial", "adopt"} \cup LockedPcs
    BY <2>1 DEF ConnectingInv
  <2>2. ASSUME NEW o \in Objs, Registered(o), status[o] = "reconnecting"
        PROVE  \E p \in Procs : obj[p] = o /\ pc[p] \in {"dial", "adopt"} \cup LockedPcs
    <3>1. reconnMu[o] \in Procs
      BY <2>2 DEF ReconnectingInv, TypeOK
    <3>. QED
      BY <3>1 DEF LockInv
  <2>. QED
    BY <2>1, <2>2 DEF InFlightHasDialer, InFlight
<1>. QED
  BY <1>1, Inductive, PTL

(* A client is attached only to a session that has none: no dial, reconnect *)
(* or connect overwrites the client another call attached.                  *)
THEOREM NoClientIsOverwritten == Spec => AdoptOverNothing
<1>1. ASSUME IInv, [Next]_vars  PROVE  [NoOverwrite]_vars
  <2>. USE <1>1 DEF IInv, TypeOK, regVars, objVars, procVars, srvVars, Register
  <2>1. ASSUME NEW p \in Procs, NEW o \in Objs, client[o] = None,
               client' = [client EXCEPT ![o] = cl[p]]
        PROVE  NoOverwrite
    BY <2>1 DEF NoOverwrite
  <2>2. ASSUME NEW o \in Objs, client' = [client EXCEPT ![o] = None]  PROVE  NoOverwrite
    BY <2>2 DEF NoOverwrite
  <2>3. ASSUME NEW p \in Procs, ConnectAdopt(p) \/ ReconnAdopt(p)  PROVE  NoOverwrite
    <3>1. obj[p] \in Objs /\ client[obj[p]] = None
      BY <2>3 DEF ConnectAdopt, ReconnAdopt, ProcInv, StatusInv, SSHPcs,
         LockedPcs
    <3>. QED
      BY <2>1, <2>3, <3>1 DEF ConnectAdopt, ReconnAdopt, Adopt
  <2>4. ASSUME NEW p \in Procs, KillClose(p) \/ ReconnTakeOld(p)  PROVE  NoOverwrite
    <3>1. obj[p] \in Objs
      BY <2>4 DEF KillClose, ReconnTakeOld, ProcInv, SSHPcs, LockedPcs
    <3>. QED
      BY <2>2, <2>4, <3>1 DEF KillClose, ReconnTakeOld, Detach
  <2>5. ASSUME NEW p \in Procs, NEW o \in Objs, KillAllClose(p, o)  PROVE  NoOverwrite
    BY <2>2, <2>5 DEF KillAllClose, Detach
  <2>6. ASSUME NEW p \in Procs, Call(p)  PROVE  client' = client
    BY <2>6 DEF Call, ConnectConnected, ConnectInFlight, ConnectOffline,
       ConnectCollision, ConnectNew, ConnectLocalExisting, ConnectLocalCollision,
       ConnectLocalNew, Reconnect, KillBegin, UseBegin, KillAllBegin
  <2>7. ASSUME NEW p \in Procs, DialStep(p)  PROVE  client' = client
    BY <2>7 DEF DialStep, ConnectDialOk, ReconnDialOk, ConnectDialFail, ReconnDialFail
  <2>8. ASSUME NEW p \in Procs,
               \/ ConnectUnregister(p) \/ ConnectReject(p) \/ ConnectCloseRejected(p)
               \/ AwaitConnected(p) \/ AwaitTerminal(p) \/ AwaitGet(p) \/ AwaitTimeout(p)
               \/ KillNotFound(p) \/ KillRemove(p) \/ KillCloseClient(p)
               \/ KillAllCloseClient(p) \/ KillAllDone(p)
               \/ UseLookup(p) \/ UseSetDefault(p) \/ UseStatus(p) \/ ReconnLock(p)
               \/ ReconnCloseOld(p) \/ ReconnRecheck(p) \/ ReconnStateChanged(p)
               \/ ReconnReject(p)
        PROVE  client' = client
    BY <2>8 DEF ConnectUnregister, ConnectReject, ConnectCloseRejected, AwaitConnected,
       AwaitTerminal, AwaitGet, AwaitTimeout, KillNotFound, KillRemove, KillCloseClient,
       KillAllCloseClient, KillAllDone, UseLookup, UseSetDefault, UseStatus, ReconnLock,
       ReconnCloseOld, ReconnRecheck, ReconnStateChanged, ReconnReject, CloseHeld
  <2>9. ASSUME Network \/ Restore \/ (\E p \in Procs : Return(p))  PROVE  client' = client
    BY <2>9 DEF Network, Break, ProbeTimeout, Restore, RegisterOfflineSession,
       RestoreDone, Return
  <2>10. client' = client => NoOverwrite
    BY DEF NoOverwrite
  <2>11. CASE Next
    BY ONLY <2>11, <2>3, <2>4, <2>5, <2>6, <2>7, <2>8, <2>9, <2>10 DEF Next, Inside, Step
  <2>. QED
    BY ONLY <2>11, [Next]_vars
<1>. QED
  BY ONLY <1>1, Inductive, PTL DEF Spec, AdoptOverNothing

(* Only use leaves a default that names no session: every other step of the *)
(* manager that removes a session or sets the default keeps them together.  *)
THEOREM StaleDefaultsComeFromUse == Spec => DefaultGoesStaleByUse
<1>. DEFINE ByUse == \E p \in Procs : pc[p] = "useDefault" /\ pc'[p] # "useDefault"
            Kept == DefaultIsRegistered /\ ~DefaultIsRegistered' => ByUse
<1>1. ASSUME IInv, [Next]_vars  PROVE  [Kept]_vars
  <2>. USE <1>1 DEF IInv, TypeOK, regVars, objVars, procVars, srvVars
  <2>1. UNCHANGED regVars => Kept
    BY DEF DefaultIsRegistered, Lookup
  <2>2. ASSUME NEW n \in Names, defaultName' = n, sessions' = sessions, sessions[n] # None
        PROVE  Kept
    BY <2>2 DEF DefaultIsRegistered, Lookup
  <2>3. ASSUME NEW n \in Names, NEW o \in Objs, defaultName' \in {n, defaultName},
               sessions' = [sessions EXCEPT ![n] = o]
        PROVE  Kept
    BY <2>3, NoneAssumption DEF DefaultIsRegistered, Lookup
  <2>4. ASSUME NEW n, Unregister(n)  PROVE  Kept
    BY <2>4 DEF Unregister, DefaultIsRegistered, Lookup
  <2>5. \A n \in Names \cup {None}, h \in Hosts : ConnectName(n, h) \in Names
    BY AutoNameAssumption DEF ConnectName
  <2>6. ASSUME NEW p \in Procs, NEW n \in Names \cup {None}, NEW h \in Hosts,
               ConnectConnected(p, n, h) \/ ConnectInFlight(p, n, h) \/ ConnectOffline(p, n, h)
        PROVE  Kept
    BY <2>2, <2>5, <2>6 DEF ConnectConnected, ConnectInFlight, ConnectOffline
  <2>7. ASSUME NEW p \in Procs, NEW n \in Names \cup {None}, NEW h \in Hosts,
               NEW o \in Objs, ConnectNew(p, n, h, o)
        PROVE  Kept
    BY <2>3, <2>5, <2>7 DEF ConnectNew, Register
  <2>8. ASSUME NEW p \in Procs, NEW n \in Names, ConnectLocalExisting(p, n)  PROVE  Kept
    BY <2>2, <2>8 DEF ConnectLocalExisting
  <2>9. ASSUME NEW p \in Procs, NEW n \in Names, NEW o \in Objs, ConnectLocalNew(p, n, o)
        PROVE  Kept
    BY <2>3, <2>9 DEF ConnectLocalNew, Register
  <2>10. ASSUME NEW p \in Procs, KillAllBegin(p)  PROVE  Kept
    BY <2>10 DEF KillAllBegin, DefaultIsRegistered
  <2>11. ASSUME NEW n \in Names, NEW h \in Hosts, NEW o \in Objs,
                RegisterOfflineSession(n, h, o)
         PROVE  Kept
    BY <2>3, <2>11 DEF RegisterOfflineSession, Register
  <2>12. ASSUME NEW p \in Procs, ConnectUnregister(p) \/ KillRemove(p)  PROVE  Kept
    BY <2>4, <2>12 DEF ConnectUnregister, KillRemove
  <2>13. ASSUME NEW p \in Procs, UseSetDefault(p)  PROVE  Kept
    BY <2>13 DEF UseSetDefault, Goto
  <2>14. ASSUME NEW p \in Procs, Call(p)  PROVE  Kept
    <3>1. ASSUME NEW n \in Names \cup {None}, NEW h \in Hosts, ConnectCollision(p, n, h)
          PROVE  UNCHANGED regVars
      BY <3>1 DEF ConnectCollision
    <3>2. ASSUME NEW n \in Names \cup {None}, KillBegin(p, n) \/ UseBegin(p, n)
          PROVE  UNCHANGED regVars
      BY <3>2 DEF KillBegin, UseBegin
    <3>3. ASSUME NEW n \in Names, ConnectLocalCollision(p, n) \/ Reconnect(p, n)
          PROVE  UNCHANGED regVars
      BY <3>3 DEF ConnectLocalCollision, Reconnect
    <3>. QED
      BY ONLY <2>14, p \in Procs, <2>1, <2>6, <2>7, <2>8, <2>9, <2>10, <3>1, <3>2, <3>3 DEF Call
  <2>15. ASSUME NEW p \in Procs, DialStep(p)  PROVE  UNCHANGED regVars
    BY <2>15 DEF DialStep, ConnectDialOk, ReconnDialOk, ConnectDialFail, ReconnDialFail
  <2>16. ASSUME NEW p \in Procs,
                \/ ConnectAdopt(p) \/ ConnectReject(p) \/ ConnectCloseRejected(p)
                \/ AwaitConnected(p) \/ AwaitTerminal(p) \/ AwaitGet(p) \/ AwaitTimeout(p)
                \/ KillNotFound(p) \/ KillClose(p) \/ KillCloseClient(p)
                \/ UseLookup(p) \/ UseStatus(p) \/ ReconnLock(p) \/ ReconnTakeOld(p)
                \/ ReconnCloseOld(p) \/ ReconnRecheck(p) \/ ReconnAdopt(p)
                \/ ReconnStateChanged(p) \/ ReconnReject(p)
                \/ (\E o \in Objs : KillAllClose(p, o))
                \/ KillAllCloseClient(p) \/ KillAllDone(p)
         PROVE  UNCHANGED regVars
    BY <2>16 DEF ConnectAdopt, ConnectReject, ConnectCloseRejected, AwaitConnected,
       AwaitTerminal, AwaitGet, AwaitTimeout, KillNotFound, KillClose, KillCloseClient,
       UseLookup, UseStatus, ReconnLock, ReconnTakeOld, ReconnCloseOld, ReconnRecheck,
       ReconnAdopt, ReconnStateChanged, ReconnReject, KillAllClose, KillAllCloseClient,
       KillAllDone, CloseHeld
  <2>17. ASSUME NEW p \in Procs, Step(p)  PROVE  Kept
    BY ONLY <2>17, p \in Procs, <2>1, <2>12, <2>13, <2>16 DEF Step
  <2>18. ASSUME Network \/ RestoreDone \/ (\E p \in Procs : Return(p))
         PROVE  UNCHANGED regVars
    BY <2>18 DEF Network, Break, ProbeTimeout, RestoreDone, Return
  <2>19. CASE Next
    BY ONLY <2>19, <2>1, <2>11, <2>14, <2>15, <2>17, <2>18 DEF Next, Inside, Restore
  <2>. QED
    BY ONLY <2>19, [Next]_vars
<1>. QED
  BY ONLY <1>1, Inductive, PTL DEF Spec, DefaultGoesStaleByUse

-------------------------------------------------------------------------------
(* The refinement: SessionManager implements ClientOwnership.  One lemma per *)
(* way in which a critical section touches clients shows that it is one      *)
(* abstract step; the step lemma sorts the actions into these ways.  What    *)
(* the abstract specification promises is then inherited.                    *)

(* A successful dial, by ConnectSSH or reconnectSSH. *)
LEMMA DialIsDial ==
    ASSUME TypeOK, OwnerInv, NEW p \in Procs, NEW c \in Clients,
           conn[c] = "unused", cl[p] = None,
           cl' = [cl EXCEPT ![p] = c], conn' = [conn EXCEPT ![c] = "open"],
           UNCHANGED <<client, closed>>
    PROVE  Own!Dial(c)
BY NoneAssumption DEF TypeOK, OwnerInv, Own!Dial, InTransit, GoneForGood

(* A session without a client, and not closed, adopts the one a call holds. *)
LEMMA GiveIsAttach ==
    ASSUME TypeOK, OwnerInv, NEW p \in Procs, NEW o \in Objs, NEW c \in Clients,
           client[o] = None, ~closed[o], cl[p] = c,
           client' = [client EXCEPT ![o] = c], cl' = [cl EXCEPT ![p] = None],
           UNCHANGED <<conn, closed>>
    PROVE  Own!Attach(o, c)
BY NoneAssumption DEF TypeOK, OwnerInv, Own!Attach, InTransit, GoneForGood

(* reconnectSSH takes the old client, if there is one. *)
LEMMA TakeIsDetach ==
    ASSUME TypeOK, OwnerInv, NEW p \in Procs, NEW o \in Objs, cl[p] = None,
           cl' = [cl EXCEPT ![p] = client[o]], client' = [client EXCEPT ![o] = None],
           UNCHANGED <<conn, closed>>
    PROVE  Own!Detach(o) \/ UNCHANGED Own!vars
BY NoneAssumption DEF TypeOK, OwnerInv, Own!Detach, Own!vars, InTransit, GoneForGood

(* Session.Close, called by Kill and KillAll. *)
LEMMA CloseIsRetire ==
    ASSUME TypeOK, OwnerInv, NEW p \in Procs, NEW o \in Objs, cl[p] = None,
           cl' = [cl EXCEPT ![p] = client[o]], client' = [client EXCEPT ![o] = None],
           closed' = [closed EXCEPT ![o] = TRUE], conn' = conn
    PROVE  Own!Retire(o)
BY NoneAssumption DEF TypeOK, OwnerInv, Own!Retire, InTransit, GoneForGood

(* Client.Close of a client a call has in hand. *)
LEMMA CloseIsClose ==
    ASSUME TypeOK, OwnerInv, NEW p \in Procs, NEW c \in Clients, cl[p] = c,
           cl' = [cl EXCEPT ![p] = None], conn' = [conn EXCEPT ![c] = "closed"],
           UNCHANGED <<client, closed>>
    PROVE  Own!Close(c)
BY NoneAssumption DEF TypeOK, OwnerInv, Own!Close, InTransit, GoneForGood

(* A connection that breaks, or that the probe closes under its session. *)
LEMMA NetworkIsStutter ==
    ASSUME TypeOK, OwnerInv, NEW c \in Clients, Break(c) \/ ProbeTimeout(c)
    PROVE  UNCHANGED Own!vars
BY NoneAssumption DEF TypeOK, OwnerInv, Own!vars, InTransit, GoneForGood, Break,
   ProbeTimeout, objVars, procVars

-------------------------------------------------------------------------------

(* A step that touches neither clients nor closed is a stutter. *)
LEMMA OtherIsStutter ==
    ASSUME UNCHANGED <<client, cl, conn, closed>>
    PROVE  UNCHANGED Own!vars
BY DEF Own!vars, InTransit, GoneForGood

(* Every step of the manager is a step or a stutter of ClientOwnership. *)
LEMMA StepRefines ==
    ASSUME IInv, [Next]_vars
    PROVE  [Own!Next]_(Own!vars)
<1>. USE DEF IInv, regVars, objVars, procVars, srvVars
<1>1. ASSUME NEW p \in Procs, Call(p)  PROVE  UNCHANGED Own!vars
  BY <1>1, OtherIsStutter DEF Call, ConnectConnected, ConnectInFlight, ConnectOffline,
     ConnectCollision, ConnectNew, ConnectLocalExisting, ConnectLocalCollision,
     ConnectLocalNew, Register, Reconnect, KillBegin, UseBegin, KillAllBegin
<1>2. ASSUME NEW p \in Procs, DialStep(p)  PROVE  [Own!Next]_(Own!vars)
  <2>1. ASSUME NEW c \in Clients, ConnectDialOk(p, c) \/ ReconnDialOk(p, c)
        PROVE  Own!Next
    <3>1. conn[c] = "unused" /\ cl[p] = None
      BY <2>1 DEF ConnectDialOk, ReconnDialOk, ProcInv, HoldPcs
    <3>2. Own!Dial(c)
      BY <2>1, <3>1, DialIsDial DEF ConnectDialOk, ReconnDialOk, Hold
    <3>. QED
      BY ONLY <3>2, c \in Clients DEF Own!Next
  <2>2. CASE ConnectDialFail(p) \/ ReconnDialFail(p)
    BY <2>2, OtherIsStutter DEF ConnectDialFail, ReconnDialFail
  <2>. QED
    BY ONLY <1>2, <2>1, <2>2 DEF DialStep
<1>3. ASSUME NEW p \in Procs, Step(p)  PROVE  [Own!Next]_(Own!vars)
  <2>1. CASE ConnectAdopt(p) \/ ReconnAdopt(p)
    <3>1. obj[p] \in Objs /\ client[obj[p]] = None /\ cl[p] # None /\ cl[p] \in Clients
      BY <2>1 DEF ConnectAdopt, ReconnAdopt, ProcInv, StatusInv, TypeOK, SSHPcs, LockedPcs,
         HoldPcs
    <3>2. ~closed[obj[p]]
      BY <2>1, <3>1 DEF ConnectAdopt, ReconnAdopt, ClosedInv
    <3>3. PICK o \in Objs, c \in Clients : o = obj[p] /\ c = cl[p]
      BY <3>1
    <3>4. Own!Attach(o, c)
      BY <2>1, <3>1, <3>2, <3>3, GiveIsAttach DEF ConnectAdopt, ReconnAdopt, Adopt, Hold
    <3>. QED
      BY ONLY <3>4, o \in Objs, c \in Clients DEF Own!Next
  <2>2. CASE \/ ConnectCloseRejected(p) \/ KillCloseClient(p) \/ ReconnCloseOld(p)
             \/ KillAllCloseClient(p) \/ ReconnReject(p)
    <3>1. cl[p] # None /\ cl[p] \in Clients
      BY <2>2 DEF ConnectCloseRejected, KillCloseClient, ReconnCloseOld,
         KillAllCloseClient, CloseHeld, ReconnReject, ProcInv, HoldPcs, TypeOK
    <3>2. PICK c \in Clients : c = cl[p]
      BY <3>1
    <3>3. Own!Close(c)
      BY <2>2, <3>2, CloseIsClose DEF ConnectCloseRejected, KillCloseClient,
         ReconnCloseOld, KillAllCloseClient, CloseHeld, ReconnReject, Hold
    <3>. QED
      BY ONLY <3>3, c \in Clients DEF Own!Next
  <2>3. CASE ReconnTakeOld(p)
    <3>1. obj[p] \in Objs /\ cl[p] = None
      BY <2>3 DEF ReconnTakeOld, ProcInv, HoldPcs, SSHPcs, LockedPcs
    <3>2. PICK o \in Objs : o = obj[p]
      BY <3>1
    <3>3. Own!Detach(o) \/ UNCHANGED Own!vars
      BY <2>3, <3>1, <3>2, TakeIsDetach DEF ReconnTakeOld, Hold
    <3>. QED
      BY ONLY <3>3, o \in Objs DEF Own!Next
  <2>4. CASE KillClose(p)
    <3>1. obj[p] \in Objs /\ cl[p] = None
      BY <2>4 DEF KillClose, ProcInv, HoldPcs
    <3>2. PICK o \in Objs : o = obj[p]
      BY <3>1
    <3>3. Own!Retire(o)
      BY <2>4, <3>1, <3>2, CloseIsRetire DEF KillClose, Detach, Hold
    <3>. QED
      BY ONLY <3>3, o \in Objs DEF Own!Next
  <2>5. ASSUME NEW o \in Objs, KillAllClose(p, o)  PROVE  Own!Next
    <3>1. cl[p] = None
      BY <2>5 DEF KillAllClose, ProcInv, HoldPcs
    <3>2. Own!Retire(o)
      BY <2>5, <3>1, CloseIsRetire DEF KillAllClose, Detach, Hold
    <3>. QED
      BY ONLY <3>2, o \in Objs DEF Own!Next
  <2>6. CASE \/ ConnectUnregister(p) \/ ConnectReject(p)
             \/ AwaitConnected(p) \/ AwaitTerminal(p) \/ AwaitGet(p) \/ AwaitTimeout(p)
             \/ KillNotFound(p) \/ KillRemove(p) \/ KillAllDone(p)
             \/ UseLookup(p) \/ UseSetDefault(p) \/ UseStatus(p)
             \/ ReconnLock(p) \/ ReconnRecheck(p) \/ ReconnStateChanged(p)
    BY <2>6, OtherIsStutter DEF ConnectUnregister, ConnectReject, AwaitConnected,
       AwaitTerminal, AwaitGet, AwaitTimeout, KillNotFound, KillRemove, KillAllDone,
       UseLookup, UseSetDefault, UseStatus, ReconnLock, ReconnRecheck, ReconnStateChanged
  <2>. QED
    BY ONLY <1>3, <2>1, <2>2, <2>3, <2>4, <2>5, <2>6 DEF Step
<1>4. ASSUME NEW p \in Procs, Return(p)  PROVE  UNCHANGED Own!vars
  BY <1>4, OtherIsStutter DEF Return
<1>5. ASSUME NEW c \in Clients, Break(c) \/ ProbeTimeout(c)  PROVE  UNCHANGED Own!vars
  BY <1>5, NetworkIsStutter
<1>6. ASSUME NEW n \in Names, NEW h \in Hosts, NEW o \in Objs, RegisterOfflineSession(n, h, o)
      PROVE  UNCHANGED Own!vars
  BY <1>6, OtherIsStutter DEF RegisterOfflineSession, Register
<1>7. CASE RestoreDone \/ UNCHANGED vars
  BY <1>7, OtherIsStutter DEF RestoreDone, vars
<1>. QED
  BY ONLY [Next]_vars, <1>1, <1>2, <1>3, <1>4, <1>5, <1>6, <1>7
  DEF Next, Inside, Network, Restore

(* The session manager implements ClientOwnership: seen from the clients,   *)
(* every behaviour of ConnectSSH, Reconnect, Use, Kill and KillAll is one   *)
(* of dials, attachments, detachments and closes.                           *)
THEOREM ManagerImplementsOwnership == Spec => OwnershipKept
<1>1. Init => Own!Init
  BY NoneAssumption DEF Init, Own!Init, InTransit, GoneForGood
<1>2. IInv /\ [Next]_vars => [Own!Next]_(Own!vars)
  BY StepRefines
<1>. QED
  BY ONLY <1>1, <1>2, Inductive, PTL DEF Spec, OwnershipKept, Own!Spec

(* Whatever order the five steps of ClientOwnership come in, a client is in *)
(* one place only: what the manager has to do about dials, adoptions and    *)
(* closes is enough.                                                        *)
THEOREM OnePlace == Own!Spec => [](Own!Types /\ Own!Exclusive)
<1>. DEFINE Inv == Own!Types /\ Own!Exclusive
<1>. USE NoneAssumption DEF Own!Types, Own!Exclusive, Own!Users
<1>1. Own!Init => Inv
  BY DEF Own!Init
<1>2. ASSUME Inv, [Own!Next]_(Own!vars)  PROVE  Inv'
  <2>. USE <1>2
  <2>1. ASSUME NEW c \in Clients, Own!Dial(c)  PROVE  Inv'
    BY <2>1 DEF Own!Dial
  <2>2. ASSUME NEW c \in Clients, Own!Close(c)  PROVE  Inv'
    BY <2>2 DEF Own!Close
  <2>3. ASSUME NEW c \in Clients, NEW s \in Objs, Own!Attach(s, c)  PROVE  Inv'
    BY <2>3 DEF Own!Attach
  <2>4. ASSUME NEW s \in Objs, Own!Detach(s)  PROVE  Inv'
    BY <2>4 DEF Own!Detach
  <2>5. ASSUME NEW s \in Objs, Own!Retire(s)  PROVE  Inv'
    BY <2>5 DEF Own!Retire
  <2>6. CASE UNCHANGED Own!vars
    BY <2>6 DEF Own!vars
  <2>. QED
    BY ONLY [Own!Next]_(Own!vars), <2>1, <2>2, <2>3, <2>4, <2>5, <2>6 DEF Own!Next
<1>. QED
  BY ONLY <1>1, <1>2, PTL DEF Own!Spec

(* So every client of the manager is in one place at any time: not dialled, *)
(* attached to one session, in the hands of a call, or closed for good.     *)
THEOREM ManagerKeepsClientsApart == Spec => []Own!Exclusive
BY OnePlace, ManagerImplementsOwnership, PTL DEF OwnershipKept
===============================================================================
