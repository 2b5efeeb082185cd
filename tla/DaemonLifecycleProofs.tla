------------------------- MODULE DaemonLifecycleProofs -------------------------
(* What DaemonLifecycle promises of a shutdown, for any number of daemons on *)
(* one socket path, of CLI processes and of sessions.                        *)
EXTENDS DaemonLifecycle, TLAPS

(* A daemon that has not been started is nowhere: its first step is Spawn.   *)
UnstartedInv ==
    \A d \in Daemons : dpc[d] = "off" => mpc[d] = "off" /\ spc[d] = "none"

DInv == TypeOK /\ UnstartedInv /\ NoHandlerAfterDrain /\ ExitsAfterShutdown

-------------------------------------------------------------------------------
(* Connections.                                                              *)

(* The part of TypeOK about connections.                                     *)
ConnTypes ==
    /\ at \in [CLIs -> Daemons \cup {None}]
    /\ conn \in [CLIs -> {"none", "queued", "accepting"} \cup HandlerStates]
    /\ copen \in [CLIs -> BOOLEAN] /\ sopen \in [CLIs -> BOOLEAN]
    /\ sent \in [CLIs -> BOOLEAN]
    /\ \A c \in CLIs : conn[c] = "none" => at[c] = None /\ ~sopen[c]

(* No daemon gets a handler.                                                 *)
NoNewHandler == \A d \in Daemons : Handlers(d)' \subseteq Handlers(d)

LEMMA DropConns ==
    ASSUME TypeOK, NEW C \in SUBSET CLIs, Drop(C)
    PROVE  ConnTypes' /\ NoNewHandler
<1>1. ConnTypes'
  BY DEF TypeOK, Drop, ConnTypes, HandlerStates
<1>2. NoNewHandler
  BY NoneAssumption DEF TypeOK, Drop, NoNewHandler, Handlers, HandlerStates
<1>. QED
  BY <1>1, <1>2

LEMMA AnswerConns ==
    ASSUME TypeOK, NEW c \in CLIs, conn[c] \in HandlerStates, Answer(c)
    PROVE  ConnTypes' /\ NoNewHandler
<1>1. CASE Drop({c})
  BY <1>1, DropConns
<1>2. CASE conn' = [conn EXCEPT ![c] = "reading"] /\ UNCHANGED <<at, copen, sopen, sent>>
  BY <1>2 DEF TypeOK, ConnTypes, NoNewHandler, Handlers, HandlerStates
<1>. QED
  BY <1>1, <1>2 DEF Answer

(* Only AcceptRegister makes a handler, and only before Stop has set         *)
(* s.stopping.                                                               *)
LEMMA ConnsStep ==
    ASSUME TypeOK, [Next]_dvars
    PROVE  /\ ConnTypes'
           /\ \/ NoNewHandler
              \/ \E d \in Daemons :
                    /\ ~Stopping(d) /\ spc' = spc /\ mpc' = mpc
                    /\ \A e \in Daemons \ {d} : Handlers(e)' \subseteq Handlers(e)
<1>. DEFINE Good == ConnTypes' /\ NoNewHandler
<1>0. ASSUME UNCHANGED connVars  PROVE  Good
  BY <1>0 DEF TypeOK, ConnTypes, NoNewHandler, Handlers, connVars
<1>1. ASSUME NEW d \in Daemons, StartStep(d), ~AcceptRegister(d)  PROVE  Good
  <2>1. ASSUME NEW c \in CLIs, Accept(d, c)  PROVE  Good
    BY <2>1 DEF Accept, Backlog, TypeOK, ConnTypes, NoNewHandler, Handlers, HandlerStates
  <2>2. CASE StartChmodFails(d)
    BY <2>2, DropConns DEF StartChmodFails, Backlog
  <2>3. CASE AcceptShutdown(d) \/ AcceptStopping(d)
    BY <2>3, DropConns DEF AcceptShutdown, AcceptStopping, Accepting
  <2>. QED
    BY <1>0, <1>1, <2>1, <2>2, <2>3 DEF StartStep, StartRemove, StartListen,
       StartAddressInUse, StartChmod, StartPublish, RestoreLoad, RestoreOne, RestoreEnd,
       AcceptError, AcceptGo
<1>2. ASSUME NEW d \in Daemons, AcceptRegister(d)
      PROVE  /\ ConnTypes' /\ ~Stopping(d) /\ spc' = spc /\ mpc' = mpc
             /\ \A e \in Daemons \ {d} : Handlers(e)' \subseteq Handlers(e)
  BY <1>2 DEF AcceptRegister, Accepting, Handlers, TypeOK, ConnTypes, HandlerStates
<1>3. ASSUME NEW d \in Daemons, StopStep(d)  PROVE  Good
  <2>1. CASE StopCloseListener(d)
    BY <1>0, <2>1, DropConns DEF StopCloseListener, Backlog
  <2>2. CASE StopDrainClose(d)
    BY <2>2 DEF StopDrainClose, TypeOK, ConnTypes, NoNewHandler, Handlers
  <2>. QED
    BY <1>0, <1>3, <2>1, <2>2 DEF StopStep, StopBegin, StopSetStopping, StopCollect,
       StopTruncate, StopWrite, StopKillAll, StopDrained, StopCleanup
<1>4. ASSUME NEW d \in Daemons, MainStep(d) \/ MainSignal(d) \/ Crash(d)  PROVE  Good
  BY <1>0, <1>4, DropConns DEF MainStep, MainStartFailed, MainStartReturned, MainExit,
     MainSignal, Crash, Die
<1>5. ASSUME NEW c \in CLIs, HandlerStep(c) \/ HandlerRun(c)  PROVE  Good
  <2>1. CASE HandlerRead(c)
    BY <2>1 DEF HandlerRead, TypeOK, ConnTypes, NoNewHandler, Handlers, HandlerStates
  <2>2. CASE HandlerEnd(c)
    BY <2>2, DropConns DEF HandlerEnd
  <2>. QED
    BY <1>5, <2>1, <2>2, AnswerConns DEF HandlerStep, HandlerStop, HandlerConnect,
       HandlerKill, HandlerRun, HandlerStates
<1>6. ASSUME NEW c \in CLIs, CommandBegin(c) \/ CLIStep(c)  PROVE  Good
  <2>1. ASSUME NEW from, Connect(c, from)  PROVE  Good
    BY <2>1 DEF Connect, Reachable, TypeOK, ConnTypes, NoNewHandler, Handlers, HandlerStates
  <2>2. CASE RpcEnd(c)
    BY <2>2 DEF RpcEnd, TypeOK, ConnTypes, NoNewHandler, Handlers
  <2>. QED
    BY <1>0, <1>6, <2>1, <2>2 DEF CLIStep, CommandBegin, DialOk, WaitOk, DialNotRunning,
       DialTooBroad, Spawn, SpawnFails, WaitTimeout
<1>7. CASE UNCHANGED dvars
  BY <1>0, <1>7 DEF dvars
<1>. QED
  BY <1>1, <1>2, <1>3, <1>4, <1>5, <1>6, <1>7 DEF Next

-------------------------------------------------------------------------------
LEMMA TypesStep == TypeOK /\ [Next]_dvars => TypeOK'
<1>. SUFFICES ASSUME TypeOK, [Next]_dvars  PROVE  TypeOK'
  OBVIOUS
<1>. DEFINE Rest ==
       /\ path \in Daemons \cup {None} /\ tight \in BOOLEAN
       /\ file \subseteq Names /\ torn \in BOOLEAN
       /\ dpc \in [Daemons -> DPcs] /\ spc \in [Daemons -> SPcs]
       /\ mpc \in [Daemons -> {"off", "select", "stop", "exited", "crashed"}]
       /\ listening \in [Daemons -> BOOLEAN] /\ bound \in [Daemons -> BOOLEAN]
       /\ asked \in [Daemons -> BOOLEAN]
       /\ mem \in [Daemons -> SUBSET Names] /\ left \in [Daemons -> SUBSET Names]
       /\ snap \in [Daemons -> SUBSET Names] /\ killed \in [Daemons -> SUBSET Names]
       /\ cpc \in [CLIs -> {"idle", "dial", "spawn", "wait", "rpc"}]
       /\ cmd \in [CLIs -> Commands \cup {None}]
<1>1. SUFFICES Rest'
  BY ConnsStep DEF TypeOK, ConnTypes
<1>2. Rest
  BY DEF TypeOK
<1>. USE DEF fileVars, daemonVars, stateVars, cliVars, DGoto, SGoto, CGoto, DPcs, SPcs
<1>3. ASSUME NEW d \in Daemons, StartStep(d)  PROVE  Rest'
  <2>1. CASE StartRemove(d) \/ StartListen(d) \/ StartAddressInUse(d)
             \/ StartChmod(d) \/ StartChmodFails(d) \/ StartPublish(d)
    BY <1>2, <2>1 DEF StartRemove, StartListen, StartAddressInUse, StartChmod,
       StartChmodFails, StartPublish
  <2>2. CASE RestoreLoad(d) \/ (\E n \in Names : RestoreOne(d, n)) \/ RestoreEnd(d)
    BY <1>2, <2>2 DEF RestoreLoad, RestoreOne, RestoreEnd
  <2>3. CASE (\E c \in CLIs : Accept(d, c)) \/ AcceptError(d) \/ AcceptGo(d)
             \/ AcceptShutdown(d) \/ AcceptRegister(d) \/ AcceptStopping(d)
    BY <1>2, <2>3 DEF Accept, AcceptError, AcceptGo, AcceptShutdown, AcceptRegister,
       AcceptStopping
  <2>. QED
    BY <1>3, <2>1, <2>2, <2>3 DEF StartStep
<1>4. ASSUME NEW d \in Daemons, StopStep(d)  PROVE  Rest'
  <2>1. CASE StopBegin(d) \/ StopSetStopping(d) \/ StopCloseListener(d)
    BY <1>2, <2>1 DEF StopBegin, StopSetStopping, StopCloseListener
  <2>2. CASE StopCollect(d)
    BY <1>2, <2>2 DEF StopCollect
  <2>3. CASE StopTruncate(d) \/ StopWrite(d)
    BY <1>2, <2>3 DEF StopTruncate, StopWrite
  <2>4. CASE StopKillAll(d)
    BY <1>2, <2>4 DEF StopKillAll
  <2>5. CASE StopDrainClose(d) \/ StopDrained(d) \/ StopCleanup(d)
    BY <1>2, <2>5 DEF StopDrainClose, StopDrained, StopCleanup
  <2>. QED
    BY <1>4, <2>1, <2>2, <2>3, <2>4, <2>5 DEF StopStep
<1>5. ASSUME NEW d \in Daemons, MainStep(d) \/ MainSignal(d) \/ Crash(d)  PROVE  Rest'
  BY <1>2, <1>5 DEF MainStep, MainStartFailed, MainStartReturned, MainExit, MainSignal,
     Crash, Die
<1>6. ASSUME NEW c \in CLIs, HandlerStep(c) \/ HandlerRun(c)  PROVE  Rest'
  <2>1. CASE HandlerRead(c) \/ HandlerEnd(c) \/ HandlerRun(c) \/ HandlerStop(c)
    BY <1>2, <2>1 DEF HandlerRead, HandlerEnd, HandlerRun, HandlerStop
  <2>2. ASSUME NEW n \in Names, HandlerConnect(c, n)  PROVE  Rest'
    BY <1>2, <2>2 DEF HandlerConnect
  <2>3. ASSUME NEW n \in Names, HandlerKill(c, n)  PROVE  Rest'
    BY <1>2, <2>3 DEF HandlerKill
  <2>. QED
    BY <1>6, <2>1, <2>2, <2>3 DEF HandlerStep
<1>7. ASSUME NEW c \in CLIs, CommandBegin(c) \/ CLIStep(c)  PROVE  Rest'
  BY <1>2, <1>7 DEF CLIStep, CommandBegin, DialOk, WaitOk, Connect, DialNotRunning,
     DialTooBroad, Spawn, SpawnFails, WaitTimeout, RpcEnd
<1>8. CASE UNCHANGED dvars
  BY <1>2, <1>8 DEF dvars
<1>. QED
  BY <1>3, <1>4, <1>5, <1>6, <1>7, <1>8 DEF Next

(* Where the three threads of a daemon can go: only a live daemon moves, a   *)
(* daemon ends by failing to start, by Stop or by a crash, and Stop reaches  *)
(* cleanup only by finding no handler.                                       *)
LEMMA ThreadSteps ==
    ASSUME TypeOK, [Next]_dvars, NEW d \in Daemons
    PROVE  \/ UNCHANGED <<dpc[d], mpc[d], spc[d]>>
           \/ dpc[d] = "off" /\ dpc'[d] = "remove" /\ mpc'[d] = "select" /\ spc'[d] = spc[d]
           \/ Live(d) /\ dpc'[d] # "off" /\ UNCHANGED <<mpc[d], spc[d]>>
           \/ /\ Live(d) /\ UNCHANGED <<mpc[d], dpc[d]>>
              /\ spc'[d] \in {"cleanup", "done"} =>
                    spc[d] \in {"cleanup", "done"} \/ Handlers(d) = {}
           \/ /\ Live(d) /\ UNCHANGED <<dpc[d], spc[d]>>
              /\ mpc'[d] = "exited" => dpc[d] = "failed" \/ spc[d] = "done"
<1>. USE DEF TypeOK, fileVars, daemonVars, stateVars, connVars, cliVars
<1>. USE DEF DGoto, SGoto, CGoto, Live
<1>1. ASSUME NEW e \in Daemons, StartStep(e)
      PROVE  /\ UNCHANGED <<mpc, spc>>
             /\ dpc' = dpc \/ (Live(e) /\ \E l \in DPcs \ {"off"} : dpc' = [dpc EXCEPT ![e] = l])
  BY <1>1 DEF StartStep, StartRemove, StartListen, StartAddressInUse, StartChmod,
     StartChmodFails, StartPublish, RestoreLoad, RestoreOne, RestoreEnd, Accept, AcceptError,
     AcceptGo, AcceptShutdown, AcceptRegister, AcceptStopping, DPcs
<1>2. ASSUME NEW e \in Daemons, StopStep(e)
      PROVE  /\ UNCHANGED <<mpc, dpc>> /\ Live(e)
             /\ \/ spc' = spc
                \/ \E l \in SPcs : /\ spc' = [spc EXCEPT ![e] = l]
                                   /\ l = "cleanup" => Handlers(e) = {}
                                   /\ l = "done" => spc[e] = "cleanup"
  BY <1>2 DEF StopStep, StopBegin, StopSetStopping, StopCloseListener, StopCollect,
     StopTruncate, StopWrite, StopKillAll, StopDrainClose, StopDrained, StopCleanup, SPcs
<1>3. ASSUME NEW e \in Daemons, MainStep(e) \/ MainSignal(e) \/ Crash(e)
      PROVE  /\ UNCHANGED <<dpc, spc>> /\ Live(e)
             /\ \E l \in {"stop", "exited", "crashed"} :
                   /\ mpc' = [mpc EXCEPT ![e] = l]
                   /\ l = "exited" => dpc[e] = "failed" \/ spc[e] = "done"
  BY <1>3 DEF MainStep, MainStartFailed, MainStartReturned, MainExit, MainSignal, Crash, Die
<1>4. ASSUME NEW c \in CLIs, HandlerStep(c) \/ HandlerRun(c)  PROVE  UNCHANGED <<dpc, mpc, spc>>
  BY <1>4 DEF HandlerStep, HandlerRead, HandlerEnd, HandlerStop, HandlerConnect,
     HandlerKill, HandlerRun
<1>5. ASSUME NEW c \in CLIs, CommandBegin(c) \/ CLIStep(c)
      PROVE  /\ spc' = spc
             /\ \/ UNCHANGED <<dpc, mpc>>
                \/ \E e \in Daemons : /\ dpc[e] = "off"
                                      /\ dpc' = [dpc EXCEPT ![e] = "remove"]
                                      /\ mpc' = [mpc EXCEPT ![e] = "select"]
  BY <1>5 DEF CLIStep, CommandBegin, DialOk, WaitOk, Connect, DialNotRunning,
     DialTooBroad, Spawn, SpawnFails, WaitTimeout, RpcEnd
<1>6. CASE \E e \in Daemons : StartStep(e)
  BY <1>1, <1>6
<1>7. CASE \E e \in Daemons : StopStep(e)
  BY <1>2, <1>7
<1>8. CASE \E e \in Daemons : MainStep(e) \/ MainSignal(e) \/ Crash(e)
  BY <1>3, <1>8
<1>9. CASE \E c \in CLIs : CommandBegin(c) \/ CLIStep(c)
  BY <1>5, <1>9
<1>10. CASE UNCHANGED dvars
  BY <1>10 DEF dvars
<1>. QED
  BY <1>4, <1>6, <1>7, <1>8, <1>9, <1>10 DEF Next

LEMMA InitDInv == Init => DInv
<1>. SUFFICES ASSUME Init  PROVE  DInv
  OBVIOUS
<1>1. TypeOK
  BY DEF Init, TypeOK, DPcs, SPcs
<1>2. UnstartedInv /\ NoHandlerAfterDrain /\ ExitsAfterShutdown
  BY DEF Init, UnstartedInv, NoHandlerAfterDrain, ExitsAfterShutdown, Live
<1>. QED
  BY <1>1, <1>2 DEF DInv

LEMMA DInvStep == DInv /\ [Next]_dvars => DInv'
<1>. SUFFICES ASSUME DInv, [Next]_dvars  PROVE  DInv'
  OBVIOUS
<1>1. TypeOK /\ TypeOK'
  BY TypesStep DEF DInv
<1>2. UnstartedInv'
  BY <1>1, ThreadSteps DEF DInv, UnstartedInv, Live
<1>3. NoHandlerAfterDrain'
  <2>. SUFFICES ASSUME NEW d \in Daemons, Live(d)', spc'[d] \in {"cleanup", "done"}
       PROVE  Handlers(d)' = {}
    BY DEF NoHandlerAfterDrain
  <2>1. Handlers(d) = {}
    BY <1>1, ThreadSteps DEF DInv, UnstartedInv, NoHandlerAfterDrain, Live
  <2>2. CASE NoNewHandler
    BY <2>1, <2>2 DEF NoNewHandler
  <2>3. ASSUME NEW e \in Daemons, ~Stopping(e), spc' = spc,
               \A f \in Daemons \ {e} : Handlers(f)' \subseteq Handlers(f)
        PROVE  Handlers(d)' = {}
    BY <2>1, <2>3 DEF Stopping
  <2>. QED
    BY <1>1, <2>2, <2>3, ConnsStep
<1>4. ExitsAfterShutdown'
  BY <1>1, ThreadSteps DEF DInv, UnstartedInv, ExitsAfterShutdown, Live
<1>. QED
  BY <1>1, <1>2, <1>3, <1>4 DEF DInv

-------------------------------------------------------------------------------
(* The inductive invariant of daemons and the CLIs that start and stop them. *)
THEOREM LifecycleInductive == Spec => []DInv
  BY InitDInv, DInvStep, PTL DEF Spec

(* Every variable of the daemon and of the CLI processes keeps its type, and *)
(* a connection whose handler has returned from handleConn is closed.        *)
THEOREM LifecycleTypes == Spec => []TypeOK
<1>1. DInv => TypeOK
  BY DEF DInv
<1>. QED
  BY LifecycleInductive, <1>1, PTL

(* Once Server.Stop has drained the handlers none appears again: acceptMu    *)
(* and the second look at s.stopping close the window in the accept loop.    *)
THEOREM DrainIsFinal == Spec => []NoHandlerAfterDrain
<1>1. DInv => NoHandlerAfterDrain
  BY DEF DInv
<1>. QED
  BY LifecycleInductive, <1>1, PTL

(* runDaemon returns only when Start has failed or Stop has finished,        *)
(* whoever asked for it: state saved, handlers drained, socket removed.      *)
THEOREM DaemonsExitAfterStop == Spec => []ExitsAfterShutdown
<1>1. DInv => ExitsAfterShutdown
  BY DEF DInv
<1>. QED
  BY LifecycleInductive, <1>1, PTL
===============================================================================
