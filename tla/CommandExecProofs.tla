--------------------------- MODULE CommandExecProofs ---------------------------
(* What CommandExec promises of an exec request, for every set of requests,  *)
(* any amount of output and any size of the pipes.                           *)
EXTENDS CommandExec, FiniteSetTheorems, TLAPS

Writing == {"lock", "header", "payload"}
WireSet == [half : {"header", "payload"}, of : Streams \cup {"end"}]

(* Which goroutines run at which label of the handler.                       *)
PhaseInv ==
    /\ req = None <=> pc = "idle"
    /\ pc \in {"idle", "start", "password", "end", "replied"} => gpc = "off" /\ done = None
    /\ done # None => gpc = "off"
    /\ gpc # "copying" => \A s \in Streams : cpc[s] = "off"
    /\ result # None <=> pc \in {"end", "replied"}
    /\ pc \in {"idle", "start"} \/ gpc = "start" => holds = {}
    /\ pc = "password" \/ gpc \notin {"off", "start"} => "shell" \in holds

(* A process that is writing runs and shares the pipes; two of them may      *)
(* overrun the bound on the output by one chunk.                             *)
PipeInv ==
    /\ proc["shell"] = "running" => "shell" \in holds
    /\ \A q \in ProcIds : wants[q] # None => proc[q] = "running" /\ q \in holds
    /\ \A q \in ProcIds, s \in Streams : wants[q] = s => written[s] <= MaxOut
    /\ \A s \in Streams : wants["shell"] = s /\ wants["child"] = s => written[s] < MaxOut

(* A frame is in progress exactly while a copying goroutine is between its   *)
(* header and its payload, or the CLI went away there.                       *)
WireInv ==
    /\ wire \in Seq(WireSet)
    /\ \A s \in Streams : cpc[s] = "payload" =>
          Len(wire) > 0 /\ wire[Len(wire)] = Half("header", s)
    /\ conn = "open" /\ Len(wire) > 0 /\ wire[Len(wire)].half = "header" =>
          \E s \in Streams : cpc[s] = "payload"

(* A chunk read from a pipe has been sent, or its goroutine is about to.     *)
CountInv ==
    (req = None \/ req.mode = "stream") /\ conn = "open" => \A s \in Streams :
        got[s] = IF cpc[s] \in Writing THEN Sent(s) + 1 ELSE Sent(s)

(* Nobody is left to write to the pipes.                                     *)
Quiet ==
    "shell" \in holds /\ \A q \in holds : proc[q] # "running"

(* A goroutine that stopped reading has read everything, unless the CLI or   *)
(* the SSH channel went away.                                                *)
DrainedInv ==
    conn = "open" /\ channel # "closed" => \A s \in Streams :
        \/ gpc \in {"copying", "waiting"} /\ cpc[s] = "off"
        \/ done = "exit" \/ result = "exit"
        => Quiet /\ got[s] = written[s]

EInv == TypeOK /\ PhaseInv /\ PipeInv /\ WireInv /\ WellFramed /\ CountInv /\ DrainedInv

-------------------------------------------------------------------------------
USE NoneAssumption, BoundsAssumption, RequestsAssumption
    DEF procVars, goVars, Streams, ProcIds, Streaming, Local, Cut, Half, EndOfFile,
        StartProcess, Return, Finish, CGoto, Phases, Writing, Quiet, PasswordRefused

(* The command and its child.                                                *)
ProcessStep ==
    \/ ShellForks \/ \E q \in ProcIds : ProcWritten(q) \/ ProcExits(q)
    \/ \E q \in ProcIds, s \in Streams : ProcWrites(q, s)

(* A step that writes nothing sends nothing.                                 *)
LEMMA SentSame == ASSUME UNCHANGED wire, NEW s \in Streams  PROVE  Sent(s)' = Sent(s)
  BY DEF Sent

(* WriteMessage appends to the connection: the payloads of a stream grow by  *)
(* one when it is theirs.                                                    *)
LEMMA SentAppend ==
    ASSUME WireInv, NEW s \in Streams, NEW w \in WireSet, wire' = Append(wire, w)
    PROVE  /\ Sent(s) \in Nat
           /\ Sent(s)' = IF w = Half("payload", s) THEN Sent(s) + 1 ELSE Sent(s)
<1>. DEFINE D == {i \in 1..Len(wire) : wire[i] = Half("payload", s)}
            E == {i \in 1..Len(wire') : wire'[i] = Half("payload", s)}
<1>1. wire \in Seq(WireSet) /\ Len(wire) \in Nat
  BY DEF WireInv, WireSet
<1>2. IsFiniteSet(D) /\ Cardinality(D) \in Nat
  <2>1. IsFiniteSet(1..Len(wire))
    BY <1>1, FS_Interval
  <2>2. D \in SUBSET (1..Len(wire))
    OBVIOUS
  <2>. QED
    BY <2>1, <2>2, FS_Subset, FS_CardinalityType
<1>3. /\ Len(wire') = Len(wire) + 1 /\ wire'[Len(wire) + 1] = w
      /\ \A i \in 1..Len(wire) : wire'[i] = wire[i]
  BY <1>1
<1>4. E = IF w = Half("payload", s) THEN D \cup {Len(wire) + 1} ELSE D
  BY <1>1, <1>3
<1>5. Cardinality(E) = IF w = Half("payload", s) THEN Cardinality(D) + 1 ELSE Cardinality(D)
  <2>1. Len(wire) + 1 \notin D
    BY <1>1
  <2>2. Cardinality(D \cup {Len(wire) + 1}) = Cardinality(D) + 1
    BY <1>2, <2>1, FS_AddElement
  <2>. QED
    BY <1>4, <2>2
<1>. QED
  BY <1>2, <1>5 DEF Sent

(* The end frame of sendStreamEnd on the connection.                         *)
LEMMA ReplyWire ==
    ASSUME WireInv, wire' = wire \o <<Half("header", "end"), Half("payload", "end")>>
    PROVE  /\ wire' \in Seq(WireSet) /\ Len(wire') = Len(wire) + 2
           /\ wire'[Len(wire) + 1] = Half("header", "end")
           /\ wire'[Len(wire) + 2] = Half("payload", "end")
           /\ \A i \in 1..Len(wire) : wire'[i] = wire[i]
           /\ \A s \in Streams : Sent(s)' = Sent(s)
<1>1. /\ wire \in Seq(WireSet)
      /\ Half("header", "end") \in WireSet /\ Half("payload", "end") \in WireSet
  BY DEF WireInv, WireSet
<1>. DEFINE a == Half("header", "end")
            b == Half("payload", "end")
<1>2. <<a, b>> \in Seq(WireSet) /\ Len(<<a, b>>) = 2 /\ <<a, b>>[1] = a /\ <<a, b>>[2] = b
  BY <1>1
<1>. HIDE DEF a, b
<1>3. /\ wire' \in Seq(WireSet) /\ Len(wire') = Len(wire) + 2
      /\ wire'[Len(wire) + 1] = a /\ wire'[Len(wire) + 2] = b
      /\ \A i \in 1..Len(wire) : wire'[i] = wire[i]
  BY <1>1, <1>2 DEF a, b
<1>4. \A s \in Streams : a # Half("payload", s) /\ b # Half("payload", s)
  BY DEF a, b
<1>5. ASSUME NEW s \in Streams
      PROVE  {i \in 1..Len(wire') : wire'[i] = Half("payload", s)}
             = {i \in 1..Len(wire) : wire[i] = Half("payload", s)}
  BY <1>1, <1>3, <1>4
<1>. QED
  BY <1>3, <1>5 DEF a, b, Sent

(* The mutex, the pipes and every other variable keep their types.           *)
LEMMA TypeOKStep == ASSUME EInv, [Next]_evars  PROVE  TypeOK'
<1>. USE DEF EInv, TypeOK, PhaseInv, PipeInv
<1>1. ASSUME UNCHANGED <<req, pc, gpc, done, cpc, mu, proc, wants, holds, written, got,
                         channel, conn, result>>
      PROVE  TypeOK'
  BY <1>1
<1>2. ASSUME NEW r \in Requests, Begin(r) \/ BeginNoSession(r)  PROVE  TypeOK'
  <2>1. CASE Begin(r) \/ BeginNoSession(r)
    BY <2>1 DEF Begin, BeginNoSession
  <2>. QED
    BY <1>2, <2>1
<1>3. ASSUME HandlerStep  PROVE  TypeOK'
  <2>1. CASE StreamStart
    BY <2>1 DEF StreamStart
  <2>2. CASE StreamStartFails \/ StreamPassword \/ StreamPasswordFails
    BY <2>2 DEF StreamStartFails, StreamPassword, StreamPasswordFails
  <2>3. CASE Receive \/ Drain
    BY <2>3 DEF Receive, Drain
  <2>4. CASE KillLocal
    BY <2>4 DEF KillLocal
  <2>5. CASE KillNothing
    BY <2>5 DEF KillNothing
  <2>6. CASE KillRemote
    BY <2>6 DEF KillRemote
  <2>7. CASE Reply
    BY <2>7 DEF Reply
  <2>. QED
    BY <1>3, <2>1, <2>2, <2>3, <2>4, <2>5, <2>6, <2>7 DEF HandlerStep
<1>4. ASSUME TimerFires  PROVE  TypeOK'
  BY <1>4 DEF TimerFires
<1>5. ASSUME GoStep  PROVE  TypeOK'
  <2>1. CASE GoStart
    BY <2>1 DEF GoStart
  <2>2. CASE GoStartFails \/ GoPassword \/ GoPasswordFails
    BY <2>2 DEF GoStartFails, GoPassword, GoPasswordFails
  <2>3. CASE GoFork
    BY <2>3 DEF GoFork
  <2>4. CASE GoJoin \/ GoWait
    BY <2>4 DEF GoJoin, GoWait
  <2>. QED
    BY <1>5, <2>1, <2>2, <2>3, <2>4 DEF GoStep
<1>6. ASSUME NEW s \in Streams, CopyStep(s)  PROVE  TypeOK'
  <2>1. CASE CopyRead(s)
    BY <2>1 DEF CopyRead
  <2>2. CASE CopyEnd(s)
    BY <2>2 DEF CopyEnd
  <2>3. CASE CopyLock(s)
    BY <2>3 DEF CopyLock
  <2>4. CASE CopyHeader(s)
    BY <2>4 DEF CopyHeader
  <2>5. CASE CopyPayload(s)
    BY <2>5 DEF CopyPayload
  <2>6. CASE CopyFails(s)
    BY <2>6 DEF CopyFails
  <2>. QED
    BY <1>6, <2>1, <2>2, <2>3, <2>4, <2>5, <2>6 DEF CopyStep
<1>7. ASSUME ProcessStep  PROVE  TypeOK'
  <2>1. CASE ShellForks
    BY <2>1 DEF ShellForks
  <2>2. ASSUME NEW q \in ProcIds, ProcWritten(q)  PROVE  TypeOK'
    BY <2>2 DEF ProcWritten
  <2>3. ASSUME NEW q \in ProcIds, ProcExits(q)  PROVE  TypeOK'
    BY <2>3 DEF ProcExits
  <2>4. ASSUME NEW q \in ProcIds, NEW s \in Streams, ProcWrites(q, s)  PROVE  TypeOK'
    BY <2>4 DEF ProcWrites
  <2>. QED
    BY <1>7, <2>1, <2>2, <2>3, <2>4 DEF ProcessStep
<1>8. ASSUME ChannelCloses \/ Disconnect  PROVE  TypeOK'
  <2>1. CASE ChannelCloses \/ Disconnect
    BY <2>1 DEF ChannelCloses, Disconnect
  <2>. QED
    BY <1>8, <2>1
<1>. QED
  BY <1>1, <1>2, <1>3, <1>4, <1>5, <1>6, <1>7, <1>8 DEF Next, ProcessStep, evars

(* The handler goes on only when its goroutine has delivered the result.     *)
LEMMA PhaseInvStep == ASSUME EInv, [Next]_evars  PROVE  PhaseInv'
<1>. USE DEF EInv, TypeOK, PhaseInv, PipeInv
<1>1. ASSUME UNCHANGED <<req, pc, gpc, done, cpc, result, holds>>  PROVE  PhaseInv'
  BY <1>1
<1>2. ASSUME NEW r \in Requests, Begin(r) \/ BeginNoSession(r)  PROVE  PhaseInv'
  <2>1. CASE Begin(r) \/ BeginNoSession(r)
    BY <2>1 DEF Begin, BeginNoSession
  <2>. QED
    BY <1>2, <2>1
<1>3. ASSUME HandlerStep  PROVE  PhaseInv'
  <2>1. CASE StreamStart
    BY <2>1 DEF StreamStart
  <2>2. CASE StreamStartFails \/ StreamPassword \/ StreamPasswordFails
    BY <2>2 DEF StreamStartFails, StreamPassword, StreamPasswordFails
  <2>3. CASE Receive \/ Drain
    BY <2>3 DEF Receive, Drain
  <2>4. CASE KillLocal
    BY <2>4 DEF KillLocal
  <2>5. CASE KillNothing
    BY <2>5 DEF KillNothing
  <2>6. CASE KillRemote
    BY <2>6 DEF KillRemote
  <2>7. CASE Reply
    BY <2>7 DEF Reply
  <2>. QED
    BY <1>3, <2>1, <2>2, <2>3, <2>4, <2>5, <2>6, <2>7 DEF HandlerStep
<1>4. ASSUME TimerFires  PROVE  PhaseInv'
  BY <1>4 DEF TimerFires
<1>5. ASSUME GoStep  PROVE  PhaseInv'
  <2>1. CASE GoStart
    BY <2>1 DEF GoStart
  <2>2. CASE GoStartFails \/ GoPassword \/ GoPasswordFails
    BY <2>2 DEF GoStartFails, GoPassword, GoPasswordFails
  <2>3. CASE GoFork
    BY <2>3 DEF GoFork
  <2>4. CASE GoJoin \/ GoWait
    BY <2>4 DEF GoJoin, GoWait
  <2>. QED
    BY <1>5, <2>1, <2>2, <2>3, <2>4 DEF GoStep
<1>6. ASSUME NEW s \in Streams, CopyStep(s)  PROVE  PhaseInv'
  <2>1. CASE CopyRead(s)
    BY <2>1 DEF CopyRead
  <2>2. CASE CopyEnd(s)
    BY <2>2 DEF CopyEnd
  <2>3. CASE CopyLock(s)
    BY <2>3 DEF CopyLock
  <2>4. CASE CopyHeader(s)
    BY <2>4 DEF CopyHeader
  <2>5. CASE CopyPayload(s)
    BY <2>5 DEF CopyPayload
  <2>6. CASE CopyFails(s)
    BY <2>6 DEF CopyFails
  <2>. QED
    BY <1>6, <2>1, <2>2, <2>3, <2>4, <2>5, <2>6 DEF CopyStep
<1>7. ASSUME ProcessStep  PROVE  PhaseInv'
  <2>1. CASE ShellForks
    BY <2>1 DEF ShellForks
  <2>. QED
    BY <1>1, <1>7, <2>1 DEF ProcessStep, ProcWritten, ProcExits, ProcWrites
<1>. QED
  BY <1>1, <1>2, <1>3, <1>4, <1>5, <1>6, <1>7 DEF Next, ProcessStep, evars,
     ChannelCloses, Disconnect

(* Who writes to a pipe.                                                     *)
LEMMA PipeInvStep == ASSUME EInv, [Next]_evars  PROVE  PipeInv'
<1>. USE DEF EInv, TypeOK, PhaseInv, PipeInv
<1>1. ASSUME UNCHANGED <<proc, wants, holds, written>>  PROVE  PipeInv'
  BY <1>1
<1>2. ASSUME HandlerStep  PROVE  PipeInv'
  <2>1. CASE StreamStart
    BY <2>1 DEF StreamStart
  <2>2. CASE KillLocal
    BY <2>2 DEF KillLocal
  <2>3. CASE KillRemote
    BY <2>3 DEF KillRemote
  <2>. QED
    BY <1>1, <1>2, <2>1, <2>2, <2>3 DEF HandlerStep, StreamStartFails, StreamPassword,
       StreamPasswordFails, Receive, KillNothing, Drain, Reply
<1>3. ASSUME GoStep  PROVE  PipeInv'
  <2>1. CASE GoStart
    BY <2>1 DEF GoStart
  <2>. QED
    BY <1>1, <1>3, <2>1 DEF GoStep, GoStartFails, GoPassword, GoPasswordFails, GoFork,
       GoJoin, GoWait
<1>4. ASSUME ProcessStep  PROVE  PipeInv'
  <2>1. CASE ShellForks
    BY <2>1 DEF ShellForks
  <2>2. ASSUME NEW q \in ProcIds, ProcWritten(q)  PROVE  PipeInv'
    BY <2>2 DEF ProcWritten
  <2>3. ASSUME NEW q \in ProcIds, ProcExits(q)  PROVE  PipeInv'
    BY <2>3 DEF ProcExits
  <2>4. ASSUME NEW q \in ProcIds, NEW s \in Streams, ProcWrites(q, s)  PROVE  PipeInv'
    BY <2>4 DEF ProcWrites
  <2>. QED
    BY <1>4, <2>1, <2>2, <2>3, <2>4 DEF ProcessStep
<1>. QED
  BY <1>1, <1>2, <1>3, <1>4 DEF Next, ProcessStep, evars, Begin, BeginNoSession,
     TimerFires, CopyStep, CopyRead, CopyEnd, CopyLock, CopyHeader, CopyPayload,
     CopyFails, ChannelCloses, Disconnect

(* chunkWriter.Write keeps the mutex from the header to the payload.         *)
LEMMA WireInvStep == ASSUME EInv, [Next]_evars  PROVE  WireInv'
<1>. USE DEF EInv, TypeOK, PhaseInv, WireInv, WireSet
<1>1. ASSUME UNCHANGED <<wire, cpc, conn>>  PROVE  WireInv'
  BY <1>1
<1>2. ASSUME HandlerStep  PROVE  WireInv'
  <2>1. CASE Reply
    <3>1. CASE conn # "open"
      BY <2>1, <3>1 DEF Reply
    <3>2. CASE conn = "open"
      <4>1. wire' = wire \o <<Half("header", "end"), Half("payload", "end")>>
        BY <2>1, <3>2 DEF Reply
      <4>. QED
        BY <2>1, <3>2, <4>1, ReplyWire DEF Reply
    <3>. QED
      BY <3>1, <3>2
  <2>. QED
    BY <1>1, <1>2, <2>1 DEF HandlerStep, StreamStart, StreamStartFails, StreamPassword,
       StreamPasswordFails, Receive, KillLocal, KillNothing, KillRemote, Drain
<1>3. ASSUME GoStep  PROVE  WireInv'
  <2>1. CASE GoFork
    BY <2>1 DEF GoFork
  <2>. QED
    BY <1>1, <1>3, <2>1 DEF GoStep, GoStart, GoStartFails, GoPassword, GoPasswordFails,
       GoJoin, GoWait
<1>4. ASSUME NEW s \in Streams, CopyStep(s)  PROVE  WireInv'
  <2>1. CASE CopyRead(s)
    BY <2>1 DEF CopyRead
  <2>2. CASE CopyEnd(s)
    BY <2>2 DEF CopyEnd
  <2>3. CASE CopyLock(s)
    BY <2>3 DEF CopyLock
  <2>4. CASE CopyHeader(s)
    BY <2>4 DEF CopyHeader
  <2>5. CASE CopyPayload(s)
    BY <2>5 DEF CopyPayload
  <2>6. CASE CopyFails(s)
    BY <2>6 DEF CopyFails
  <2>. QED
    BY <1>4, <2>1, <2>2, <2>3, <2>4, <2>5, <2>6 DEF CopyStep
<1>5. ASSUME ChannelCloses \/ Disconnect  PROVE  WireInv'
  <2>1. CASE Disconnect
    BY <2>1 DEF Disconnect
  <2>. QED
    BY <1>1, <1>5, <2>1 DEF ChannelCloses
<1>. QED
  BY <1>1, <1>2, <1>3, <1>4, <1>5 DEF Next, ProcessStep, evars, Begin, BeginNoSession,
     TimerFires, ShellForks, ProcWritten, ProcExits, ProcWrites

(* The sequence stays well framed when its last element and the new one fit. *)
LEMMA AppendFramed ==
    ASSUME WellFramed, wire \in Seq(WireSet), NEW w \in WireSet, wire' = Append(wire, w),
           Len(wire) > 0 =>
              (wire[Len(wire)].half = "header" <=> w = Half("payload", wire[Len(wire)].of))
    PROVE  WellFramed'
<1>1. /\ Len(wire) \in Nat /\ Len(wire') = Len(wire) + 1 /\ wire'[Len(wire) + 1] = w
      /\ \A i \in 1..Len(wire) : wire'[i] = wire[i]
  OBVIOUS
<1>. SUFFICES ASSUME NEW i \in 1..Len(wire') - 1
     PROVE  wire'[i].half = "header" <=> wire'[i+1] = Half("payload", wire'[i].of)
  BY DEF WellFramed
<1>2. CASE i < Len(wire)
  <2>1. i \in 1..Len(wire) - 1 /\ i \in 1..Len(wire) /\ i + 1 \in 1..Len(wire)
    BY <1>1, <1>2
  <2>2. wire'[i] = wire[i] /\ wire'[i+1] = wire[i+1]
    BY <1>1, <2>1
  <2>. QED
    BY <2>1, <2>2 DEF WellFramed
<1>3. CASE i = Len(wire)
  <2>1. wire'[i] = wire[Len(wire)] /\ wire'[i+1] = w /\ Len(wire) > 0
    BY <1>1, <1>3
  <2>. QED
    BY <2>1
<1>. QED
  BY <1>1, <1>2, <1>3

(* A header is followed by its payload.                                      *)
LEMMA WellFramedStep == ASSUME EInv, [Next]_evars  PROVE  WellFramed'
<1>. USE DEF EInv, TypeOK, PhaseInv, WireInv, WireSet, WellFramed
<1>1. ASSUME UNCHANGED <<wire>>  PROVE  WellFramed'
  BY <1>1
<1>2. ASSUME HandlerStep  PROVE  WellFramed'
  <2>1. CASE Reply
    <3>1. CASE conn # "open"
      BY <2>1, <3>1 DEF Reply
    <3>2. CASE conn = "open"
      <4>1. wire' = wire \o <<Half("header", "end"), Half("payload", "end")>>
        BY <2>1, <3>2 DEF Reply
      <4>2. wire \in Seq(WireSet) /\ Len(wire) \in Nat
        OBVIOUS
      <4>3. Len(wire) > 0 => wire[Len(wire)].half # "header"
        BY <2>1, <3>2 DEF Reply
      <4>4. ASSUME NEW i \in 1..Len(wire') - 1
            PROVE  wire'[i].half = "header" <=> wire'[i+1] = Half("payload", wire'[i].of)
        <5>1. CASE i \in 1..Len(wire) - 1
          <6>1. i \in 1..Len(wire) /\ i + 1 \in 1..Len(wire)
            BY <4>2, <5>1
          <6>. QED
            BY <4>1, <5>1, <6>1, ReplyWire
        <5>2. CASE i = Len(wire)
          BY <4>1, <4>2, <4>3, <5>2, ReplyWire
        <5>3. CASE i = Len(wire) + 1
          BY <4>1, <4>2, <5>3, ReplyWire
        <5>4. Len(wire') = Len(wire) + 2
          BY <4>1, ReplyWire
        <5>. QED
          BY <4>2, <5>1, <5>2, <5>3, <5>4
      <4>. QED
        BY <4>4
    <3>. QED
      BY <3>1, <3>2
  <2>. QED
    BY <1>1, <1>2, <2>1 DEF HandlerStep, StreamStart, StreamStartFails, StreamPassword,
       StreamPasswordFails, Receive, KillLocal, KillNothing, KillRemote, Drain
<1>3. ASSUME NEW s \in Streams, CopyStep(s)  PROVE  WellFramed'
  <2>1. CASE CopyHeader(s)
    <3>1. conn = "open" /\ cpc[s] = "header" /\ wire' = Append(wire, Half("header", s))
      BY <2>1 DEF CopyHeader
    <3>2. Len(wire) > 0 => wire[Len(wire)].half # "header"
      BY <3>1
    <3>3. Half("header", s) \in WireSet
          /\ Len(wire) > 0 => Half("header", s) # Half("payload", wire[Len(wire)].of)
      OBVIOUS
    <3>. QED
      BY <3>1, <3>2, <3>3, AppendFramed
  <2>2. CASE CopyPayload(s)
    <3>1. cpc[s] = "payload" /\ wire' = Append(wire, Half("payload", s))
      BY <2>2 DEF CopyPayload
    <3>2. Half("payload", s) \in WireSet
          /\ Len(wire) > 0 /\ wire[Len(wire)] = Half("header", s)
      BY <3>1
    <3>. QED
      BY <3>1, <3>2, AppendFramed
  <2>. QED
    BY <1>1, <1>3, <2>1, <2>2 DEF CopyStep, CopyRead, CopyEnd, CopyLock, CopyFails
<1>. QED
  BY <1>1, <1>2, <1>3 DEF Next, ProcessStep, evars, Begin, BeginNoSession, TimerFires,
     GoStep, GoStart, GoStartFails, GoPassword, GoPasswordFails, GoFork, GoJoin, GoWait,
     ShellForks, ProcWritten, ProcExits, ProcWrites, ChannelCloses, Disconnect

(* io.Copy sends what it reads.                                              *)
LEMMA CountInvStep == ASSUME EInv, [Next]_evars  PROVE  CountInv'
<1>. USE DEF EInv, TypeOK, PhaseInv, WireInv, CountInv
<1>1. ASSUME UNCHANGED <<req, conn, got, cpc, wire>>  PROVE  CountInv'
  BY <1>1, SentSame
<1>2. ASSUME NEW r \in Requests, Begin(r) \/ BeginNoSession(r)  PROVE  CountInv'
  <2>1. CASE Begin(r)
    BY <2>1, SentSame DEF Begin
  <2>2. CASE BeginNoSession(r)
    BY <2>2, SentSame DEF BeginNoSession
  <2>. QED
    BY <1>2, <2>1, <2>2
<1>3. ASSUME HandlerStep  PROVE  CountInv'
  <2>1. CASE Reply
    <3>1. CASE conn # "open"
      BY <2>1, <3>1, SentSame DEF Reply
    <3>2. CASE conn = "open"
      <4>1. wire' = wire \o <<Half("header", "end"), Half("payload", "end")>>
        BY <2>1, <3>2 DEF Reply
      <4>. QED
        BY <2>1, <3>2, <4>1, ReplyWire DEF Reply
    <3>. QED
      BY <3>1, <3>2
  <2>. QED
    BY <1>1, <1>3, <2>1 DEF HandlerStep, StreamStart, StreamStartFails, StreamPassword,
       StreamPasswordFails, Receive, KillLocal, KillNothing, KillRemote, Drain
<1>4. ASSUME GoStep  PROVE  CountInv'
  <2>1. CASE GoFork
    BY <2>1, SentSame DEF GoFork
  <2>. QED
    BY <1>1, <1>4, <2>1 DEF GoStep, GoStart, GoStartFails, GoPassword, GoPasswordFails,
       GoJoin, GoWait
<1>5. ASSUME NEW s \in Streams, CopyStep(s)  PROVE  CountInv'
  <2>1. CASE CopyRead(s)
    BY <2>1, SentSame DEF CopyRead
  <2>2. CASE CopyEnd(s)
    BY <2>2, SentSame DEF CopyEnd
  <2>3. CASE CopyLock(s)
    BY <2>3, SentSame DEF CopyLock
  <2>4. CASE CopyHeader(s)
    <3>1. Half("header", s) \in WireSet
      BY DEF WireSet
    <3>2. \A t \in Streams : Sent(t)' = Sent(t)
      BY <2>4, <3>1, SentAppend DEF CopyHeader
    <3>. QED
      BY <2>4, <3>2 DEF CopyHeader
  <2>5. CASE CopyPayload(s)
    <3>1. Half("payload", s) \in WireSet
      BY DEF WireSet
    <3>2. \A t \in Streams :
             Sent(t) \in Nat /\ Sent(t)' = IF t = s THEN Sent(t) + 1 ELSE Sent(t)
      BY <2>5, <3>1, SentAppend DEF CopyPayload
    <3>. QED
      BY <2>5, <3>2 DEF CopyPayload
  <2>6. CASE CopyFails(s)
    BY <2>6, SentSame DEF CopyFails
  <2>. QED
    BY <1>5, <2>1, <2>2, <2>3, <2>4, <2>5, <2>6 DEF CopyStep
<1>6. ASSUME ChannelCloses \/ Disconnect  PROVE  CountInv'
  <2>1. CASE Disconnect
    BY <2>1, SentSame DEF Disconnect
  <2>. QED
    BY <1>1, <1>6, <2>1 DEF ChannelCloses
<1>. QED
  BY <1>1, <1>2, <1>3, <1>4, <1>5, <1>6 DEF Next, ProcessStep, evars, TimerFires,
     ShellForks, ProcWritten, ProcExits, ProcWrites

(* A pipe at its end stays there: nobody writes to it again.                 *)
LEMMA DrainedInvStep == ASSUME EInv, [Next]_evars  PROVE  DrainedInv'
<1>. USE DEF EInv, TypeOK, PhaseInv, PipeInv, DrainedInv
<1>1. ASSUME UNCHANGED <<conn, channel, gpc, cpc, done, result, holds, proc, got,
                         written>>
      PROVE  DrainedInv'
  BY <1>1
<1>2. ASSUME NEW r \in Requests, Begin(r) \/ BeginNoSession(r)  PROVE  DrainedInv'
  <2>1. CASE Begin(r) \/ BeginNoSession(r)
    BY <2>1 DEF Begin, BeginNoSession
  <2>. QED
    BY <1>2, <2>1
<1>3. ASSUME HandlerStep  PROVE  DrainedInv'
  <2>1. CASE StreamStart
    BY <2>1 DEF StreamStart
  <2>2. CASE StreamStartFails \/ StreamPassword \/ StreamPasswordFails
    BY <2>2 DEF StreamStartFails, StreamPassword, StreamPasswordFails
  <2>3. CASE Receive \/ Drain
    BY <2>3 DEF Receive, Drain
  <2>4. CASE KillLocal
    BY <2>4 DEF KillLocal
  <2>5. CASE KillRemote
    BY <2>5 DEF KillRemote
  <2>6. CASE Reply
    BY <2>6 DEF Reply
  <2>. QED
    BY <1>1, <1>3, <2>1, <2>2, <2>3, <2>4, <2>5, <2>6 DEF HandlerStep, KillNothing
<1>4. ASSUME GoStep  PROVE  DrainedInv'
  <2>1. CASE GoStart
    BY <2>1 DEF GoStart
  <2>2. CASE GoStartFails \/ GoPassword \/ GoPasswordFails
    BY <2>2 DEF GoStartFails, GoPassword, GoPasswordFails
  <2>3. CASE GoFork
    BY <2>3 DEF GoFork
  <2>4. CASE GoJoin \/ GoWait
    BY <2>4 DEF GoJoin, GoWait
  <2>. QED
    BY <1>4, <2>1, <2>2, <2>3, <2>4 DEF GoStep
<1>5. ASSUME NEW s \in Streams, CopyStep(s)  PROVE  DrainedInv'
  <2>1. CASE CopyRead(s)
    BY <2>1 DEF CopyRead
  <2>2. CASE CopyEnd(s)
    BY <2>2 DEF CopyEnd
  <2>3. CASE CopyLock(s)
    BY <2>3 DEF CopyLock
  <2>4. CASE CopyHeader(s)
    BY <2>4 DEF CopyHeader
  <2>5. CASE CopyPayload(s)
    BY <2>5 DEF CopyPayload
  <2>6. CASE CopyFails(s)
    BY <2>6 DEF CopyFails
  <2>. QED
    BY <1>5, <2>1, <2>2, <2>3, <2>4, <2>5, <2>6 DEF CopyStep
<1>6. ASSUME ProcessStep  PROVE  DrainedInv'
  <2>1. CASE ShellForks
    BY <2>1 DEF ShellForks
  <2>2. ASSUME NEW q \in ProcIds, ProcWritten(q)  PROVE  DrainedInv'
    BY <2>2 DEF ProcWritten
  <2>3. ASSUME NEW q \in ProcIds, ProcExits(q)  PROVE  DrainedInv'
    BY <2>3 DEF ProcExits
  <2>. QED
    BY <1>1, <1>6, <2>1, <2>2, <2>3 DEF ProcessStep, ProcWrites
<1>7. ASSUME ChannelCloses \/ Disconnect  PROVE  DrainedInv'
  <2>1. CASE ChannelCloses \/ Disconnect
    BY <2>1 DEF ChannelCloses, Disconnect
  <2>. QED
    BY <1>7, <2>1
<1>. QED
  BY <1>1, <1>2, <1>3, <1>4, <1>5, <1>6, <1>7 DEF Next, ProcessStep, evars, TimerFires

LEMMA InitEInv == Init => EInv
<1>. SUFFICES ASSUME Init  PROVE  EInv
  OBVIOUS
<1>1. TypeOK /\ PhaseInv /\ PipeInv
  BY DEF Init, TypeOK, PhaseInv, PipeInv
<1>2. WireInv /\ WellFramed /\ DrainedInv
  BY DEF Init, WireInv, WellFramed, DrainedInv
<1>3. CountInv
  <2>1. ASSUME NEW s \in Streams  PROVE  Sent(s) = 0
    <3>1. {i \in 1..Len(wire) : wire[i] = Half("payload", s)} = {}
      BY DEF Init
    <3>. QED
      BY <3>1, FS_EmptySet DEF Sent
  <2>. QED
    BY <2>1 DEF Init, CountInv
<1>. QED
  BY <1>1, <1>2, <1>3 DEF EInv

-------------------------------------------------------------------------------
(* executor.go and the chunk writers keep EInv in every reachable state.     *)
THEOREM ExecInductive == Spec => []EInv
<1>1. EInv /\ [Next]_evars => EInv'
  BY TypeOKStep, PhaseInvStep, PipeInvStep, WireInvStep, WellFramedStep, CountInvStep,
     DrainedInvStep DEF EInv
<1>. QED
  BY InitEInv, <1>1, PTL DEF Spec

(* The chunk mutex is held exactly while a frame is being written, and a     *)
(* pipe is neither read beyond what was written nor filled beyond its size.  *)
THEOREM ExecTypes == Spec => []TypeOK
<1>. QED
  BY ExecInductive, PTL DEF EInv

(* The CLI reads whole frames: the mutex of the chunk writers covers both    *)
(* writes of WriteMessage, and the end frame waits for both goroutines.      *)
THEOREM FramesStayWhole == Spec => []WellFramed
<1>. QED
  BY ExecInductive, PTL DEF EInv

(* Drain and wg.Wait: no goroutine of the request outlives the reply.        *)
THEOREM EndFrameIsLast == Spec => []EndIsLast
<1>1. EInv => EndIsLast
  BY DEF EInv, PhaseInv, EndIsLast
<1>. QED
  BY ExecInductive, <1>1, PTL

(* A streamed command that ended on its own reached the CLI in full.         *)
THEOREM OutputIsComplete == Spec => []AllOutputSent
<1>1. EInv => AllOutputSent
  BY DEF EInv, TypeOK, PhaseInv, CountInv, DrainedInv, AllOutputSent
<1>. QED
  BY ExecInductive, <1>1, PTL
===============================================================================
