--------------------------- MODULE CliRequestProofs ---------------------------
(* What CliRequest promises, for any number of CLIs, hosts and names, for any *)
(* exit codes, and whatever the log and the daemon do.                       *)
EXTENDS CliRequest, TLAPS

Answered == {"audit", "write", "done"}
Busy == {"reading", "dial", "undo", "await", "work"}

(* The last request of a command, and whether it is one that runs something. *)
LastOf(c)    == IF cmd[c].op = "dest" THEN 2 ELSE 1
RunsAt(c, i) == i = LastOf(c) /\ cmd[c].op \in {"dest", "exec", "run"}

(* A CLI makes its requests in order, the second one only after a good       *)
(* answer to the first, and a handler has an outcome once it has worked.     *)
FlowInv ==
    \A c \in CLIs :
        /\ cpc[c] = "idle" => hpc[c][1] = "none" /\ hpc[c][2] = "none" /\ msg[c] = 1
        /\ cpc[c] # "idle" => cmd[c] # None /\ (msg[c] = 2 => cmd[c].op = "dest")
        /\ cpc[c] = "dial" => hpc[c][msg[c]] = "none"
        /\ hpc[c][2] # "none" => msg[c] = 2
        /\ msg[c] = 2 => reply[c][1] # None /\ reply[c][1].ok

HandlerInv ==
    \A c \in CLIs, i \in {1, 2} :
        /\ outcome[c][i] # None => hpc[c][i] \in Answered
        /\ reply[c][i] # None => reply[c][i] = outcome[c][i] /\ hpc[c][i] = "done"
        /\ hpc[c][i] = "work" => RunsAt(c, i) /\ found[c][i] # None
        /\ hpc[c][i] \in {"dial", "undo", "await"} =>
              i = 1 /\ cmd[c].op \in {"connect", "dest"} /\ found[c][1] # None
        /\ hpc[c][i] \in {"none", "reading"} => found[c][i] = None

(* From the step that registers or finds it until the command has looked it  *)
(* up, a destination's session is registered and of its host, and so is the  *)
(* session it finds - or it has been marked.                                 *)
DestInv ==
    \A c \in CLIs : cpc[c] # "idle" /\ cmd[c].op = "dest" /\ c \notin moved =>
        /\ /\ found[c][2] = None
           /\ hpc[c][1] \in {"dial", "await"} \/ (outcome[c][1] # None /\ outcome[c][1].ok)
           => reg[ConnectName(c)] # None /\ reg[ConnectName(c)].host = cmd[c].host
        /\ found[c][2] # None => found[c][2].host = cmd[c].host

(* What ran, ran for the last request of its CLI, which has its entry in the *)
(* log when its handler is past Audit, unless there is no log or the entry   *)
(* could not be written; the log is closed when there are no handlers left.  *)
RanInv ==
    /\ \A r \in ran :
          /\ cpc[r.cli] # "idle"
          /\ RunsAt(r.cli, LastOf(r.cli))
          /\ hpc[r.cli][LastOf(r.cli)] \in Answered
          /\ logfile # "none" /\ hpc[r.cli][LastOf(r.cli)] # "audit" =>
                <<r.cli, LastOf(r.cli)>> \in log \cup unwritten
    /\ logfile = "closed" => daemon = "down"
    /\ daemon = "down" => \A c \in CLIs, i \in {1, 2} : hpc[c][i] \in {"none", "done"}

(* A good outcome of a command carries the code of something that ran, or    *)
(* the 1 that stands for an unknown one, and an exit status is made from it. *)
RanWith(c, code) == \E r \in ran : r.cli = c /\ r.code = code
CodeInv ==
    \A c \in CLIs, i \in {1, 2} : outcome[c][i] # None /\ outcome[c][i].ok =>
        /\ RunsAt(c, i) => outcome[c][i].code = 1 \/ RanWith(c, outcome[c][i].code)
        /\ ~RunsAt(c, i) => outcome[c][i].code = 0

RanStatus(c, status) == \E r \in ran : r.cli = c /\ Status(r.code) = status
ExitInv ==
    \A c \in CLIs : cpc[c] = "exit" =>
        /\ exit[c] = 0 =>
              /\ outcome[c][1] # None /\ outcome[c][1].ok
              /\ outcome[c][LastOf(c)] # None /\ outcome[c][LastOf(c)].ok
              /\ RunsAt(c, LastOf(c)) => RanStatus(c, 0)
        /\ exit[c] \notin {0, 1} => RanStatus(c, exit[c])

CInv == /\ TypeOK /\ FlowInv /\ HandlerInv
        /\ DestInv /\ RanInv /\ RunsWhereAsked
        /\ CodeInv /\ ExitInv

-------------------------------------------------------------------------------
LEMMA CommandFacts ==
    \A k \in AllCommands :
        /\ k.op \in AllOps
        /\ k.name \in Names \cup {None}
        /\ k.op \in {"connect", "dest"} => k.host \in Hosts
        /\ k.op = "local" => k.name \in Names
  BY DEF AllCommands, ConnectCommands, DestCommands, SessionCommands, LocalCommands,
     RunCommands, OtherCommands, Plain, Command, GivenNames, AllOps

(* The requests of a command. *)
LEMMA MessageFacts ==
    ASSUME NEW c \in CLIs
    PROVE  /\ LastMsg(c) = LastOf(c) /\ LastOf(c) \in {1, 2}
           /\ Message(c, 1) = IF cmd[c].op = "dest" THEN "connect" ELSE cmd[c].op
           /\ cmd[c].op = "dest" => Message(c, 2) = "exec"
  BY DEF LastMsg, LastOf, Message, Messages

LEMMA StatusFacts ==
    /\ \A code \in Codes \cup {0, 1} : Status(code) \in 0..255
    /\ Status(0) = 0 /\ Status(1) = 1
  BY CodesAssumption DEF Status

LEMMA OutcomeFacts ==
    /\ Ok \in Outcomes /\ Error \in Outcomes /\ NoStatus \in Outcomes
    /\ \A code \in Codes : [ok |-> TRUE, code |-> code] \in Outcomes
    /\ Ok.ok /\ Ok.code = 0 /\ ~Error.ok /\ NoStatus.code = 1
  BY DEF Ok, Error, NoStatus, Outcomes

LEMMA NameFacts ==
    ASSUME TypeOK, NEW c \in CLIs, cmd[c] # None
    PROVE  /\ cmd[c].op \in {"connect", "dest"} => ConnectName(c) \in Names
           /\ ExecName(c) \in Names \cup {None}
  BY CommandFacts, AutoNameAssumption, NoneAssumption DEF TypeOK, ConnectName, ExecName

(* A handler at work belongs to a command, and to one of its requests. *)
LEMMA HandlerFacts ==
    ASSUME CInv, NEW c \in CLIs, NEW i \in {1, 2}, hpc[c][i] # "none"
    PROVE  /\ cpc[c] # "idle" /\ cmd[c] # None /\ cmd[c] \in AllCommands
           /\ i = 2 => cmd[c].op = "dest"
           /\ Message(c, i) = "connect" => i = 1 /\ cmd[c].op \in {"connect", "dest"}
           /\ Message(c, i) = "local" => i = 1 /\ cmd[c].op = "local"
           /\ Message(c, i) = "exec" => RunsAt(c, i)
           /\ Message(c, i) = "run" => RunsAt(c, i) /\ cmd[c].op = "run"
           /\ Message(c, i) \notin {"exec", "run"} => ~RunsAt(c, i)
<1>1. /\ cpc[c] # "idle" /\ cmd[c] # None /\ cmd[c] \in AllCommands
      /\ i = 2 => cmd[c].op = "dest"
  BY DEF CInv, TypeOK, FlowInv
<1>. QED
  BY <1>1, MessageFacts DEF RunsAt, LastOf

LEMMA HandlerGuard ==
    ASSUME NEW c \in CLIs, NEW i \in {1, 2}, Handler(c, i)
    PROVE  hpc[c][i] # "none"
  BY DEF Handler, Connect, ConnectOther, ConnectSame, ConnectAwaits, ConnectNew,
     ConnectDialled, ConnectFails, ConnectUndo, LocalRequest, UseUnknown, UseRequest,
     KillUnknown, KillRequest, ExecLookup, ExecNotFound, ExecRuns, ExecFails, RunRequest,
     OtherRequest, Audit, Write, ReadFails, Reading

-------------------------------------------------------------------------------
(* What a handler's step is to the rest: it answers, it goes on with a       *)
(* session, it logs, writes, or fails to read.                               *)
Answers(c, i) == \E o \in Outcomes : Answer(c, i, o) /\ hpc[c][i] \in Busy
GoesOn(c, i) ==
    \E pc \in Busy \ {"reading"}, s \in Sessions :
        /\ Goes(c, i, pc, s) /\ hpc[c][i] \in {"reading", "dial"}
        /\ pc = "work" => RunsAt(c, i)
        /\ pc # "work" => i = 1 /\ cmd[c].op \in {"connect", "dest"}

LEMMA GoesOnWith ==
    ASSUME CInv, NEW c \in CLIs, NEW i \in {1, 2},
           ConnectSame(c, i) \/ ConnectNew(c, i) \/ ConnectFails(c, i) \/ ExecLookup(c, i)
    PROVE  GoesOn(c, i)
<1>0. hpc[c][i] # "none"
  BY HandlerGuard DEF Handler, Connect
<1>1. CASE ConnectSame(c, i)
  <2>1. reg[ConnectName(c)] \in Sessions
    BY <1>0, <1>1, HandlerFacts, NameFacts DEF ConnectSame, Reading, CInv, TypeOK
  <2>. QED
    BY <1>0, <1>1, <2>1, HandlerFacts DEF ConnectSame, Reading, GoesOn, Busy
<1>2. CASE ConnectNew(c, i)
  <2>1. Session(cmd[c].host, c) \in Sessions
    BY <1>0, <1>2, HandlerFacts, CommandFacts DEF ConnectNew, Reading, Session, Sessions
  <2>. QED
    BY <1>0, <1>2, <2>1, HandlerFacts DEF ConnectNew, Reading, GoesOn, Busy
<1>3. CASE ConnectFails(c, i)
  <2>1. /\ found[c][i] \in Sessions /\ hpc[c][i] = "dial"
        /\ i = 1 /\ cmd[c].op \in {"connect", "dest"}
    BY <1>3 DEF ConnectFails, CInv, TypeOK, HandlerInv
  <2>. QED
    BY <1>3, <2>1 DEF ConnectFails, GoesOn, Busy
<1>4. CASE ExecLookup(c, i)
  <2>1. reg[ExecName(c)] \in Sessions
    BY <1>0, <1>4, HandlerFacts, NameFacts DEF ExecLookup, Get, CInv, TypeOK
  <2>. QED
    BY <1>0, <1>4, <2>1, HandlerFacts DEF ExecLookup, Reading, GoesOn, Busy
<1>. QED
  BY <1>1, <1>2, <1>3, <1>4

LEMMA UnknownAnswers ==
    ASSUME NEW c \in CLIs, NEW i \in {1, 2}, hpc[c][i] \in Busy, Unknown(c, i)
    PROVE  Answers(c, i)
  BY OutcomeFacts DEF Unknown, Answers

LEMMA HandlerCases ==
    ASSUME CInv, NEW c \in CLIs, NEW i \in {1, 2}, Handler(c, i)
    PROVE  \/ Answers(c, i) \/ GoesOn(c, i)
           \/ Audit(c, i) \/ Write(c, i) \/ ReadFails(c, i)
<1>1. CASE \/ ConnectOther(c, i) \/ ConnectAwaits(c, i) \/ ConnectDialled(c, i)
           \/ ConnectUndo(c, i) \/ LocalRequest(c, i)
  BY <1>1, OutcomeFacts DEF ConnectOther, ConnectAwaits, ConnectDialled, ConnectUndo,
     LocalRequest, Reading, Answers, Busy
<1>2. CASE \/ UseUnknown(c, i) \/ UseRequest(c, i) \/ KillUnknown(c, i)
           \/ KillRequest(c, i) \/ ExecNotFound(c, i) \/ OtherRequest(c, i)
  BY <1>2, OutcomeFacts DEF UseUnknown, UseRequest, KillUnknown, KillRequest, ExecNotFound,
     OtherRequest, Reading, Answers, Busy
<1>3. CASE ExecRuns(c, i) \/ ExecFails(c, i) \/ RunRequest(c, i)
  BY <1>3, OutcomeFacts, UnknownAnswers
     DEF ExecRuns, ExecFails, RunRequest, RunsOn, Reading, Answers, Busy
<1>. QED
  BY <1>1, <1>2, <1>3, GoesOnWith DEF Handler, Connect

LEMMA AuditFacts ==
    ASSUME NEW c \in CLIs, NEW i \in {1, 2}, Audit(c, i)
    PROVE  /\ hpc[c][i] = "audit" /\ hpc' = [hpc EXCEPT ![c][i] = "write"]
           /\ log \subseteq log' /\ unwritten \subseteq unwritten'
           /\ log' \cup unwritten' \subseteq log \cup unwritten \cup {<<c, i>>}
           /\ logfile = "open" /\ Logged(Message(c, i), outcome[c][i]) =>
                 <<c, i>> \in log' \cup unwritten'
           /\ UNCHANGED <<daemon, logfile, reg, cmd, cpc, msg, exit, found, outcome, reply,
                          ran, moved>>
<1>. DEFINE entry == {r \in {<<c, i>>} : Logged(Message(c, i), outcome[c][i])}
<1>1. entry \subseteq {<<c, i>>}
  OBVIOUS
<1>2. Logged(Message(c, i), outcome[c][i]) => <<c, i>> \in entry
  OBVIOUS
<1>3. /\ hpc[c][i] = "audit" /\ hpc' = [hpc EXCEPT ![c][i] = "write"]
      /\ UNCHANGED <<regVars, daemon, logfile, cliVars, found, outcome, reply, ran, moved>>
      /\ \/ logfile = "open" /\ log' = log \cup entry /\ UNCHANGED unwritten
         \/ logfile = "open" /\ unwritten' = unwritten \cup entry /\ UNCHANGED log
         \/ logfile # "open" /\ UNCHANGED <<log, unwritten>>
  BY DEF Audit
<1>. HIDE DEF entry
<1>. QED
  BY <1>1, <1>2, <1>3 DEF regVars, cliVars

-------------------------------------------------------------------------------
(* What the requests do to the registry: sessions are added under free names *)
(* and removed, never replaced; whoever removes one marks the destinations   *)
(* that are between their two requests.                                      *)
Removes(n) == Remove(n) /\ UNCHANGED <<live, ran>>
Adds(c, n, host) ==
    /\ reg[n] = None /\ reg' = [reg EXCEPT ![n] = Session(host, c)]
    /\ default' = n /\ live' \in SUBSET Sessions /\ UNCHANGED moved
Keeps == /\ UNCHANGED <<reg, moved>>
         /\ default' \in Names \cup {None} /\ live' \in SUBSET Sessions

LEMMA RegistryCases ==
    ASSUME CInv, NEW c \in CLIs, NEW i \in {1, 2}, Handler(c, i)
    PROVE  \/ Keeps
           \/ \E n \in Names, h \in Hosts \cup {Local} : Adds(c, n, h)
           \/ \E n \in Names : Removes(n)
<1>. USE DEF CInv, TypeOK
<1>0. hpc[c][i] # "none"
  BY HandlerGuard
<1>1. /\ cmd[c] # None
      /\ Message(c, i) = "connect" => ConnectName(c) \in Names /\ cmd[c].host \in Hosts
      /\ Message(c, i) = "local" => cmd[c].name \in Names
      /\ ExecName(c) \in Names \cup {None}
      /\ hpc[c][i] \in {"dial", "undo", "await"} =>
            /\ ConnectName(c) \in Names
            /\ found[c][i] \in Sessions
  BY ONLY <1>0, HandlerFacts, NameFacts, CommandFacts, CInv, TypeOK, c \in CLIs, i \in {1, 2}
     DEF CInv, TypeOK, HandlerInv
<1>2. CASE ConnectOther(c, i) \/ ConnectSame(c, i)
  BY <1>1, <1>2 DEF ConnectOther, ConnectSame, Goes, Reading, Keeps, regVars
<1>3. CASE ConnectAwaits(c, i)
  BY <1>1, <1>3 DEF ConnectAwaits, Redialled, Keeps
<1>4. CASE ConnectDialled(c, i) \/ ConnectFails(c, i)
  BY <1>1, <1>4 DEF ConnectDialled, ConnectFails, Goes, Keeps, regVars
<1>5. CASE ConnectNew(c, i)
  BY <1>1, <1>5 DEF ConnectNew, Goes, Reading, Adds
<1>6. CASE ConnectUndo(c, i)
  BY <1>1, <1>6 DEF ConnectUndo, Removes
<1>7. CASE LocalRequest(c, i)
  <2>1. Session(Local, c) \in Sessions
    BY DEF Session, Sessions
  <2>2. CASE reg[cmd[c].name] = None
    BY <1>1, <1>7, <2>1, <2>2 DEF LocalRequest, Reading, Adds
  <2>3. CASE reg[cmd[c].name] # None
    BY <1>1, <1>7, <2>3 DEF LocalRequest, Reading, Keeps, regVars
  <2>. QED
    BY <2>2, <2>3
<1>8. CASE UseRequest(c, i)
  <2>1. ExecName(c) \in Names /\ reg[ExecName(c)] \in Sessions
    BY <1>1, <1>8 DEF UseRequest, Get
  <2>. QED
    BY <1>8, <2>1 DEF UseRequest, Redialled, Keeps
<1>9. CASE KillRequest(c, i)
  <2>1. ExecName(c) \in Names
    BY <1>1, <1>9 DEF KillRequest, Get
  <2>. QED
    BY <1>9, <2>1 DEF KillRequest, Removes
<1>10. CASE \/ UseUnknown(c, i) \/ KillUnknown(c, i) \/ ExecLookup(c, i)
            \/ ExecNotFound(c, i) \/ ExecRuns(c, i) \/ ExecFails(c, i)
  BY <1>10 DEF UseUnknown, KillUnknown, ExecLookup, ExecNotFound, ExecRuns, ExecFails,
     Goes, Keeps, regVars
<1>11. CASE \/ RunRequest(c, i) \/ OtherRequest(c, i) \/ Audit(c, i) \/ Write(c, i)
            \/ ReadFails(c, i)
  BY <1>11 DEF RunRequest, OtherRequest, Audit, Write, ReadFails, Keeps, regVars
<1>. QED
  BY ONLY Handler(c, i), <1>2, <1>3, <1>4, <1>5, <1>6, <1>7, <1>8, <1>9, <1>10, <1>11
     DEF Handler, Connect

-------------------------------------------------------------------------------
(* Only the handler of a request that runs something adds to ran, when it    *)
(* answers, and what it adds is on the host it is for.                       *)
RanOn(c, i, h, code, o) ==
    /\ ran' = ran \cup {[cli |-> c, host |-> h, code |-> code]}
    /\ Answer(c, i, o) /\ (o.ok => o.code \in {1, code})
    /\ hpc[c][i] \in {"reading", "work"} /\ RunsAt(c, i)
    /\ cmd[c].op = "dest" => h = cmd[c].host \/ c \in moved

LEMMA RunsOnCases ==
    ASSUME NEW c \in CLIs, NEW i \in {1, 2}, NEW h \in Hosts \cup {Local},
           RunsOn(c, i, h), hpc[c][i] \in {"reading", "work"}, RunsAt(c, i),
           cmd[c].op = "dest" => h = cmd[c].host \/ c \in moved
    PROVE  \E code \in Codes, o \in Outcomes : RanOn(c, i, h, code, o)
  BY OutcomeFacts DEF RunsOn, Unknown, RanOn

LEMMA RanCases ==
    ASSUME CInv, NEW c \in CLIs, NEW i \in {1, 2}, Handler(c, i)
    PROVE  \/ ran' = ran
           \/ \E h \in Hosts \cup {Local}, code \in Codes, o \in Outcomes :
                 RanOn(c, i, h, code, o)
<1>0. hpc[c][i] # "none"
  BY HandlerGuard
<1>1. CASE ExecRuns(c, i)
  <2>1. RunsAt(c, i) /\ found[c][i] # None /\ hpc[c][i] = "work"
    BY <1>1 DEF ExecRuns, CInv, HandlerInv
  <2>2. found[c][i].host \in Hosts \cup {Local}
    BY <2>1 DEF CInv, TypeOK, Sessions
  <2>3. cmd[c].op = "dest" => found[c][i].host = cmd[c].host \/ c \in moved
    BY <1>0, <2>1, HandlerFacts DEF CInv, DestInv, RunsAt, LastOf
  <2>. QED
    BY <1>1, <2>1, <2>2, <2>3, RunsOnCases DEF ExecRuns
<1>2. CASE RunRequest(c, i)
  <2>1. RunsAt(c, i) /\ cmd[c].op # "dest" /\ hpc[c][i] = "reading"
    BY <1>0, <1>2, HandlerFacts DEF RunRequest, Reading
  <2>. QED
    BY <1>2, <2>1, RunsOnCases DEF RunRequest
<1>3. CASE Connect(c, i)
  BY <1>3 DEF Connect, ConnectOther, ConnectSame, ConnectAwaits, ConnectNew, ConnectDialled,
     ConnectFails, ConnectUndo, Goes
<1>4. CASE \/ LocalRequest(c, i) \/ UseUnknown(c, i) \/ UseRequest(c, i)
           \/ KillUnknown(c, i) \/ KillRequest(c, i) \/ ExecLookup(c, i)
           \/ ExecNotFound(c, i) \/ ExecFails(c, i) \/ OtherRequest(c, i)
           \/ Audit(c, i) \/ Write(c, i) \/ ReadFails(c, i)
  BY <1>4 DEF LocalRequest, UseUnknown, UseRequest, KillUnknown, KillRequest, ExecLookup,
     ExecNotFound, ExecFails, OtherRequest, Audit, Write, ReadFails, Goes
<1>. QED
  BY ONLY Handler(c, i), <1>1, <1>2, <1>3, <1>4 DEF Handler

(* A handler that runs nothing does not touch ran, and a request that is to  *)
(* run something is then answered with an error, or with 1 and no error.     *)
Quiet(c, i) ==
    /\ ran' = ran /\ hpc[c][i] \in Busy
    /\ \/ Answer(c, i, Error)
       \/ Answer(c, i, Ok) /\ ~RunsAt(c, i)
       \/ Answer(c, i, NoStatus) /\ RunsAt(c, i)

LEMMA AnswerCases ==
    ASSUME CInv, NEW c \in CLIs, NEW i \in {1, 2}, Handler(c, i)
    PROVE  \/ UNCHANGED <<ran, cliVars, outcome>>
           \/ Quiet(c, i)
           \/ \E h \in Hosts \cup {Local}, code \in Codes, o \in Outcomes :
                 RanOn(c, i, h, code, o)
<1>0. hpc[c][i] # "none"
  BY HandlerGuard
<1>1. hpc[c][i] \in {"dial", "undo", "await"} => ~RunsAt(c, i)
  BY DEF CInv, HandlerInv, RunsAt, LastOf
<1>2. CASE ConnectOther(c, i) \/ ConnectAwaits(c, i) \/ ConnectDialled(c, i) \/ ConnectUndo(c, i)
  BY <1>1, <1>2 DEF ConnectOther, ConnectAwaits, ConnectDialled, ConnectUndo, Reading,
     Quiet, Busy
<1>3. CASE \/ LocalRequest(c, i) \/ UseUnknown(c, i) \/ UseRequest(c, i)
           \/ KillUnknown(c, i) \/ KillRequest(c, i) \/ ExecNotFound(c, i)
           \/ OtherRequest(c, i)
  BY <1>0, <1>3, HandlerFacts DEF LocalRequest, UseUnknown, UseRequest, KillUnknown,
     KillRequest, ExecNotFound, OtherRequest, Reading, Quiet, Busy
<1>4. CASE \/ ConnectSame(c, i) \/ ConnectNew(c, i) \/ ConnectFails(c, i) \/ ExecLookup(c, i)
           \/ Audit(c, i) \/ Write(c, i) \/ ReadFails(c, i)
  BY <1>4 DEF ConnectSame, ConnectNew, ConnectFails, ExecLookup, Goes, Audit, Write, ReadFails
<1>5. CASE ExecFails(c, i)
  <2>1. RunsAt(c, i)
    BY <1>5 DEF ExecFails, CInv, HandlerInv
  <2>. QED
    BY <1>5, <2>1 DEF ExecFails, Unknown, Quiet, Busy
<1>6. CASE ExecRuns(c, i) \/ RunRequest(c, i)
  <2>1. CASE ran' = ran
    <3>1. RunsAt(c, i) /\ hpc[c][i] \in {"reading", "work"}
      BY <1>0, <1>6, HandlerFacts DEF ExecRuns, RunRequest, Reading, CInv, HandlerInv
    <3>2. ~\E h : RunsOn(c, i, h)
      <4>1. SUFFICES ASSUME NEW h, RunsOn(c, i, h)  PROVE  FALSE
        OBVIOUS
      <4>2. PICK code \in Codes : [cli |-> c, host |-> h, code |-> code] \in ran'
        BY <4>1 DEF RunsOn
      <4>3. hpc[c][LastOf(c)] \in Answered
        BY <2>1, <4>2 DEF CInv, RanInv
      <4>. QED
        BY <3>1, <4>3 DEF RunsAt, Answered
    <3>. QED
      BY <1>6, <2>1, <3>1, <3>2 DEF ExecRuns, RunRequest, Unknown, Quiet, Busy
  <2>2. CASE ran' # ran
    BY <2>2, RanCases
  <2>. QED
    BY <2>1, <2>2
<1>. QED
  BY ONLY Handler(c, i), <1>2, <1>3, <1>4, <1>5, <1>6 DEF Handler, Connect

-------------------------------------------------------------------------------
LEMMA TypesStep == CInv /\ [Next]_cvars => TypeOK'
<1>. SUFFICES ASSUME CInv, [Next]_cvars  PROVE  TypeOK'
  OBVIOUS
<1>. USE DEF CInv, TypeOK, cvars, regVars, logVars, cliVars, connVars, HandlerPcs
<1>1. ASSUME NEW c \in CLIs, NEW k \in AllCommands, Start(c, k)  PROVE  TypeOK'
  BY <1>1 DEF Start
<1>2. ASSUME NEW c \in CLIs, Cli(c)  PROVE  TypeOK'
  <2>2. CASE Send(c)
    <3>1. /\ hpc' \in [CLIs -> [{1, 2} -> HandlerPcs]]
          /\ cpc' \in [CLIs -> {"idle", "dial", "wait", "exit"}]
      BY ONLY TypeOK, c \in CLIs, <2>2 DEF Send, TypeOK, HandlerPcs
    <3>. QED
      BY ONLY TypeOK, <2>2, <3>1 DEF Send, TypeOK, regVars, logVars
  <2>3. CASE DialFails(c) \/ GiveUp(c) \/ ReadError(c)
    <3>1. Exit(c, 1) /\ UNCHANGED <<regVars, daemon, logVars, connVars, ran, moved>>
      BY ONLY <2>3 DEF DialFails, GiveUp, ReadError
    <3>2. 1 \in 0..255
      OBVIOUS
    <3>. QED
      BY ONLY TypeOK, <3>1, <3>2 DEF Exit, TypeOK, regVars, logVars, connVars
  <2>4. CASE ReadLast(c)
    <3>1. reply[c][msg[c]] \in Outcomes
      BY <2>4 DEF ReadLast
    <3>2. Status(reply[c][msg[c]].code) \in 0..255
      BY <3>1, StatusFacts DEF Outcomes
    <3>. QED
      BY <2>4, <3>2 DEF ReadLast, Exit
  <2>5. CASE ReadNext(c)
    <3>1. msg[c] = 1
      BY <2>5, MessageFacts DEF ReadNext, IsLast, FlowInv, LastOf
    <3>. QED
      BY <2>5, <3>1 DEF ReadNext
  <2>. QED
    BY <1>2, <2>2, <2>3, <2>4, <2>5 DEF Cli
<1>3. ASSUME NEW c \in CLIs, NEW i \in {1, 2}, Handler(c, i)  PROVE  TypeOK'
  <2>. DEFINE Conns == /\ hpc' \in [CLIs -> [{1, 2} -> HandlerPcs]]
                       /\ found' \in [CLIs -> [{1, 2} -> Sessions \cup {None}]]
                       /\ outcome' \in [CLIs -> [{1, 2} -> Outcomes \cup {None}]]
                       /\ reply' \in [CLIs -> [{1, 2} -> Outcomes \cup {None}]]
              Regs  == /\ reg' \in [Names -> Sessions \cup {None}]
                       /\ default' \in Names \cup {None}
                       /\ live' \subseteq Sessions /\ moved' \subseteq CLIs
              Logs  == /\ UNCHANGED <<logfile, daemon>>
                       /\ log' \subseteq CLIs \X {1, 2} /\ unwritten' \subseteq CLIs \X {1, 2}
  <2>1. UNCHANGED cliVars /\ Conns /\ Logs
    <3>1. CASE Answers(c, i)
      <4>1. PICK o \in Outcomes : Answer(c, i, o)
        BY <3>1 DEF Answers
      <4>. QED
        BY <4>1 DEF Answer
    <3>2. CASE GoesOn(c, i)
      <4>1. PICK pc \in Busy, s \in Sessions : Goes(c, i, pc, s)
        BY <3>2 DEF GoesOn
      <4>2. hpc' \in [CLIs -> [{1, 2} -> HandlerPcs]]
        BY ONLY TypeOK, c \in CLIs, i \in {1, 2}, <4>1 DEF Goes, Busy, TypeOK, HandlerPcs
      <4>3. found' \in [CLIs -> [{1, 2} -> Sessions \cup {None}]]
        BY ONLY TypeOK, c \in CLIs, i \in {1, 2}, <4>1 DEF Goes, TypeOK
      <4>. QED
        BY ONLY TypeOK, <4>1, <4>2, <4>3 DEF Goes, TypeOK, logVars
    <3>3. CASE Audit(c, i)
      <4>1. /\ hpc' = [hpc EXCEPT ![c][i] = "write"] /\ UNCHANGED <<cliVars, found>>
            /\ UNCHANGED <<outcome, reply, logfile, daemon>>
            /\ log' \cup unwritten' \subseteq log \cup unwritten \cup {<<c, i>>}
        BY ONLY <3>3, AuditFacts, c \in CLIs, i \in {1, 2} DEF cliVars
      <4>2. Logs
        BY ONLY TypeOK, <4>1, c \in CLIs, i \in {1, 2} DEF TypeOK
      <4>. QED
        BY <4>1, <4>2
    <3>5. CASE ReadFails(c, i)
      BY <3>5 DEF ReadFails
    <3>4. CASE Write(c, i)
      <4>1. ASSUME NEW o \in Outcomes \cup {None}
            PROVE  [reply EXCEPT ![c][i] = o] \in [CLIs -> [{1, 2} -> Outcomes \cup {None}]]
        OBVIOUS
      <4>2. outcome[c][i] \in Outcomes \cup {None}
        OBVIOUS
      <4>3. reply' \in [CLIs -> [{1, 2} -> Outcomes \cup {None}]]
        BY ONLY <3>4, <4>1, <4>2, TypeOK DEF Write, TypeOK
      <4>. QED
        BY <3>4, <4>3 DEF Write
    <3>. QED
      BY ONLY CInv, <1>3, <3>1, <3>2, <3>3, <3>4, <3>5, HandlerCases
  <2>2. Regs
    <3>1. CASE Keeps
      BY <3>1 DEF Keeps
    <3>2. ASSUME NEW n \in Names, NEW h \in Hosts \cup {Local}, Adds(c, n, h)
          PROVE  Regs
      BY <3>2 DEF Adds, Session, Sessions
    <3>3. ASSUME NEW n \in Names, Removes(n)  PROVE  Regs
      BY <3>3 DEF Removes, Remove, Between
    <3>. QED
      BY ONLY CInv, <1>3, <3>1, <3>2, <3>3, RegistryCases
  <2>3. ran' \subseteq [cli : CLIs, host : Hosts \cup {Local}, code : Codes]
    BY <1>3, RanCases DEF RanOn
  <2>. QED
    BY ONLY TypeOK, <2>1, <2>2, <2>3 DEF TypeOK, cliVars
<1>4. CASE StopBegins \/ StopEnds \/ Dies
  BY <1>4 DEF StopBegins, StopEnds, Dies, Between
<1>5. CASE UNCHANGED cvars
  BY <1>5
<1>. QED
  BY ONLY [Next]_cvars, CommandsAssumption, <1>1, <1>2, <1>3, <1>4, <1>5 DEF Next, Start

LEMMA FlowStep == CInv /\ [Next]_cvars => FlowInv'
<1>. SUFFICES ASSUME CInv, [Next]_cvars  PROVE  FlowInv'
  OBVIOUS
<1>. USE DEF CInv, TypeOK, FlowInv, cvars, regVars, logVars, cliVars, connVars
<1>1. ASSUME NEW c \in CLIs, NEW k \in AllCommands, Start(c, k)  PROVE  FlowInv'
  BY <1>1, NoRecordAssumption DEF Start
<1>2. ASSUME NEW c \in CLIs, Cli(c)  PROVE  FlowInv'
  <2>1. CASE Send(c)
    BY <2>1 DEF Send
  <2>2. CASE DialFails(c) \/ GiveUp(c) \/ ReadError(c) \/ ReadLast(c)
    BY <2>2 DEF DialFails, GiveUp, ReadError, ReadLast, Exit
  <2>3. CASE ReadNext(c)
    <3>1. msg[c] = 1 /\ cmd[c].op = "dest"
      BY <2>3, MessageFacts DEF ReadNext, IsLast, LastOf
    <3>. QED
      BY <2>3, <3>1 DEF ReadNext
  <2>. QED
    BY <1>2, <2>1, <2>2, <2>3 DEF Cli
<1>3. ASSUME NEW c \in CLIs, NEW i \in {1, 2}, Handler(c, i)  PROVE  FlowInv'
  <2>1. cpc[c] # "idle" /\ hpc[c][i] # "none"
    BY ONLY HandlerFacts, HandlerGuard, <1>3, CInv
  <2>2. CASE GoesOn(c, i)
    BY <2>1, <2>2 DEF GoesOn, Goes, Busy
  <2>3. CASE Answers(c, i)
    <3>1. PICK o \in Outcomes : Answer(c, i, o)
      BY <2>3 DEF Answers
    <3>. QED
      BY <2>1, <3>1 DEF Answer
  <2>4. CASE Audit(c, i)
    <3>1. /\ hpc[c][i] = "audit" /\ hpc' = [hpc EXCEPT ![c][i] = "write"]
          /\ UNCHANGED <<cmd, cpc, msg, reply>>
      BY ONLY <2>4, AuditFacts, c \in CLIs, i \in {1, 2}
    <3>. QED
      BY <2>1, <3>1
  <2>6. CASE ReadFails(c, i)
    BY <2>1, <2>6 DEF ReadFails
  <2>5. CASE Write(c, i)
    BY <2>1, <2>5 DEF Write, HandlerInv
  <2>. QED
    BY <1>3, <2>2, <2>3, <2>4, <2>5, <2>6, HandlerCases
<1>4. CASE StopBegins \/ StopEnds \/ Dies
  BY <1>4 DEF StopBegins, StopEnds, Dies
<1>5. CASE UNCHANGED cvars
  BY <1>5
<1>. QED
  BY ONLY [Next]_cvars, <1>1, <1>2, <1>3, <1>4, <1>5 DEF Next

LEMMA HandlerStep == CInv /\ [Next]_cvars => HandlerInv'
<1>. SUFFICES ASSUME CInv, [Next]_cvars  PROVE  HandlerInv'
  OBVIOUS
<1>. USE DEF CInv, TypeOK, HandlerInv, cvars, regVars, logVars, cliVars, connVars, Answered
<1>. USE DEF LastOf, RunsAt
<1>1. ASSUME NEW c \in CLIs, NEW k \in AllCommands, Start(c, k)  PROVE  HandlerInv'
  BY <1>1 DEF Start, FlowInv
<1>2. ASSUME NEW c \in CLIs, Cli(c)  PROVE  HandlerInv'
  <2>1. CASE Send(c)
    BY <2>1 DEF Send, FlowInv
  <2>2. CASE DialFails(c) \/ GiveUp(c) \/ ReadError(c) \/ ReadLast(c)
    BY <2>2 DEF DialFails, GiveUp, ReadError, ReadLast, Exit
  <2>3. CASE ReadNext(c)
    BY <2>3 DEF ReadNext
  <2>. QED
    BY <1>2, <2>1, <2>2, <2>3 DEF Cli
<1>3. ASSUME NEW c \in CLIs, NEW i \in {1, 2}, Handler(c, i)  PROVE  HandlerInv'
  <2>1. cmd[c] # None /\ hpc[c][i] # "none"
    BY ONLY HandlerFacts, HandlerGuard, <1>3, CInv
  <2>2. CASE GoesOn(c, i)
    <3>1. PICK pc \in Busy \ {"reading"}, s \in Sessions :
             /\ Goes(c, i, pc, s) /\ hpc[c][i] \in {"reading", "dial"}
             /\ pc = "work" => RunsAt(c, i)
             /\ pc # "work" => i = 1 /\ cmd[c].op \in {"connect", "dest"}
      BY <2>2 DEF GoesOn
    <3>2. s # None
      BY NoRecordAssumption DEF Sessions
    <3>. QED
      BY <3>1, <3>2 DEF Goes, Busy
  <2>3. CASE Answers(c, i)
    <3>1. PICK o \in Outcomes : Answer(c, i, o) /\ hpc[c][i] \in Busy
      BY <2>3 DEF Answers
    <3>. QED
      BY <2>1, <3>1 DEF Answer, Busy
  <2>4. CASE Audit(c, i)
    <3>1. /\ hpc[c][i] = "audit" /\ hpc' = [hpc EXCEPT ![c][i] = "write"]
          /\ UNCHANGED <<cmd, outcome, reply, found>>
      BY ONLY <2>4, AuditFacts, c \in CLIs, i \in {1, 2}
    <3>. QED
      BY <2>1, <3>1
  <2>5. CASE ReadFails(c, i)
    BY <2>1, <2>5 DEF ReadFails
  <2>6. CASE Write(c, i)
    BY <2>1, <2>6 DEF Write
  <2>. QED
    BY <1>3, <2>2, <2>3, <2>4, <2>5, <2>6, HandlerCases
<1>4. CASE StopBegins \/ StopEnds \/ Dies
  BY <1>4 DEF StopBegins, StopEnds, Dies
<1>5. CASE UNCHANGED cvars
  BY <1>5
<1>. QED
  BY ONLY [Next]_cvars, <1>1, <1>2, <1>3, <1>4, <1>5 DEF Next

-------------------------------------------------------------------------------
(* A destination is at its session from the step of its connect that         *)
(* registers or finds it until its exec has looked it up.                    *)
At(d) == /\ found[d][2] = None
         /\ \/ hpc[d][1] \in {"dial", "await"}
            \/ outcome[d][1] # None /\ outcome[d][1].ok
Has(d) == reg[ConnectName(d)] # None /\ reg[ConnectName(d)].host = cmd[d].host

(* A destination that has lost its session stays marked. *)
LEMMA MovedGrows == CInv /\ [Next]_cvars => moved \subseteq moved'
<1>. SUFFICES ASSUME CInv, [Next]_cvars  PROVE  moved \subseteq moved'
  OBVIOUS
<1>1. ASSUME NEW c \in CLIs, NEW i \in {1, 2}, Handler(c, i)  PROVE  moved \subseteq moved'
  BY <1>1, RegistryCases DEF Keeps, Adds, Removes, Remove
<1>2. ASSUME NEW c \in CLIs, Cli(c)  PROVE  UNCHANGED moved
  BY <1>2 DEF Cli, Send, DialFails, GiveUp, ReadError, ReadLast, ReadNext
<1>. QED
  BY <1>1, <1>2 DEF Next, Start, StopBegins, StopEnds, Dies, cvars

LEMMA HandlerKeepsCommands ==
    ASSUME CInv, NEW c \in CLIs, NEW i \in {1, 2}, Handler(c, i)
    PROVE  UNCHANGED <<cliVars, daemon, logfile>>
<1>1. CASE Answers(c, i) \/ GoesOn(c, i)
  BY <1>1 DEF Answers, Answer, GoesOn, Goes, logVars
<1>2. CASE Audit(c, i)
  BY ONLY <1>2, AuditFacts, c \in CLIs, i \in {1, 2} DEF cliVars
<1>3. CASE Write(c, i) \/ ReadFails(c, i)
  BY <1>3 DEF Write, ReadFails, logVars
<1>. QED
  BY <1>1, <1>2, <1>3, HandlerCases

(* A destination at its session keeps it, or is marked. *)
LEMMA SessionKept ==
    ASSUME CInv, NEW c \in CLIs, NEW i \in {1, 2}, Handler(c, i),
           NEW d \in CLIs, cpc[d] # "idle", cmd[d].op = "dest", At(d), d \notin moved'
    PROVE  Has(d)'
<1>1. UNCHANGED cmd
  BY HandlerKeepsCommands DEF cliVars
<1>2. ConnectName(d) \in Names /\ ConnectName(d)' = ConnectName(d)
  BY <1>1, NameFacts DEF CInv, FlowInv, ConnectName
<1>3. d \notin moved
  BY RegistryCases DEF Keeps, Adds, Removes, Remove
<1>4. Has(d)
  BY <1>3 DEF CInv, DestInv, At, Has
<1>5. CASE Keeps
  BY <1>1, <1>2, <1>4, <1>5 DEF Keeps, Has
<1>6. ASSUME NEW n \in Names, NEW h \in Hosts \cup {Local}, Adds(c, n, h)  PROVE  Has(d)'
  BY <1>1, <1>2, <1>4, <1>6 DEF Adds, Has, CInv, TypeOK
<1>7. ASSUME NEW n \in Names, Removes(n)  PROVE  Has(d)'
  <2>1. hpc[d][1] \notin {"none", "reading"} /\ found[d][2] = None /\ cmd[d] # None
    BY DEF At, CInv, HandlerInv, FlowInv, Answered
  <2>2. ConnectName(d) # n
    BY <1>7, <2>1 DEF Removes, Remove, Between
  <2>. QED
    BY <1>1, <1>2, <1>4, <1>7, <2>2 DEF Removes, Remove, Has, CInv, TypeOK
<1>. QED
  BY <1>5, <1>6, <1>7, RegistryCases

(* Only its own connect brings a destination to a session. *)
LEMMA AtCases ==
    ASSUME CInv, NEW c \in CLIs, NEW i \in {1, 2}, Handler(c, i),
           NEW d \in CLIs, cpc[d] # "idle", cmd[d].op = "dest", At(d)', ~At(d)
    PROVE  d = c /\ i = 1 /\ (ConnectSame(c, i) \/ ConnectNew(c, i))
<1>0. hpc[c][i] # "none"
  BY HandlerGuard
<1>. USE DEF CInv, TypeOK
<1>1. ASSUME NEW o \in Outcomes, Answer(c, i, o)
      PROVE  d = c /\ i = 1 /\ o.ok
  BY <1>1 DEF Answer, At
<1>2. ASSUME NEW pc \in Busy, NEW s \in Sessions, Goes(c, i, pc, s)
      PROVE  d = c /\ i = 1 /\ pc \in {"dial", "await"}
  <2>1. s # None
    BY NoRecordAssumption DEF Sessions
  <2>. QED
    BY <1>2, <2>1 DEF Goes, At
<1>3. CASE Audit(c, i)
  <2>1. hpc' = [hpc EXCEPT ![c][i] = "write"] /\ UNCHANGED <<found, outcome>>
    BY ONLY <1>3, AuditFacts, c \in CLIs, i \in {1, 2}
  <2>. QED
    BY <2>1 DEF At
<1>4. CASE Write(c, i) \/ ReadFails(c, i)
  BY <1>4 DEF Write, ReadFails, At
<1>5. d = c /\ i = 1 => Message(c, i) = "connect" /\ ~RunsAt(c, i)
  BY <1>0, MessageFacts DEF RunsAt, LastOf
<1>6. CASE ConnectAwaits(c, i) \/ ConnectDialled(c, i)
  <2>1. PICK o \in Outcomes : Answer(c, i, o)
    BY <1>6, OutcomeFacts DEF ConnectAwaits, ConnectDialled
  <2>2. hpc[c][i] \in {"dial", "await"} /\ UNCHANGED found
    BY <1>6, <2>1 DEF ConnectAwaits, ConnectDialled, Answer
  <2>. QED
    BY <1>1, <2>1, <2>2 DEF At
<1>7. CASE ConnectOther(c, i) \/ ConnectUndo(c, i)
  BY <1>1, <1>7, OutcomeFacts DEF ConnectOther, ConnectUndo
<1>8. CASE ConnectFails(c, i) \/ ExecLookup(c, i)
  <2>1. PICK pc \in {"undo", "work"}, s \in Sessions : Goes(c, i, pc, s)
    <3>1. CASE ConnectFails(c, i)
      BY <3>1 DEF ConnectFails, HandlerInv
    <3>2. CASE ExecLookup(c, i)
      <4>1. reg[ExecName(c)] \in Sessions
        BY <1>0, <3>2, HandlerFacts, NameFacts DEF ExecLookup, Get
      <4>. QED
        BY <3>2, <4>1 DEF ExecLookup
    <3>. QED
      BY <1>8, <3>1, <3>2
  <2>. QED
    BY <1>2, <2>1 DEF Busy
<1>9. CASE \/ LocalRequest(c, i) \/ UseUnknown(c, i) \/ UseRequest(c, i)
           \/ KillUnknown(c, i) \/ KillRequest(c, i) \/ ExecNotFound(c, i)
           \/ RunRequest(c, i) \/ OtherRequest(c, i)
  <2>1. Message(c, i) # "connect" /\ hpc[c][i] = "reading"
    BY <1>9 DEF LocalRequest, UseUnknown, UseRequest, KillUnknown, KillRequest, ExecNotFound,
       RunRequest, OtherRequest, Reading
  <2>2. PICK o \in Outcomes : Answer(c, i, o)
    BY <1>9, OutcomeFacts, UnknownAnswers, <2>1
       DEF LocalRequest, UseUnknown, UseRequest, KillUnknown, KillRequest, ExecNotFound,
           RunRequest, RunsOn, OtherRequest, Answers, Busy
  <2>. QED
    BY <1>1, <1>5, <2>1, <2>2
<1>10. CASE ExecRuns(c, i) \/ ExecFails(c, i)
  <2>1. hpc[c][i] = "work" /\ RunsAt(c, i)
    BY <1>10 DEF ExecRuns, ExecFails, HandlerInv
  <2>2. PICK o \in Outcomes : Answer(c, i, o)
    BY <1>10, <2>1, OutcomeFacts, UnknownAnswers
       DEF ExecRuns, ExecFails, RunsOn, Answers, Busy
  <2>. QED
    BY <1>1, <1>5, <2>1, <2>2
<1>11. CASE ConnectSame(c, i) \/ ConnectNew(c, i)
  <2>1. PICK pc \in Busy, s \in Sessions : Goes(c, i, pc, s)
    BY <1>11, GoesOnWith DEF GoesOn
  <2>. QED
    BY <1>2, <1>11, <2>1
<1>. QED
  BY ONLY Handler(c, i), <1>3, <1>4, <1>6, <1>7, <1>8, <1>9, <1>10, <1>11 DEF Handler, Connect

LEMMA DestStep == CInv /\ [Next]_cvars => DestInv'
<1>. SUFFICES ASSUME CInv, [Next]_cvars  PROVE  DestInv'
  OBVIOUS
<1>. USE DEF CInv, TypeOK, cvars, regVars, logVars, cliVars, connVars
<1>1. ASSUME NEW c \in CLIs, NEW k \in AllCommands, Start(c, k)  PROVE  DestInv'
  <2>1. hpc[c][1] = "none" /\ outcome[c][1] = None /\ found[c][2] = None
    BY <1>1 DEF Start, FlowInv, HandlerInv, Answered
  <2>2. /\ UNCHANGED <<reg, hpc, found, outcome, moved>>
        /\ \A d \in CLIs \ {c} : cmd'[d] = cmd[d] /\ cpc'[d] = cpc[d]
    BY <1>1 DEF Start
  <2>. QED
    BY <2>1, <2>2 DEF DestInv, ConnectName
<1>2. ASSUME NEW c \in CLIs, Cli(c)  PROVE  DestInv'
  <2>1. /\ UNCHANGED <<reg, cmd, found, outcome, moved>>
        /\ \A d \in CLIs : /\ cpc'[d] # "idle" => cpc[d] # "idle"
                           /\ hpc'[d][1] \in {"dial", "await"} => hpc'[d][1] = hpc[d][1]
    BY <1>2 DEF Cli, Send, DialFails, GiveUp, ReadError, ReadLast, ReadNext, Exit
  <2>. QED
    BY <2>1 DEF DestInv, ConnectName
<1>3. ASSUME NEW c \in CLIs, NEW i \in {1, 2}, Handler(c, i), daemon # "dead"  PROVE  DestInv'
  <2>1. UNCHANGED <<cmd, cpc>> /\ moved \subseteq moved' /\ hpc[c][i] # "none"
    BY <1>3, HandlerKeepsCommands, HandlerGuard, MovedGrows
  <2>. SUFFICES ASSUME NEW d \in CLIs, cpc[d] # "idle", cmd[d].op = "dest", d \notin moved'
                PROVE  /\ At(d)' => Has(d)'
                       /\ found'[d][2] # None => found'[d][2].host = cmd[d].host
    BY <2>1 DEF DestInv, At, Has
  <2>2. ASSUME At(d)', ~At(d)  PROVE  Has(d)'
    <3>1. d = c /\ i = 1 /\ (ConnectSame(c, i) \/ ConnectNew(c, i))
      BY <1>3, <2>2, AtCases
    <3>2. ConnectName(c) \in Names /\ ConnectName(c)' = ConnectName(c)
      BY <2>1, <3>1, NameFacts DEF FlowInv, ConnectName
    <3>3. CASE ConnectSame(c, i)
      BY <2>1, <3>1, <3>2, <3>3 DEF ConnectSame, Has
    <3>4. CASE ConnectNew(c, i)
      <4>1. /\ reg'[ConnectName(c)] = Session(cmd[c].host, c)
            /\ Session(cmd[c].host, c) \in Sessions
        BY <2>1, <3>1, <3>2, <3>4, CommandFacts DEF ConnectNew, Session, Sessions, FlowInv
      <4>. QED
        BY <2>1, <3>1, <3>2, <4>1, NoRecordAssumption DEF Has, Session, Sessions
    <3>. QED
      BY <3>1, <3>3, <3>4
  <2>3. ASSUME found'[d][2] # found[d][2]  PROVE  found'[d][2].host = cmd[d].host
    <3>1. CASE \/ ConnectOther(c, i) \/ ConnectAwaits(c, i) \/ ConnectDialled(c, i)
               \/ ConnectUndo(c, i) \/ LocalRequest(c, i) \/ UseUnknown(c, i)
               \/ UseRequest(c, i) \/ KillUnknown(c, i) \/ KillRequest(c, i)
               \/ ExecNotFound(c, i) \/ OtherRequest(c, i) \/ Write(c, i) \/ ReadFails(c, i)
      BY ONLY <2>3, <3>1 DEF ConnectOther, ConnectAwaits, ConnectDialled, ConnectUndo,
         LocalRequest, UseUnknown, UseRequest, KillUnknown, KillRequest, ExecNotFound,
         OtherRequest, Write, ReadFails, Answer
    <3>2. CASE ExecRuns(c, i) \/ ExecFails(c, i) \/ RunRequest(c, i)
      BY ONLY <2>3, <3>2 DEF ExecRuns, ExecFails, RunRequest, RunsOn, Unknown, Answer
    <3>3. CASE Audit(c, i)
      BY ONLY <3>3, AuditFacts, <2>3, c \in CLIs, i \in {1, 2}
    <3>4. CASE ConnectSame(c, i) \/ ConnectNew(c, i) \/ ConnectFails(c, i)
      <4>1. i = 1
        BY <2>1, <3>4, HandlerFacts
           DEF ConnectSame, ConnectNew, ConnectFails, Reading, HandlerInv
      <4>2. \E s : found' = [found EXCEPT ![c][i] = s]
        BY <3>4 DEF ConnectSame, ConnectNew, ConnectFails, Goes
      <4>. QED
        BY <2>3, <4>1, <4>2
    <3>5. CASE ExecLookup(c, i)
      <4>1. /\ hpc[c][i] = "reading" /\ Message(c, i) = "exec"
            /\ found' = [found EXCEPT ![c][i] = reg[ExecName(c)]]
        BY <3>5 DEF ExecLookup, Reading, Goes
      <4>2. d = c /\ i = 2
        BY <2>3, <4>1
      <4>3. ExecName(c) = ConnectName(c) /\ found'[c][2] = reg[ExecName(c)]
        BY <4>1, <4>2 DEF ExecName
      <4>4. found[c][2] = None /\ msg[c] = 2
        BY <4>1, <4>2 DEF FlowInv, HandlerInv
      <4>5. reply[c][1] # None /\ reply[c][1].ok
        BY <4>4 DEF FlowInv
      <4>6. At(c)
        BY <4>4, <4>5 DEF HandlerInv, At
      <4>. QED
        BY <2>1, <4>2, <4>3, <4>6 DEF DestInv, At
    <3>. QED
      BY ONLY <1>3, <3>1, <3>2, <3>3, <3>4, <3>5 DEF Handler, Connect
  <2>4. found[d][2] # None => found[d][2].host = cmd[d].host
    BY <2>1 DEF DestInv
  <2>. QED
    BY <1>3, <2>2, <2>3, <2>4, SessionKept
<1>4. CASE StopBegins
  <2>1. ASSUME NEW d \in CLIs, cpc[d] # "idle", cmd[d].op = "dest", At(d)
        PROVE  d \in moved'
    <3>1. hpc[d][1] \notin {"none", "reading"} /\ cmd[d] # None /\ ConnectName(d) \in Names
      BY <2>1, NameFacts DEF At, HandlerInv, FlowInv, Answered
    <3>2. d \in Between(ConnectName(d))
      BY <2>1, <3>1 DEF Between, At
    <3>. QED
      BY <1>4, <3>1, <3>2 DEF StopBegins
  <2>. QED
    BY <1>4, <2>1 DEF StopBegins, DestInv, At
<1>5. CASE StopEnds \/ Dies \/ UNCHANGED cvars
  <2>1. UNCHANGED <<reg, cmd, cpc, hpc, found, outcome, moved>>
    BY <1>5 DEF StopEnds, Dies
  <2>. QED
    BY <2>1 DEF DestInv, ConnectName
<1>. QED
  BY ONLY [Next]_cvars, CommandsAssumption, <1>1, <1>2, <1>3, <1>4, <1>5 DEF Next, Start


(* A handler at work has not ended, so the daemon has not. *)
LEMMA HandlersRun ==
    ASSUME CInv, NEW c \in CLIs, NEW i \in {1, 2}, Handler(c, i)
    PROVE  hpc[c][i] \notin {"none", "done"} /\ daemon # "down"
<1>1. CASE Answers(c, i) \/ GoesOn(c, i) \/ Write(c, i) \/ ReadFails(c, i)
  BY <1>1 DEF Answers, GoesOn, Write, ReadFails, Busy, CInv, RanInv
<1>2. CASE Audit(c, i)
  BY <1>2, AuditFacts DEF CInv, RanInv
<1>. QED
  BY <1>1, <1>2, HandlerCases

(* A step of a handler that runs nothing keeps what holds of what ran, if it *)
(* goes past Audit only with an entry.                                       *)
LEMMA RanKept ==
    ASSUME CInv, NEW c \in CLIs, NEW i \in {1, 2}, NEW pc,
           UNCHANGED <<cmd, cpc, daemon, logfile, ran>>, daemon # "down",
           hpc' = [hpc EXCEPT ![c][i] = pc],
           hpc[c][i] \in Answered => pc \in Answered \ {"audit"},
           log \subseteq log', unwritten \subseteq unwritten',
           hpc[c][i] = "audit" /\ logfile # "none" /\ RunsAt(c, i) =>
              <<c, i>> \in log' \cup unwritten'
    PROVE  RanInv'
<1>. USE DEF CInv
<1>1. \A d \in CLIs : LastOf(d)' = LastOf(d) /\ LastOf(d) \in {1, 2}
  BY DEF LastOf
<1>2. \A d \in CLIs, j \in {1, 2} :
        /\ hpc'[d][j] = IF d = c /\ j = i THEN pc ELSE hpc[d][j]
        /\ RunsAt(d, j)' <=> RunsAt(d, j)
  BY DEF TypeOK, RunsAt, LastOf
<1>3. ASSUME NEW r \in ran
      PROVE  /\ cpc'[r.cli] # "idle"
             /\ RunsAt(r.cli, LastOf(r.cli))'
             /\ hpc'[r.cli][LastOf(r.cli)] \in Answered
             /\ logfile # "none" /\ hpc'[r.cli][LastOf(r.cli)] # "audit" =>
                   <<r.cli, LastOf(r.cli)>> \in log' \cup unwritten'
  <2>1. r.cli \in CLIs
    BY DEF TypeOK
  <2>2. /\ cpc[r.cli] # "idle" /\ RunsAt(r.cli, LastOf(r.cli))
        /\ hpc[r.cli][LastOf(r.cli)] \in Answered
        /\ logfile # "none" /\ hpc[r.cli][LastOf(r.cli)] # "audit" =>
              <<r.cli, LastOf(r.cli)>> \in log \cup unwritten
    BY DEF RanInv
  <2>3. cpc'[r.cli] # "idle" /\ RunsAt(r.cli, LastOf(r.cli))'
    BY <1>1, <1>2, <2>1, <2>2
  <2>4. CASE r.cli = c /\ LastOf(r.cli) = i
    BY <1>1, <1>2, <2>1, <2>2, <2>3, <2>4
  <2>5. CASE ~(r.cli = c /\ LastOf(r.cli) = i)
    BY <1>1, <1>2, <2>1, <2>2, <2>3, <2>5
  <2>. QED
    BY <2>4, <2>5
<1>4. logfile' = "closed" => daemon' = "down"
  BY DEF RanInv
<1>. QED
  BY <1>1, <1>3, <1>4 DEF RanInv, TypeOK, RunsAt

LEMMA QuietKeepsRan ==
    ASSUME CInv, NEW c \in CLIs, NEW i \in {1, 2}, Handler(c, i), ran' = ran
    PROVE  RanInv'
<1>1. hpc[c][i] \notin {"none", "done"} /\ daemon # "down"
  BY HandlersRun
<1>2. UNCHANGED <<cmd, cpc, daemon, logfile, ran>>
  BY HandlerKeepsCommands DEF cliVars
<1>3. ASSUME NEW pc, hpc' = [hpc EXCEPT ![c][i] = pc], UNCHANGED <<log, unwritten>>,
             hpc[c][i] # "audit", hpc[c][i] = "write" => pc = "done"
      PROVE  RanInv'
  <2>1. hpc[c][i] \in Answered => pc \in Answered \ {"audit"}
    BY <1>1, <1>3 DEF Answered
  <2>2. log \subseteq log' /\ unwritten \subseteq unwritten'
    BY <1>3
  <2>. QED
    BY <1>1, <1>2, <1>3, <2>1, <2>2, RanKept
<1>4. CASE Answers(c, i)
  <2>1. PICK o \in Outcomes : Answer(c, i, o) /\ hpc[c][i] \in Busy
    BY <1>4 DEF Answers
  <2>2. hpc' = [hpc EXCEPT ![c][i] = "audit"] /\ UNCHANGED <<log, unwritten>>
    BY <2>1 DEF Answer, logVars
  <2>. QED
    BY <1>3, <2>1, <2>2 DEF Busy
<1>5. CASE GoesOn(c, i)
  <2>1. PICK pc \in Busy, s \in Sessions :
           Goes(c, i, pc, s) /\ hpc[c][i] \in {"reading", "dial"}
    BY <1>5 DEF GoesOn
  <2>2. hpc' = [hpc EXCEPT ![c][i] = pc] /\ UNCHANGED <<log, unwritten>>
    BY <2>1 DEF Goes, logVars
  <2>. QED
    BY <1>3, <2>1, <2>2
<1>6. CASE Write(c, i) \/ ReadFails(c, i)
  <2>1. /\ hpc' = [hpc EXCEPT ![c][i] = "done"] /\ hpc[c][i] \in {"write", "reading"}
        /\ UNCHANGED <<log, unwritten>>
    BY <1>6 DEF Write, ReadFails, logVars
  <2>. QED
    BY <1>3, <2>1
<1>7. CASE Audit(c, i)
  <2>1. /\ hpc[c][i] = "audit" /\ hpc' = [hpc EXCEPT ![c][i] = "write"]
        /\ log \subseteq log' /\ unwritten \subseteq unwritten'
        /\ logfile = "open" /\ Logged(Message(c, i), outcome[c][i]) =>
              <<c, i>> \in log' \cup unwritten'
    BY <1>7, AuditFacts
  <2>2. RunsAt(c, i) => Logged(Message(c, i), outcome[c][i])
    BY MessageFacts DEF Logged, RunsAt, LastOf
  <2>3. logfile # "none" => logfile = "open"
    BY <1>1 DEF CInv, TypeOK, RanInv
  <2>4. "write" \in Answered \ {"audit"}
    BY DEF Answered
  <2>. QED
    BY <1>1, <1>2, <2>1, <2>2, <2>3, <2>4, RanKept
<1>. QED
  BY <1>4, <1>5, <1>6, <1>7, HandlerCases

LEMMA RanStep == CInv /\ [Next]_cvars => RanInv' /\ RunsWhereAsked'
<1>. SUFFICES ASSUME CInv, [Next]_cvars  PROVE  RanInv' /\ RunsWhereAsked'
  OBVIOUS
<1>0. moved \subseteq moved'
  BY MovedGrows
<1>. USE DEF CInv, TypeOK, RanInv, RunsWhereAsked, RunsAt, LastOf, Answered
<1>. USE DEF cvars, regVars, logVars, cliVars, connVars
<1>1. ASSUME NEW c \in CLIs, NEW k \in AllCommands, Start(c, k)
      PROVE  RanInv' /\ RunsWhereAsked'
  BY <1>1 DEF Start
<1>2. ASSUME NEW c \in CLIs, Cli(c)  PROVE  RanInv' /\ RunsWhereAsked'
  <2>1. CASE Send(c)
    BY <2>1 DEF Send, FlowInv
  <2>2. CASE ~Send(c)
    <3>1. /\ UNCHANGED <<cmd, ran, hpc, log, unwritten, logfile, daemon, moved>>
          /\ \A d \in CLIs : cpc'[d] = "idle" => cpc[d] = "idle"
      BY <1>2, <2>2 DEF Cli, DialFails, GiveUp, ReadError, ReadLast, ReadNext, Exit
    <3>. QED
      BY <3>1
  <2>. QED
    BY <2>1, <2>2
<1>3. ASSUME NEW c \in CLIs, NEW i \in {1, 2}, Handler(c, i)
      PROVE  RanInv' /\ RunsWhereAsked'
  <2>0. hpc[c][i] \notin {"none", "done"} /\ daemon # "down"
    BY ONLY HandlersRun, <1>3, CInv, c \in CLIs, i \in {1, 2}
  <2>1. /\ cpc[c] # "idle" /\ cmd[c] # None
        /\ hpc[c][i] \notin {"none", "done"} /\ daemon # "down"
    BY ONLY <2>0, HandlerFacts, CInv, c \in CLIs, i \in {1, 2}
  <2>2. UNCHANGED <<cmd, cpc, daemon, logfile>>
    BY ONLY HandlerKeepsCommands, <1>3, CInv DEF cliVars
  <2>3. ASSUME NEW h \in Hosts \cup {Local}, NEW code \in Codes, NEW o \in Outcomes,
               RanOn(c, i, h, code, o)
        PROVE  RanInv' /\ RunsWhereAsked'
    <3>1. RanInv'
      BY <2>1, <2>2, <2>3 DEF RanOn, Answer
    <3>2. RunsWhereAsked'
      BY <1>0, <2>1, <2>2, <2>3 DEF RanOn
    <3>. QED
      BY <3>1, <3>2
  <2>4. CASE ran' = ran
    <3>1. RunsWhereAsked'
      BY <1>0, <2>2, <2>4
    <3>2. RanInv'
      BY ONLY CInv, <1>3, <2>4, c \in CLIs, i \in {1, 2}, QuietKeepsRan
    <3>. QED
      BY <3>1, <3>2
  <2>. QED
    BY ONLY CInv, <1>3, <2>3, <2>4, RanCases
<1>4. CASE StopBegins
  BY <1>0, <1>4 DEF StopBegins
<1>5. CASE StopEnds \/ Dies
  BY <1>5 DEF StopEnds, Dies
<1>6. CASE UNCHANGED cvars
  BY <1>6
<1>. QED
  BY ONLY [Next]_cvars, <1>1, <1>2, <1>3, <1>4, <1>5, <1>6 DEF Next

-------------------------------------------------------------------------------
(* An outcome is written once, and what ran is never forgotten. *)
LEMMA OutcomeKept ==
    ASSUME CInv, [Next]_cvars
    PROVE  /\ ran \subseteq ran'
           /\ \A c \in CLIs, i \in {1, 2} : outcome[c][i] # None =>
                 outcome'[c][i] = outcome[c][i] /\ cmd'[c] = cmd[c]
<1>. USE DEF CInv, TypeOK, cvars, regVars, logVars, cliVars, connVars
<1>1. ASSUME NEW c \in CLIs, NEW k \in AllCommands, Start(c, k)
      PROVE  /\ UNCHANGED <<ran, outcome>>
             /\ outcome[c][1] = None /\ outcome[c][2] = None
             /\ \A d \in CLIs \ {c} : cmd'[d] = cmd[d]
  BY <1>1 DEF Start, FlowInv, HandlerInv, Answered
<1>2. ASSUME NEW c \in CLIs, Cli(c)  PROVE  UNCHANGED <<ran, outcome, cmd>>
  BY <1>2 DEF Cli, Send, DialFails, GiveUp, ReadError, ReadLast, ReadNext, Exit
<1>3. ASSUME NEW c \in CLIs, NEW i \in {1, 2}, Handler(c, i)
      PROVE  /\ ran \subseteq ran' /\ UNCHANGED cmd
             /\ \A d \in CLIs, j \in {1, 2} : outcome[d][j] # None =>
                   outcome'[d][j] = outcome[d][j]
  <2>1. ASSUME NEW o, Answer(c, i, o), hpc[c][i] \in Busy
        PROVE  /\ UNCHANGED cmd
               /\ \A d \in CLIs, j \in {1, 2} : outcome[d][j] # None =>
                     outcome'[d][j] = outcome[d][j]
    BY <2>1 DEF Answer, HandlerInv, Answered, Busy
  <2>2. CASE UNCHANGED <<ran, cliVars, outcome>>
    BY <2>2
  <2>3. CASE Quiet(c, i)
    BY <2>1, <2>3 DEF Quiet
  <2>4. ASSUME NEW h \in Hosts \cup {Local}, NEW code \in Codes, NEW o \in Outcomes,
               RanOn(c, i, h, code, o)
        PROVE  /\ ran \subseteq ran' /\ UNCHANGED cmd
               /\ \A d \in CLIs, j \in {1, 2} : outcome[d][j] # None =>
                     outcome'[d][j] = outcome[d][j]
    BY <2>1, <2>4 DEF RanOn, Busy
  <2>. QED
    BY ONLY CInv, <1>3, <2>2, <2>3, <2>4, AnswerCases
<1>4. CASE StopBegins \/ StopEnds \/ Dies \/ UNCHANGED cvars
  BY <1>4 DEF StopBegins, StopEnds, Dies
<1>. QED
  BY ONLY [Next]_cvars, <1>1, <1>2, <1>3, <1>4 DEF Next, cvars, connVars, cliVars

(* Of a good outcome: its code is that of something that ran, or unknown. *)
CodeOf(c, i) ==
    /\ RunsAt(c, i) => outcome[c][i].code = 1 \/ RanWith(c, outcome[c][i].code)
    /\ ~RunsAt(c, i) => outcome[c][i].code = 0

LEMMA CodeStep == CInv /\ [Next]_cvars => CodeInv'
<1>. SUFFICES ASSUME CInv, [Next]_cvars  PROVE  CodeInv'
  OBVIOUS
<1>1. ASSUME NEW d \in CLIs, NEW j \in {1, 2}, outcome[d][j] # None, outcome'[d][j].ok
      PROVE  CodeOf(d, j)'
  BY <1>1, OutcomeKept DEF CInv, CodeInv, CodeOf, RanWith, RunsAt, LastOf
<1>2. ASSUME NEW d \in CLIs, NEW j \in {1, 2}, outcome[d][j] = None,
             outcome'[d][j] # None, outcome'[d][j].ok
      PROVE  CodeOf(d, j)'
  <2>. USE DEF cvars, regVars, logVars, cliVars, connVars
  <2>1. PICK c \in CLIs, i \in {1, 2} : Handler(c, i)
    BY <1>2 DEF Next, Start, Cli, Send, DialFails, GiveUp, ReadError, ReadLast, ReadNext,
       Exit, StopBegins, StopEnds, Dies
  <2>2. ASSUME NEW o, Answer(c, i, o)
        PROVE  d = c /\ j = i /\ outcome'[d][j] = o /\ UNCHANGED cmd
    BY <1>2, <2>2 DEF Answer, CInv, TypeOK
  <2>3. CASE Quiet(c, i)
    BY <1>2, <2>2, <2>3, OutcomeFacts DEF Quiet, CodeOf, RunsAt, LastOf
  <2>4. ASSUME NEW h \in Hosts \cup {Local}, NEW code \in Codes, NEW o \in Outcomes,
               RanOn(c, i, h, code, o)
        PROVE  CodeOf(d, j)'
    <3>1. [cli |-> c, host |-> h, code |-> code] \in ran'
      BY <2>4 DEF RanOn
    <3>2. \E r \in ran' : r.cli = c /\ r.code = code
      BY <3>1
    <3>3. /\ outcome'[d][j] = o /\ o.ok /\ o.code \in {1, code} /\ d = c /\ j = i
          /\ RunsAt(c, i) /\ UNCHANGED cmd
      BY <1>2, <2>2, <2>4 DEF RanOn
    <3>. QED
      BY <3>2, <3>3 DEF CodeOf, RanWith, RunsAt, LastOf
  <2>. QED
    BY <1>2, <2>1, <2>3, <2>4, AnswerCases
<1>. QED
  BY <1>1, <1>2 DEF CodeInv, CodeOf

(* What an exit status was made from does not change any more. *)
LEMMA ExitStep == CInv /\ [Next]_cvars => ExitInv'
<1>. SUFFICES ASSUME CInv, [Next]_cvars  PROVE  ExitInv'
  OBVIOUS
<1>. DEFINE Holds(c) ==
       /\ exit[c] = 0 =>
             /\ outcome[c][1] # None /\ outcome[c][1].ok
             /\ outcome[c][LastOf(c)] # None /\ outcome[c][LastOf(c)].ok
             /\ RunsAt(c, LastOf(c)) => RanStatus(c, 0)
       /\ exit[c] \notin {0, 1} => RanStatus(c, exit[c])
<1>1. ASSUME NEW d \in CLIs, cpc[d] = "exit"
      PROVE  Holds(d)'
  <2>1. exit'[d] = exit[d] /\ cmd'[d] = cmd[d]
    <3>. USE DEF cvars, regVars, logVars, cliVars, connVars
    <3>1. ASSUME NEW c \in CLIs, NEW i \in {1, 2}, Handler(c, i)  PROVE  UNCHANGED cliVars
      BY <3>1, HandlerKeepsCommands
    <3>2. ASSUME NEW c \in CLIs, Cli(c)  PROVE  exit'[d] = exit[d] /\ cmd'[d] = cmd[d]
      BY <1>1, <3>2 DEF Cli, Send, DialFails, GiveUp, ReadError, ReadLast, ReadNext, Exit,
         CInv, TypeOK
    <3>. QED
      BY <1>1, <3>1, <3>2 DEF Next, Start, StopBegins, StopEnds, Dies, CInv, TypeOK
  <2>2. Holds(d)
    BY <1>1 DEF CInv, ExitInv
  <2>3. \A status : RanStatus(d, status) => RanStatus(d, status)'
    BY OutcomeKept DEF RanStatus
  <2>4. /\ LastOf(d)' = LastOf(d) /\ LastOf(d) \in {1, 2}
        /\ RunsAt(d, LastOf(d))' <=> RunsAt(d, LastOf(d))
    BY <2>1 DEF LastOf, RunsAt
  <2>. QED
    BY <2>1, <2>2, <2>3, <2>4, OutcomeKept
<1>2. ASSUME NEW d \in CLIs, cpc[d] # "exit", cpc'[d] = "exit"
      PROVE  Holds(d)'
  <2>. USE DEF cvars, regVars, logVars, cliVars, connVars
  <2>1. Cli(d)
    <3>1. ASSUME NEW c \in CLIs, NEW i \in {1, 2}, Handler(c, i)  PROVE  UNCHANGED cpc
      BY <3>1, HandlerKeepsCommands
    <3>2. ASSUME NEW c \in CLIs, Cli(c)  PROVE  c = d
      BY <1>2, <3>2 DEF Cli, Send, DialFails, GiveUp, ReadError, ReadLast, ReadNext, Exit,
         CInv, TypeOK
    <3>. QED
      BY <1>2, <3>1, <3>2 DEF Next, Start, StopBegins, StopEnds, Dies, CInv, TypeOK
  <2>2. CASE DialFails(d) \/ GiveUp(d) \/ ReadError(d)
    <3>1. exit'[d] = 1
      BY <2>2 DEF DialFails, GiveUp, ReadError, Exit, CInv, TypeOK
    <3>. QED
      BY <3>1
  <2>3. CASE ReadLast(d)
    <3>1. /\ reply[d][msg[d]] # None /\ reply[d][msg[d]].ok /\ msg[d] = LastOf(d)
          /\ exit'[d] = Status(reply[d][msg[d]].code)
          /\ UNCHANGED <<cmd, outcome, ran>>
      BY <2>3, MessageFacts DEF ReadLast, IsLast, Exit, CInv, TypeOK
    <3>2. /\ outcome[d][LastOf(d)] = reply[d][msg[d]] /\ LastOf(d) \in {1, 2}
          /\ outcome[d][1] # None /\ outcome[d][1].ok
          /\ outcome[d][LastOf(d)] # None /\ outcome[d][LastOf(d)].ok
      BY <3>1 DEF CInv, HandlerInv, FlowInv, LastOf
    <3>3. /\ RunsAt(d, LastOf(d)) => exit'[d] = 1 \/ RanStatus(d, exit'[d])
          /\ ~RunsAt(d, LastOf(d)) => exit'[d] = 0
      BY <3>1, <3>2, StatusFacts DEF CInv, CodeInv, RanWith, RanStatus
    <3>4. /\ LastOf(d)' = LastOf(d) /\ UNCHANGED outcome
          /\ RunsAt(d, LastOf(d))' <=> RunsAt(d, LastOf(d))
          /\ \A status : RanStatus(d, status)' <=> RanStatus(d, status)
      BY <3>1 DEF LastOf, RunsAt, RanStatus
    <3>5. RunsAt(d, LastOf(d)) \/ exit'[d] = 0
      BY <3>3
    <3>. QED
      BY <3>2, <3>3, <3>4, <3>5
  <2>. QED
    BY <1>2, <2>1, <2>2, <2>3 DEF Cli, Send, ReadNext, CInv, TypeOK
<1>. QED
  BY <1>1, <1>2 DEF ExitInv

-------------------------------------------------------------------------------
LEMMA InitCInv == Init => CInv
<1>. SUFFICES ASSUME Init  PROVE  CInv
  OBVIOUS
<1>1. TypeOK
  BY DEF Init, TypeOK, HandlerPcs
<1>2. FlowInv
  <2>. SUFFICES ASSUME NEW c \in CLIs
       PROVE  /\ cpc[c] = "idle" /\ hpc[c][1] = "none" /\ hpc[c][2] = "none"
              /\ msg[c] = 1 /\ msg[c] # 2
    BY DEF FlowInv
  <2>1. cpc[c] = "idle" /\ msg[c] = 1
    BY DEF Init
  <2>2. hpc[c] = [i \in {1, 2} |-> "none"]
    BY DEF Init
  <2>. QED
    BY <2>1, <2>2
<1>3. HandlerInv
  <2>. SUFFICES ASSUME NEW c \in CLIs, NEW i \in {1, 2}
       PROVE  /\ hpc[c][i] = "none" /\ outcome[c][i] = None
              /\ reply[c][i] = None /\ found[c][i] = None
    BY DEF HandlerInv
  <2>. QED
    BY DEF Init
<1>4. DestInv /\ RanInv /\ RunsWhereAsked /\ CodeInv /\ ExitInv
  BY DEF Init, DestInv, RanInv, RunsWhereAsked, CodeInv, ExitInv
<1>. QED
  BY <1>1, <1>2, <1>3, <1>4 DEF CInv

(* The inductive invariant of requests and handlers: it holds in every state *)
(* that commands.go, client.go and server.go can reach together.             *)
THEOREM CliInductive == Spec => []CInv
<1>1. CInv /\ [Next]_cvars => CInv'
  BY TypesStep, FlowStep, HandlerStep, DestStep, RanStep, CodeStep, ExitStep DEF CInv
<1>. QED
  BY InitCInv, <1>1, PTL DEF Spec

(* Of requests, handlers, registry, log and daemon: type correctness, with   *)
(* exit statuses within what os.Exit can pass on.                            *)
THEOREM CliTypes == Spec => []TypeOK
<1>1. CInv => TypeOK
  BY DEF CInv
<1>. QED
  BY CliInductive, <1>1, PTL

(* The command of `gssh user@host command' (handleDestination) runs on the   *)
(* host named, whatever other agents ask for between its connect and its     *)
(* exec, unless its session is taken out of the registry in between: by a    *)
(* kill, by Stop, or by a failed connect that removes it by its name.        *)
THEOREM DestinationsRunWhereAsked == Spec => []RunsWhereAsked
<1>1. CInv => RunsWhereAsked
  BY DEF CInv
<1>. QED
  BY CliInductive, <1>1, PTL

(* The exit status of the CLI is true: zero only when every request was      *)
(* carried out and the command ended with a code that os.Exit makes zero,    *)
(* and one other than zero and one only when it is made from the code of     *)
(* what ran.  Codes are any integers: -1 of a signal and what a server sends *)
(* are among them.                                                           *)
THEOREM ExitCodesAreTrue == Spec => []ExitCodeTrue
<1>1. ASSUME CInv  PROVE  ExitCodeTrue
  <2>. SUFFICES ASSUME NEW c \in CLIs, cpc[c] = "exit"
       PROVE  /\ exit[c] = 0 =>
                    /\ \A i \in 1..LastMsg(c) : outcome[c][i] # None /\ outcome[c][i].ok
                    /\ Runs(Message(c, LastMsg(c))) => RanStatus(c, 0)
              /\ exit[c] \notin {0, 1} => RanStatus(c, exit[c])
    BY DEF ExitCodeTrue, RanStatus
  <2>1. LastMsg(c) = LastOf(c) /\ \A i \in 1..LastOf(c) : i = 1 \/ i = LastOf(c)
    BY MessageFacts DEF LastOf
  <2>2. Runs(Message(c, LastOf(c))) => RunsAt(c, LastOf(c))
    BY MessageFacts DEF Runs, RunsAt, LastOf
  <2>. QED
    BY <1>1, <2>1, <2>2 DEF CInv, ExitInv
<1>. QED
  BY CliInductive, <1>1, PTL

(* If the log could be opened, what dispatch ran has its entry before the    *)
(* CLI can read an answer, and when the daemon has stopped, or the write of  *)
(* that very entry has failed: Stop's drain never costs one.                 *)
THEOREM EveryRunIsLogged == Spec => []RunsAreLogged
<1>1. ASSUME CInv  PROVE  RunsAreLogged
  <2>. SUFFICES ASSUME logfile # "none", NEW r \in ran,
                       reply[r.cli][LastMsg(r.cli)] # None \/ daemon = "down"
       PROVE  <<r.cli, LastMsg(r.cli)>> \in log \cup unwritten
    BY DEF RunsAreLogged
  <2>1. r.cli \in CLIs
    BY <1>1 DEF CInv, TypeOK
  <2>2. LastMsg(r.cli) = LastOf(r.cli) /\ LastOf(r.cli) \in {1, 2}
    BY <2>1, MessageFacts
  <2>3. hpc[r.cli][LastOf(r.cli)] # "audit"
    BY <1>1, <2>1, <2>2 DEF CInv, HandlerInv, RanInv
  <2>. QED
    BY <1>1, <2>2, <2>3 DEF CInv, RanInv
<1>. QED
  BY CliInductive, <1>1, PTL
===============================================================================
