---------------------------- MODULE FileTransfer ----------------------------
(***************************************************************************)
(* File transfer over SFTP: transfer.Service (internal/transfer/sftp.go    *)
(* and safefile_unix.go).  The daemon serves every request in a goroutine  *)
(* of its own and nothing serialises two transfers, so the requests of     *)
(* Transfers run side by side over the same two trees.                     *)
(*                                                                         *)
(* A path is the sequence of its names below the transferred directory,    *)
(* <<>> the directory itself.  A file is the sequence of its blocks; a     *)
(* block is the version that wrote it, or Hole where a write beyond the    *)
(* end left one.  Time is in seconds, the precision of the comparison.     *)
(* A mode is only ever copied and is left out.                             *)
(***************************************************************************)
EXTENDS Integers, Sequences, SequencesExt, FiniteSetsExt

CONSTANTS Transfers,    \* requests that can be served at once
          Paths,        \* the paths of entries that can exist on either side
          LocalDirs,    \* the directories of the local side at the start
          Sizes,        \* sizes, in blocks, that an edit can give a file
          FaultSets,    \* the combinations of faults that are explored
          MaxClock,     \* bound on the number of edits
          MaxRequests   \* bound on the number of requests

Root == <<>>
Parent(p) == Front(p)
Hole == 0

Sides  == {"local", "remote"}
Faults == {"interrupt", "overlap", "edit", "editUpload"}

ASSUME PathsAssumption ==
    /\ Root \in Paths /\ Paths \subseteq Seq(STRING)
    /\ \A p \in Paths : \A n \in 0..Len(p) : SubSeq(p, 1, n) \in Paths
    /\ LocalDirs \subseteq Paths
    /\ \A p \in LocalDirs : \A n \in 1..Len(p) : SubSeq(p, 1, n) \in LocalDirs
ASSUME SizesAssumption ==
    Sizes \subseteq Nat /\ \E m \in Sizes : \A n \in Sizes : n <= m
ASSUME BoundsAssumption == MaxClock \in Nat /\ MaxRequests \in Nat
ASSUME FaultsAssumption == FaultSets \subseteq SUBSET Faults

VARIABLES
    fs,      \* fs[side][path]: [kind, blocks, mtime]
    clock,   \* the current second
    faults,  \* which faults may happen in this behaviour
    up,      \* the direction of the running transfers
    asked,   \* requests made so far
    req,     \* req[x]: [path, target, slash], what the transfer was asked
    pc,      \* what the transfer does next
    todo,    \* the entries the walk has still to visit, each [path, info]
    cur,     \* the file being copied: [path, mtime, target]
    pos,     \* the blocks of it copied so far
    res,     \* the answer: "none" until there is one
    dirty,   \* a fault has happened since the first of the running transfers
    renamed  \* where a single file was transferred to under another name

vars == <<fs, clock, faults, up, asked, req, pc, todo, cur, pos, res, dirty, renamed>>

-----------------------------------------------------------------------------
(* The trees.                                                              *)

Nothing == [kind |-> "none", blocks |-> <<>>, mtime |-> 0]
Dir     == [kind |-> "dir",  blocks |-> <<>>, mtime |-> 0]
File(blocks, mtime) == [kind |-> "file", blocks |-> blocks, mtime |-> mtime]

IsDir(side, p)  == fs[side][p].kind = "dir"
IsFile(side, p) == fs[side][p].kind = "file"
Exists(side, p) == fs[side][p].kind # "none"

Children(side, p) == {q \in Paths \ {Root} : Parent(q) = p /\ Exists(side, q)}

Source == IF up THEN "local" ELSE "remote"
Dest   == IF up THEN "remote" ELSE "local"

(* Mutant of Blocked: Mkdir, which an existing directory makes fail.        *)
MkdirOnly(p) == p # Root /\ Exists(Dest, p)

(* MkdirAll, and safeRoot.ensureDir with ensureSafeLocalDir on the local    *)
(* side: the missing directories down to p, unless a file is in the way.    *)
Blocked(p) == \E q \in Paths : IsPrefix(q, p) /\ IsFile(Dest, q)
WithDirs(tree, p) == [q \in Paths |->
    IF IsPrefix(q, p) /\ tree[q].kind = "none" THEN Dir ELSE tree[q]]

(* Mutant of SameStat: the size alone decides.                              *)
SameSize(p, info) == IsFile(Dest, p) /\ Len(fs[Dest][p].blocks) = Len(info.blocks)

(* The test of both walks: same size and same second of modification.       *)
SameStat(p, info) ==
    /\ IsFile(Dest, p)
    /\ Len(fs[Dest][p].blocks) = Len(info.blocks)
    /\ fs[Dest][p].mtime = info.mtime

Running(x) == pc[x] # "idle"
AllIdle == \A x \in Transfers : ~Running(x)

-----------------------------------------------------------------------------
(* The users of the two machines: they edit files, and make and remove      *)
(* entries of the remote side with sftp mkdir and sftp rm.  Each edit       *)
(* writes a new version in a new second.  It may change the source of       *)
(* running transfers that set the file's time afterwards under the fault    *)
(* "edit", of any transfer under "editUpload".  An entry that is edited or  *)
(* removed between transfers is no longer the renamed file it was.          *)

OfDirectory(x) == IsDir(Source, req[x].path)

(* Which transfers preserve the modification time: not the upload of a      *)
(* single file.                                                             *)
SetsTimes(x) == ~up \/ OfDirectory(x)

MayEdit(side) ==
    \/ AllIdle
    \/ side = Source /\ "editUpload" \in faults
    \/ side = Source /\ "edit" \in faults
          /\ \A x \in Transfers : Running(x) => SetsTimes(x)

Edit(side, p, n) ==
    /\ clock < MaxClock
    /\ MayEdit(side)
    /\ p # Root /\ IsDir(side, Parent(p)) /\ ~IsDir(side, p)
    /\ clock' = clock + 1
    /\ fs' = [fs EXCEPT ![side][p] = File([i \in 1..n |-> clock + 1], clock + 1)]
    /\ dirty' = TRUE
    /\ renamed' = IF AllIdle THEN renamed \ {p} ELSE renamed
    /\ UNCHANGED <<faults, up, asked, req, pc, todo, cur, pos, res>>

SftpMkdir(p) ==
    /\ AllIdle /\ asked < MaxRequests
    /\ p # Root /\ ~Exists("remote", p) /\ IsDir("remote", Parent(p))
    /\ fs' = [fs EXCEPT !["remote"][p] = Dir]
    /\ asked' = asked + 1
    /\ dirty' = TRUE
    /\ UNCHANGED <<clock, faults, up, req, pc, todo, cur, pos, res, renamed>>

SftpRemove(p) ==
    /\ AllIdle /\ asked < MaxRequests
    /\ p # Root /\ Exists("remote", p) /\ Children("remote", p) = {}
    /\ fs' = [fs EXCEPT !["remote"][p] = Nothing]
    /\ asked' = asked + 1
    /\ dirty' = TRUE
    /\ renamed' = renamed \ {p}
    /\ UNCHANGED <<clock, faults, up, req, pc, todo, cur, pos, res>>

-----------------------------------------------------------------------------
(* Upload and Download.                                                     *)

NoCur == [path |-> Root, mtime |-> 0, target |-> Root]

(* A request: the path transferred and the destination named, with or       *)
(* without a trailing slash.  A directory goes to the same path, a file to  *)
(* the same path or to a directory above it.                                *)
Requests == {r \in [path : Paths, target : Paths, slash : BOOLEAN] :
                IF r.slash THEN IsStrictPrefix(r.target, r.path)
                           ELSE IsPrefix(r.target, r.path)}
Explored(direction, r) ==
    IsDir(IF direction THEN "local" ELSE "remote", r.path) => r.target = r.path

(* Every request is served by a goroutine of its own: those that overlap    *)
(* are told apart until the last of them has returned.                      *)
New(x) == ~Running(x) /\ res[x] = "none"

Begin(x, direction, r) ==
    /\ Explored(direction, r)
    /\ asked < MaxRequests
    /\ AllIdle \/ ("overlap" \in faults /\ direction = up /\ New(x))
    /\ up' = direction
    /\ asked' = asked + 1
    /\ req' = [req EXCEPT ![x] = r]
    /\ pc' = [pc EXCEPT ![x] = "stat"]
    /\ res' = IF AllIdle THEN [y \in Transfers |-> "none"]
                         ELSE [res EXCEPT ![x] = "none"]
    /\ dirty' = (dirty /\ ~AllIdle)
    /\ UNCHANGED <<fs, clock, faults, todo, cur, pos, renamed>>

Return(x, answer) ==
    /\ pc' = [pc EXCEPT ![x] = "idle"]
    /\ res' = [res EXCEPT ![x] = answer]
    /\ todo' = [todo EXCEPT ![x] = {}]
    /\ cur' = [cur EXCEPT ![x] = NoCur]
    /\ pos' = [pos EXCEPT ![x] = 0]

(* An error of the session, of SFTP or of either file system, before or in  *)
(* any call: what was written stays.                                        *)
Fail(x) ==
    /\ "interrupt" \in faults /\ Running(x)
    /\ Return(x, "error")
    /\ dirty' = TRUE
    /\ UNCHANGED <<fs, clock, faults, up, asked, req, renamed>>

Entry(p) == [path |-> p, info |-> fs[Source][p]]

StartFile(x, e, target) ==
    /\ pc' = [pc EXCEPT ![x] = "create"]
    /\ cur' = [cur EXCEPT ![x] =
                 [path |-> e.path, mtime |-> e.info.mtime, target |-> target]]

(* resolveUploadFileTarget and resolveDownloadFileTarget: a destination     *)
(* that is a directory means the file's name inside it.  With a trailing    *)
(* slash a download takes the directory for granted, an upload wants it     *)
(* to be there.                                                             *)
Inside(target, p) == Append(target, Last(p))
ResolveTarget(r) ==
    IF IsDir(Dest, r.target) \/ (r.slash /\ ~up) THEN Inside(r.target, r.path)
                                                 ELSE r.target
Unresolvable(r) == up /\ r.slash /\ ~IsDir(Dest, r.target)

StatDirectory(x) ==
    /\ pc[x] = "stat" /\ OfDirectory(x)
    /\ pc' = [pc EXCEPT ![x] = "walk"]
    /\ todo' = [todo EXCEPT ![x] = {Entry(req[x].path)}]
    /\ UNCHANGED <<fs, clock, faults, up, asked, req, cur, pos, res, dirty, renamed>>

StatFile(x) ==
    LET r == req[x] IN
    /\ pc[x] = "stat" /\ IsFile(Source, r.path) /\ ~Unresolvable(r)
    /\ ResolveTarget(r) \in Paths
    /\ StartFile(x, Entry(r.path), ResolveTarget(r))
    /\ renamed' = renamed \cup ({ResolveTarget(r)} \ {r.path})
    /\ UNCHANGED <<fs, clock, faults, up, asked, req, todo, pos, res, dirty>>

(* A target outside Paths is written without a trace in them; the other     *)
(* requests fail.                                                           *)
StatElsewhere(x) ==
    LET r == req[x] IN
    /\ pc[x] = "stat" /\ IsFile(Source, r.path) /\ ~Unresolvable(r)
    /\ ResolveTarget(r) \notin Paths
    /\ Return(x, "ok")
    /\ UNCHANGED <<fs, clock, faults, up, asked, req, dirty, renamed>>

StatError(x) ==
    LET r == req[x] IN
    /\ pc[x] = "stat"
    /\ \/ ~Exists(Source, r.path)
       \/ IsFile(Source, r.path) /\ Unresolvable(r)
    /\ Return(x, "error")
    /\ UNCHANGED <<fs, clock, faults, up, asked, req, dirty, renamed>>

(* The walk.  filepath.Walk reads the names when it has visited a directory *)
(* and the stat of each entry when it comes to it; the SFTP walker has the  *)
(* stats from reading the directory.  Both go depth first in an order of    *)
(* their own; here the entries come in any order.                           *)
VisitDir(x, e) ==
    /\ pc[x] = "walk" /\ e \in todo[x]
    /\ e.info.kind = "dir" /\ ~Blocked(e.path)
    /\ fs' = [fs EXCEPT ![Dest] = WithDirs(@, e.path)]
    /\ todo' = [todo EXCEPT ![x] =
                  (@ \ {e}) \cup {Entry(q) : q \in Children(Source, e.path)}]
    /\ UNCHANGED <<clock, faults, up, asked, req, pc, cur, pos, res, dirty, renamed>>

VisitFile(x, e) ==
    LET stat == IF up THEN Entry(e.path) ELSE e IN
    /\ pc[x] = "walk" /\ e \in todo[x] /\ e.info.kind = "file"
    /\ todo' = [todo EXCEPT ![x] = @ \ {e}]
    /\ IF SameStat(e.path, stat.info) THEN UNCHANGED <<pc, cur>>
                                      ELSE StartFile(x, stat, e.path)
    /\ UNCHANGED <<fs, clock, faults, up, asked, req, pos, res, dirty, renamed>>

WalkEnds(x) ==
    /\ pc[x] = "walk" /\ todo[x] = {}
    /\ Return(x, "ok")
    /\ UNCHANGED <<fs, clock, faults, up, asked, req, dirty, renamed>>

(* uploadFile and downloadFile: the source is opened, the parent made, the  *)
(* destination created or truncated, the blocks copied one by one up to     *)
(* the source's end as it is then, and the modification time of the stat    *)
(* set - but not by an upload of a single file.                             *)
Create(x) ==
    LET p == cur[x].target IN
    /\ pc[x] = "create" /\ ~Blocked(Parent(p)) /\ ~IsDir(Dest, p)
    /\ fs' = [fs EXCEPT ![Dest] =
                [WithDirs(@, Parent(p)) EXCEPT ![p] = File(<<>>, clock)]]
    /\ pc' = [pc EXCEPT ![x] = "copy"]
    /\ UNCHANGED <<clock, faults, up, asked, req, todo, cur, pos, res, dirty, renamed>>

(* A file where a directory has to be, or the reverse.                      *)
Conflict(x) ==
    /\ \/ pc[x] = "walk"
            /\ \E e \in todo[x] : e.info.kind = "dir" /\ Blocked(e.path)
       \/ pc[x] = "create"
            /\ (Blocked(Parent(cur[x].target)) \/ IsDir(Dest, cur[x].target))
    /\ Return(x, "error")
    /\ UNCHANGED <<fs, clock, faults, up, asked, req, dirty, renamed>>

(* Mutant of WriteAt: the destination is opened with O_APPEND.              *)
WriteAppend(blocks, i, b) == Append(blocks, b)

WriteAt(blocks, i, b) ==
    [j \in 1..(IF i > Len(blocks) THEN i ELSE Len(blocks)) |->
        IF j = i THEN b ELSE IF j <= Len(blocks) THEN blocks[j] ELSE Hole]

CopyBlock(x) ==
    LET from == fs[Source][cur[x].path].blocks
        i    == pos[x] + 1
    IN
    /\ pc[x] = "copy" /\ i <= Len(from)
    /\ fs' = [fs EXCEPT ![Dest][cur[x].target] =
                File(WriteAt(@.blocks, i, from[i]), clock)]
    /\ pos' = [pos EXCEPT ![x] = i]
    /\ UNCHANGED <<clock, faults, up, asked, req, pc, todo, cur, res, dirty, renamed>>

CopyEnds(x) ==
    /\ pc[x] = "copy" /\ pos[x] >= Len(fs[Source][cur[x].path].blocks)
    /\ IF SetsTimes(x)
          THEN /\ pc' = [pc EXCEPT ![x] = "times"]
               /\ pos' = [pos EXCEPT ![x] = 0]
               /\ UNCHANGED <<todo, cur, res>>
          ELSE Return(x, "ok")
    /\ UNCHANGED <<fs, clock, faults, up, asked, req, dirty, renamed>>

(* Mutant of SetTimes: the source is looked at again after the copy.        *)
SetTimesOfNow(x) ==
    /\ pc[x] = "times"
    /\ fs' = [fs EXCEPT ![Dest][cur[x].target].mtime = fs[Source][cur[x].path].mtime]
    /\ IF OfDirectory(x)
          THEN /\ pc' = [pc EXCEPT ![x] = "walk"]
               /\ cur' = [cur EXCEPT ![x] = NoCur]
               /\ UNCHANGED <<todo, pos, res>>
          ELSE Return(x, "ok")
    /\ UNCHANGED <<clock, faults, up, asked, req, dirty, renamed>>

(* Chtimes and setFileTimes.                                                *)
SetTimes(x) ==
    /\ pc[x] = "times"
    /\ fs' = [fs EXCEPT ![Dest][cur[x].target].mtime = cur[x].mtime]
    /\ IF OfDirectory(x)
          THEN /\ pc' = [pc EXCEPT ![x] = "walk"]
               /\ cur' = [cur EXCEPT ![x] = NoCur]
               /\ UNCHANGED <<todo, pos, res>>
          ELSE Return(x, "ok")
    /\ UNCHANGED <<clock, faults, up, asked, req, dirty, renamed>>

-----------------------------------------------------------------------------
Init ==
    /\ fs = [s \in Sides |-> [p \in Paths |->
                IF p = Root \/ (s = "local" /\ p \in LocalDirs) THEN Dir ELSE Nothing]]
    /\ clock = 0
    /\ faults \in FaultSets
    /\ up = TRUE
    /\ asked = 0
    /\ req = [x \in Transfers |-> [path |-> Root, target |-> Root, slash |-> FALSE]]
    /\ pc = [x \in Transfers |-> "idle"]
    /\ todo = [x \in Transfers |-> {}]
    /\ cur = [x \in Transfers |-> NoCur]
    /\ pos = [x \in Transfers |-> 0]
    /\ res = [x \in Transfers |-> "none"]
    /\ dirty = FALSE
    /\ renamed = {}

(* One goroutine of the daemon serves one request.                          *)
Step(x) ==
    \/ StatDirectory(x) \/ StatFile(x) \/ StatElsewhere(x) \/ StatError(x)
    \/ \E e \in todo[x] : VisitDir(x, e) \/ VisitFile(x, e)
    \/ WalkEnds(x)
    \/ Create(x) \/ Conflict(x) \/ CopyBlock(x) \/ CopyEnds(x) \/ SetTimes(x)

Next ==
    \/ \E side \in Sides, p \in Paths, n \in Sizes : Edit(side, p, n)
    \/ \E p \in Paths : SftpMkdir(p) \/ SftpRemove(p)
    \/ \E x \in Transfers, d \in BOOLEAN, r \in Requests : Begin(x, d, r)
    \/ \E x \in Transfers : Step(x) \/ Fail(x)

Spec == Init /\ [][Next]_vars

-----------------------------------------------------------------------------
(* The values the variables range over.                                     *)
Entries ==
    {Nothing, Dir} \cup
    {File(b, t) : b \in SeqOf(Hole..MaxClock, Max(Sizes)), t \in 0..MaxClock}

TypeOK ==
    /\ fs \in [Sides -> [Paths -> Entries]]
    /\ clock \in 0..MaxClock /\ asked \in 0..MaxRequests
    /\ faults \in FaultSets
    /\ up \in BOOLEAN /\ dirty \in BOOLEAN
    /\ req \in [Transfers -> Requests]
    /\ pc \in [Transfers -> {"idle", "stat", "walk", "create", "copy", "times"}]
    /\ todo \in [Transfers -> SUBSET [path : Paths, info : Entries]]
    /\ cur \in [Transfers -> [path : Paths, mtime : 0..MaxClock, target : Paths]]
    /\ pos \in [Transfers -> 0..Max(Sizes)]
    /\ res \in [Transfers -> {"none", "ok", "error"}]
    /\ renamed \subseteq Paths

(* What a later walk goes by, and what it should.                           *)
LooksSame(p) ==
    /\ IsFile("local", p) /\ IsFile("remote", p)
    /\ Len(fs["local"][p].blocks) = Len(fs["remote"][p].blocks)
    /\ fs["local"][p].mtime = fs["remote"][p].mtime
SameContents(p) == fs["local"][p].blocks = fs["remote"][p].blocks

(* Sound skipping: whenever no transfer runs, two files that the walks of   *)
(* Upload and Download take for identical, having one size and one second   *)
(* of modification, have the same contents.  So whatever an interrupted     *)
(* copy, a copy of a file that was being edited, or two copies into one     *)
(* file have left behind, the next transfer of the directory repairs it.    *)
(* Not so where a single file of another name was transferred to: a copy of *)
(* a/f over f can have the size and the second of the other side's f, and   *)
(* no test of the walk can tell.                                            *)
SkipIsSound ==
    AllIdle => \A p \in Paths \ renamed : LooksSame(p) => SameContents(p)

(* What a success means: when every one of a group of overlapping transfers *)
(* has been answered, and no fault happened meanwhile, a directory whose    *)
(* transfer succeeded is at the destination with all its directories and    *)
(* files, contents included (again but for the renamed ones); and if only   *)
(* directories were transferred, doing it again would find every file in    *)
(* place.                                                                   *)
OnlyDirectories == \A y \in Transfers : res[y] # "none" => OfDirectory(y)

OkMeansSynced ==
    AllIdle /\ ~dirty =>
        \A x \in Transfers : res[x] = "ok" /\ OfDirectory(x) =>
            \A p \in Paths : IsPrefix(req[x].path, p) /\ Exists(Source, p) =>
                /\ fs[Dest][p].kind = fs[Source][p].kind
                /\ IsFile(Source, p) /\ p \notin renamed =>
                      /\ SameContents(p)
                      /\ OnlyDirectories => LooksSame(p)

(* Without a fault a directory transfer fails for one reason only: a file   *)
(* stands at the destination where the source has a directory, or the       *)
(* reverse.  No interleaving of two transfers makes one fail.               *)
FailsOnConflictOnly ==
    AllIdle /\ ~dirty =>
        \A x \in Transfers : res[x] = "error" /\ OfDirectory(x) =>
            \E p \in Paths :
                \/ IsDir(Source, p) /\ IsFile(Dest, p)
                \/ IsFile(Source, p) /\ IsDir(Dest, p)
=============================================================================
