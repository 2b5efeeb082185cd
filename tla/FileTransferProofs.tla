------------------------- MODULE FileTransferProofs -------------------------
(***************************************************************************)
(* Proofs about FileTransfer: for any number of requests, any finite or    *)
(* infinite tree of paths and any sizes, two files that a walk takes for   *)
(* identical are identical, a directory transfer that succeeded has        *)
(* brought everything over, and one that failed without a fault met a      *)
(* conflict of kinds.                                                      *)
(***************************************************************************)
EXTENDS FileTransfer, SequenceTheorems, TLAPS

-----------------------------------------------------------------------------
(* Paths: which directory is above which.                                   *)

(* A prefix in terms of the names of the two paths.                         *)
LEMMA PrefixByNames ==
  ASSUME NEW p \in Seq(STRING), NEW q \in Seq(STRING)
  PROVE  IsPrefix(q, p) <=> Len(q) <= Len(p) /\ \A i \in 1..Len(q) : q[i] = p[i]
<1>1. SubSeq(q, 1, Len(q)) = q
  BY SubSeqFull
<1>2. ASSUME Len(q) <= Len(p)
      PROVE  /\ SubSeq(p, 1, Len(q)) \in Seq(STRING)
             /\ Len(SubSeq(p, 1, Len(q))) = Len(q)
             /\ \A i \in 1..Len(q) : SubSeq(p, 1, Len(q))[i] = p[i]
  BY <1>2, SubSeqProperties
<1>3. ASSUME Len(q) <= Len(p), \A i \in 1..Len(q) : q[i] = p[i]
      PROVE  q = SubSeq(p, 1, Len(q))
  <2> DEFINE s == SubSeq(p, 1, Len(q))
  <2>1. s \in Seq(STRING) /\ Len(s) = Len(q) /\ \A i \in 1..Len(q) : s[i] = p[i]
    BY <1>2, <1>3
  <2> HIDE DEF s
  <2>2. \A i \in 1..Len(q) : q[i] = s[i]
    BY <1>3, <2>1
  <2>3. q = s
    BY <2>1, <2>2, SeqEqual
  <2> QED BY <2>3 DEF s
<1> QED BY <1>1, <1>2, <1>3 DEF IsPrefix

(* Being above is an order, and the directories above one path are in line. *)
LEMMA PrefixOrder ==
  /\ \A p \in Paths : IsPrefix(p, p) /\ IsPrefix(Root, p)
  /\ \A p, q \in Paths : IsPrefix(p, q) /\ IsPrefix(q, p) => p = q
  /\ \A p, q, r \in Paths : IsPrefix(p, q) /\ IsPrefix(q, r) => IsPrefix(p, r)
<1>1. \A p \in Paths : p \in Seq(STRING)
  BY PathsAssumption
<1>2. \A p \in Paths : IsPrefix(p, p)
  BY <1>1, PrefixByNames
<1>3. Root \in Seq(STRING) /\ Len(Root) = 0
  BY DEF Root
<1>4. ASSUME NEW p \in Paths
      PROVE  IsPrefix(Root, p)
  <2>1. Len(Root) <= Len(p) /\ \A i \in 1..Len(Root) : Root[i] = p[i]
    BY <1>1, <1>3
  <2> QED BY <1>1, <1>3, <2>1, PrefixByNames
<1>5. ASSUME NEW p \in Paths, NEW q \in Paths, IsPrefix(p, q), IsPrefix(q, p)
      PROVE  p = q
  <2>1. Len(p) = Len(q) /\ \A i \in 1..Len(p) : p[i] = q[i]
    BY <1>1, <1>5, PrefixByNames
  <2> QED BY <1>1, <2>1, SeqEqual
<1>6. ASSUME NEW p \in Paths, NEW q \in Paths, NEW r \in Paths, IsPrefix(p, q), IsPrefix(q, r)
      PROVE  IsPrefix(p, r)
  <2>1. /\ Len(p) <= Len(q) /\ \A i \in 1..Len(p) : p[i] = q[i]
        /\ Len(q) <= Len(r) /\ \A i \in 1..Len(q) : q[i] = r[i]
    BY <1>1, <1>6, PrefixByNames
  <2>2. Len(p) <= Len(r) /\ \A i \in 1..Len(p) : p[i] = r[i]
    BY <1>1, <2>1
  <2> QED BY <1>1, <2>2, PrefixByNames
<1> QED BY <1>2, <1>4, <1>5, <1>6

(* The parent of a path is directly above it.                               *)
LEMMA ParentAbove ==
  ASSUME NEW p \in Paths, p # Root
  PROVE  /\ Parent(p) \in Paths /\ Parent(p) # p /\ IsPrefix(Parent(p), p)
         /\ \A q \in Paths : IsPrefix(q, p) /\ q # p => IsPrefix(q, Parent(p))
<1>1. p \in Seq(STRING) /\ Len(p) \in Nat /\ Len(p) # 0
  BY PathsAssumption, EmptySeq DEF Root
<1> DEFINE d == SubSeq(p, 1, Len(p) - 1)
<1>2. /\ d \in Seq(STRING) /\ Len(d) = Len(p) - 1
      /\ \A i \in 1..(Len(p) - 1) : d[i] = p[i]
  <2> DEFINE n == Len(p) - 1
  <2>1. n \in Nat /\ n = Len(p) - 1 /\ \A i \in 1..n : p[i] \in STRING
    BY <1>1
  <2> HIDE DEF n
  <2>2. /\ SubSeq(p, 1, n) \in Seq(STRING)
        /\ Len(SubSeq(p, 1, n)) = IF 1 <= n THEN n - 1 + 1 ELSE 0
        /\ \A i \in 1..(n - 1 + 1) : SubSeq(p, 1, n)[i] = p[1 + i - 1]
    BY <1>1, <2>1, SubSeqProperties
  <2> QED BY <1>1, <2>1, <2>2
<1>3. d \in Paths
  BY <1>1, PathsAssumption
<1> HIDE DEF d
<1>4. d # p /\ IsPrefix(d, p)
  BY <1>1, <1>2, PrefixByNames
<1>5. ASSUME NEW q \in Paths, IsPrefix(q, p), q # p
      PROVE  IsPrefix(q, d)
  <2>1. q \in Seq(STRING)
    BY PathsAssumption
  <2>2. Len(q) <= Len(p) /\ \A i \in 1..Len(q) : q[i] = p[i]
    BY <1>1, <1>5, <2>1, PrefixByNames
  <2>3. Len(q) # Len(p)
    BY <1>1, <1>5, <2>1, <2>2, SeqEqual
  <2>4. Len(q) <= Len(d) /\ \A i \in 1..Len(q) : q[i] = d[i]
    BY <1>1, <1>2, <2>1, <2>2, <2>3
  <2> QED BY <1>2, <2>1, <2>4, PrefixByNames
<1> QED BY <1>3, <1>4, <1>5 DEF d, Parent, Front

(* A directory above a path has an entry that is the path or above it.      *)
LEMMA ChildTowards ==
  ASSUME NEW d \in Paths, NEW p \in Paths, IsPrefix(d, p), d # p
  PROVE  \E c \in Paths : c # Root /\ Parent(c) = d /\ IsPrefix(c, p)
<1>1. d \in Seq(STRING) /\ p \in Seq(STRING) /\ Len(d) \in Nat /\ Len(p) \in Nat
  BY PathsAssumption
<1>2. Len(d) <= Len(p) /\ \A i \in 1..Len(d) : d[i] = p[i]
  BY <1>1, PrefixByNames
<1>3. Len(d) < Len(p)
  BY <1>1, <1>2, SeqEqual
<1> DEFINE n == Len(d) + 1
           c == SubSeq(p, 1, n)
<1>4. n \in 0..Len(p)
  BY <1>1, <1>3
<1>5. c \in Paths
  BY <1>4, PathsAssumption
<1>6. /\ c \in Seq(STRING) /\ Len(c) = n
      /\ \A i \in 1..n : c[i] = p[i]
  BY <1>1, <1>4, SubSeqProperties
<1> DEFINE e == SubSeq(c, 1, n - 1)
<1> HIDE DEF c
<1>7. /\ e \in Seq(STRING) /\ Len(e) = n - 1
      /\ \A i \in 1..(n - 1) : e[i] = c[i]
  BY <1>1, <1>6, SubSeqProperties
<1>8. Parent(c) = e
  BY <1>6 DEF Parent, Front
<1> HIDE DEF e
<1>9. Len(e) = Len(d) /\ \A i \in 1..Len(d) : e[i] = d[i]
  BY <1>1, <1>2, <1>6, <1>7
<1>10. e = d
  BY <1>1, <1>7, <1>9, SeqEqual
<1>11. IsPrefix(c, p)
  BY <1>1, <1>4, <1>6, PrefixByNames
<1>12. c # Root
  BY <1>1, <1>6 DEF Root
<1> QED BY <1>5, <1>8, <1>10, <1>11, <1>12

-----------------------------------------------------------------------------
(* Entries of the trees.                                                    *)

(* The largest size is a size, and the bound of all of them.                *)
LEMMA MaxOfSizes == Max(Sizes) \in Nat /\ \A n \in Sizes : n <= Max(Sizes)
<1>1. \E m \in Sizes : \A n \in Sizes : m >= n
  BY SizesAssumption
<1>2. Max(Sizes) \in Sizes /\ \A n \in Sizes : Max(Sizes) >= n
  BY <1>1 DEF Max
<1> QED BY <1>2, SizesAssumption

(* What an entry of a tree is made of.                                      *)
LEMMA EntryFacts ==
  ASSUME NEW e \in Entries
  PROVE  /\ e.kind \in {"none", "dir", "file"}
         /\ e.blocks \in Seq(0..MaxClock) /\ Len(e.blocks) \in 0..Max(Sizes)
         /\ e.mtime \in 0..MaxClock
         /\ e.kind # "file" => e.blocks = <<>> /\ e.mtime = 0
         /\ e.kind = "dir" => e = Dir
         /\ e.kind = "none" => e = Nothing
<1> USE MaxOfSizes, BoundsAssumption
<1>1. CASE e \in {Nothing, Dir}
  <2>1. <<>> \in Seq(0..MaxClock) /\ Len(<<>>) = 0
    OBVIOUS
  <2>2. e.blocks = <<>> /\ e.mtime = 0 /\ e.kind \in {"none", "dir"}
        /\ (e.kind = "dir" => e = Dir) /\ (e.kind = "none" => e = Nothing)
    BY <1>1 DEF Nothing, Dir
  <2> QED BY <2>1, <2>2
<1>2. ASSUME NEW b \in SeqOf(Hole..MaxClock, Max(Sizes)), NEW t \in 0..MaxClock,
             e = File(b, t)
      PROVE  /\ e.kind = "file" /\ e.blocks = b /\ e.mtime \in 0..MaxClock
             /\ b \in Seq(0..MaxClock) /\ Len(b) \in 0..Max(Sizes)
  <2>1. PICK m \in 0..Max(Sizes) : b \in [1..m -> 0..MaxClock]
    BY <1>2 DEF SeqOf, Hole
  <2>2. b \in Seq(0..MaxClock) /\ Len(b) = m
    BY <2>1
  <2> QED BY <1>2, <2>2 DEF File
<1> QED BY <1>1, <1>2 DEF Entries

(* A file with few enough blocks is an entry.                               *)
LEMMA FileIsEntry ==
  ASSUME NEW b \in Seq(0..MaxClock), Len(b) <= Max(Sizes), NEW t \in 0..MaxClock
  PROVE  File(b, t) \in Entries
<1> USE MaxOfSizes, BoundsAssumption
<1>1. Len(b) \in 0..Max(Sizes) /\ b \in [1..Len(b) -> 0..MaxClock]
  OBVIOUS
<1>2. b \in SeqOf(Hole..MaxClock, Max(Sizes))
  BY <1>1 DEF SeqOf, Hole
<1> QED BY <1>2 DEF Entries

(* A write at block i leaves the other blocks alone and makes the file just *)
(* long enough.                                                             *)
LEMMA WriteAtBlock ==
  ASSUME NEW b \in Seq(0..MaxClock), NEW i \in 1..Max(Sizes), NEW v \in 0..MaxClock,
         Len(b) <= Max(Sizes)
  PROVE  /\ WriteAt(b, i, v) \in Seq(0..MaxClock)
         /\ Len(WriteAt(b, i, v)) = IF i > Len(b) THEN i ELSE Len(b)
         /\ Len(WriteAt(b, i, v)) <= Max(Sizes)
         /\ WriteAt(b, i, v)[i] = v
         /\ \A j \in 1..Len(b) : j # i => WriteAt(b, i, v)[j] = b[j]
<1> USE MaxOfSizes, BoundsAssumption
<1> DEFINE m == IF i > Len(b) THEN i ELSE Len(b)
<1>1. m \in Nat /\ m <= Max(Sizes) /\ i \in 1..m /\ Len(b) \in 0..m
  OBVIOUS
<1>2. WriteAt(b, i, v) = [j \in 1..m |->
        IF j = i THEN v ELSE IF j <= Len(b) THEN b[j] ELSE Hole]
  BY DEF WriteAt
<1> HIDE DEF m
<1>3. WriteAt(b, i, v) \in [1..m -> 0..MaxClock]
  BY <1>1, <1>2 DEF Hole
<1>4. WriteAt(b, i, v) \in Seq(0..MaxClock) /\ Len(WriteAt(b, i, v)) = m
  BY <1>1, <1>3
<1>5. /\ WriteAt(b, i, v)[i] = v
      /\ \A j \in 1..Len(b) : j # i => WriteAt(b, i, v)[j] = b[j]
  BY <1>1, <1>2
<1> QED BY <1>1, <1>4, <1>5 DEF m

(* The source and the destination are the two sides.                        *)
LEMMA TwoSides ==
  /\ Source \in Sides /\ Dest \in Sides /\ Source # Dest
  /\ \A s \in Sides : s = Source \/ s = Dest
BY DEF Source, Dest, Sides

(* What the trees hold, without the construction of Entries.                *)
LEMMA TreeFacts ==
  ASSUME TypeOK, NEW s \in Sides, NEW p \in Paths
  PROVE  /\ fs[s][p] \in Entries
         /\ fs[s][p].kind \in {"none", "dir", "file"}
         /\ fs[s][p].blocks \in Seq(0..MaxClock)
         /\ Len(fs[s][p].blocks) \in Nat /\ Len(fs[s][p].blocks) <= Max(Sizes)
         /\ fs[s][p].mtime \in Nat /\ fs[s][p].mtime <= MaxClock
<1>1. fs[s][p] \in Entries
  BY DEF TypeOK
<1> QED BY <1>1, EntryFacts, MaxOfSizes, BoundsAssumption

-----------------------------------------------------------------------------
(* What the actions do to the trees.                                        *)

(* The directories made on the way to a path, and nothing else.             *)
LEMMA MadeDirs ==
  ASSUME NEW tree \in [Paths -> Entries], NEW p
  PROVE  /\ WithDirs(tree, p) \in [Paths -> Entries]
         /\ \A q \in Paths : WithDirs(tree, p)[q] =
               IF IsPrefix(q, p) /\ tree[q].kind = "none" THEN Dir ELSE tree[q]
<1>1. Dir \in Entries
  BY DEF Entries
<1> QED BY <1>1 DEF WithDirs

(* One entry of one tree replaced.                                          *)
LEMMA OneEntry ==
  ASSUME TypeOK, NEW s \in Sides, NEW p \in Paths, NEW e \in Entries,
         fs' = [fs EXCEPT ![s][p] = e]
  PROVE  /\ fs' \in [Sides -> [Paths -> Entries]]
         /\ fs'[s][p] = e
         /\ \A q \in Paths : q # p => fs'[s][q] = fs[s][q]
         /\ \A t \in Sides : t # s => fs'[t] = fs[t]
BY DEF TypeOK

(* VisitDir and Create: what the destination becomes.                       *)
LEMMA DirsMade ==
  ASSUME TypeOK, NEW x \in Transfers, NEW e \in todo[x], VisitDir(x, e)
  PROVE  /\ fs' \in [Sides -> [Paths -> Entries]] /\ fs'[Source] = fs[Source]
         /\ e.path \in Paths /\ e.info \in Entries
         /\ \A q \in Paths : fs'[Dest][q] =
               IF IsPrefix(q, e.path) /\ ~Exists(Dest, q) THEN Dir ELSE fs[Dest][q]
<1>1. fs \in [Sides -> [Paths -> Entries]] /\ fs[Dest] \in [Paths -> Entries]
  BY TwoSides DEF TypeOK
<1>2. fs' = [fs EXCEPT ![Dest] = WithDirs(fs[Dest], e.path)]
  BY DEF VisitDir
<1>3. e.path \in Paths /\ e.info \in Entries
  BY DEF TypeOK
<1>4. fs' \in [Sides -> [Paths -> Entries]] /\ fs'[Source] = fs[Source]
      /\ fs'[Dest] = WithDirs(fs[Dest], e.path)
  BY <1>1, <1>2, MadeDirs, TwoSides
<1> QED BY <1>1, <1>3, <1>4, MadeDirs DEF Exists

(* Create: the file is there and empty, the directories above it are there, *)
(* and every other entry is as it was.                                      *)
LEMMA FileCreated ==
  ASSUME TypeOK, NEW x \in Transfers, Create(x)
  PROVE  LET p == cur[x].target IN
         /\ fs' \in [Sides -> [Paths -> Entries]] /\ fs'[Source] = fs[Source]
         /\ p \in Paths /\ fs'[Dest][p] = File(<<>>, clock)
         /\ \A q \in Paths : q # p => fs'[Dest][q] =
               IF IsPrefix(q, Parent(p)) /\ ~Exists(Dest, q) THEN Dir ELSE fs[Dest][q]
<1> DEFINE p == cur[x].target
           tree == WithDirs(fs[Dest], Parent(p))
<1>1. fs \in [Sides -> [Paths -> Entries]] /\ fs[Dest] \in [Paths -> Entries]
  BY TwoSides DEF TypeOK
<1>2. p \in Paths /\ clock \in 0..MaxClock
  BY DEF TypeOK
<1>3. File(<<>>, clock) \in Entries
  <2> DEFINE b == <<>>
  <2>1. b \in Seq(0..MaxClock) /\ Len(b) <= Max(Sizes)
    BY MaxOfSizes
  <2> HIDE DEF b
  <2>2. File(b, clock) \in Entries
    BY <1>2, <2>1, FileIsEntry
  <2> QED BY <2>2 DEF b
<1>4. fs' = [fs EXCEPT ![Dest] = [tree EXCEPT ![p] = File(<<>>, clock)]]
  BY DEF Create
<1>5. tree \in [Paths -> Entries]
      /\ \A q \in Paths : tree[q] =
            IF IsPrefix(q, Parent(p)) /\ ~Exists(Dest, q) THEN Dir ELSE fs[Dest][q]
  BY <1>1, MadeDirs DEF Exists
<1> HIDE DEF p, tree
<1>6. fs' \in [Sides -> [Paths -> Entries]] /\ fs'[Source] = fs[Source]
      /\ fs'[Dest] = [tree EXCEPT ![p] = File(<<>>, clock)]
  BY <1>1, <1>2, <1>3, <1>4, <1>5, TwoSides
<1>7. fs'[Dest][p] = File(<<>>, clock) /\ \A q \in Paths : q # p => fs'[Dest][q] = tree[q]
  BY <1>2, <1>5, <1>6
<1> QED BY <1>2, <1>5, <1>6, <1>7 DEF p

(* CopyBlock: one block of the destination becomes that of the source, its  *)
(* other blocks and the other files stay, and the file is as long as the    *)
(* write needs.                                                             *)
LEMMA BlockCopied ==
  ASSUME TypeOK, NEW x \in Transfers, CopyBlock(x)
  PROVE  LET i == pos[x] + 1
             from == fs[Source][cur[x].path].blocks
             p == cur[x].target
             b == fs[Dest][p].blocks
             c == fs'[Dest][p].blocks
         IN /\ fs' \in [Sides -> [Paths -> Entries]] /\ fs'[Source] = fs[Source]
            /\ p \in Paths /\ fs'[Dest][p].kind = "file" /\ fs'[Dest][p].mtime = clock
            /\ \A q \in Paths : q # p => fs'[Dest][q] = fs[Dest][q]
            /\ i \in 1..Max(Sizes) /\ i <= Len(from)
            /\ Len(c) = IF i > Len(b) THEN i ELSE Len(b)
            /\ c[i] = from[i]
            /\ \A j \in 1..Len(b) : j # i => c[j] = b[j]
<1> DEFINE i == pos[x] + 1
           from == fs[Source][cur[x].path].blocks
           p == cur[x].target
           b == fs[Dest][p].blocks
           w == WriteAt(b, i, from[i])
<1>1. /\ p \in Paths /\ cur[x].path \in Paths
      /\ clock \in 0..MaxClock /\ pos[x] \in 0..Max(Sizes)
  BY DEF TypeOK
<1>2. b \in Seq(0..MaxClock) /\ Len(b) <= Max(Sizes)
  BY <1>1, TwoSides, TreeFacts
<1>3. from \in Seq(0..MaxClock) /\ Len(from) \in Nat /\ Len(from) <= Max(Sizes)
  BY <1>1, TwoSides, TreeFacts
<1>4. i <= Len(from) /\ fs' = [fs EXCEPT ![Dest][p] = File(w, clock)]
  BY DEF CopyBlock
<1> HIDE DEF b, from, p
<1>5. i \in 1..Max(Sizes) /\ from[i] \in 0..MaxClock
  <2>1. i \in 1..Len(from)
    BY <1>1, <1>3, <1>4, MaxOfSizes
  <2> HIDE DEF i
  <2>2. i \in 1..Max(Sizes)
    BY <1>3, <2>1, MaxOfSizes
  <2>3. from[i] \in 0..MaxClock
    BY <1>3, <2>1, ElementOfSeq
  <2> QED BY <2>2, <2>3
<1> HIDE DEF i
<1>6. /\ w \in Seq(0..MaxClock)
      /\ Len(w) = IF i > Len(b) THEN i ELSE Len(b)
      /\ Len(w) <= Max(Sizes)
      /\ w[i] = from[i]
      /\ \A j \in 1..Len(b) : j # i => w[j] = b[j]
  BY <1>2, <1>5, WriteAtBlock
<1> HIDE DEF w
<1>7. File(w, clock) \in Entries
  BY <1>1, <1>6, FileIsEntry
<1>8. /\ fs' \in [Sides -> [Paths -> Entries]] /\ fs'[Source] = fs[Source]
      /\ fs'[Dest][p] = File(w, clock)
      /\ \A q \in Paths : q # p => fs'[Dest][q] = fs[Dest][q]
  <2>1. Dest \in Sides /\ Source \in Sides /\ Source # Dest
    BY TwoSides
  <2> QED BY <1>1, <1>4, <1>7, <2>1, OneEntry
<1>9. fs'[Dest][p].blocks = w /\ fs'[Dest][p].kind = "file" /\ fs'[Dest][p].mtime = clock
  BY <1>8 DEF File
<1> QED BY <1>1, <1>4, <1>5, <1>6, <1>8, <1>9 DEF b, from, p, i

(* Chtimes and setFileTimes: the time of the copied file, and nothing else. *)
LEMMA TimesSet ==
  ASSUME TypeOK, NEW x \in Transfers, SetTimes(x), IsFile(Dest, cur[x].target)
  PROVE  LET p == cur[x].target IN
         /\ fs' \in [Sides -> [Paths -> Entries]] /\ fs'[Source] = fs[Source]
         /\ p \in Paths /\ fs'[Dest][p].kind = "file"
         /\ fs'[Dest][p].mtime = cur[x].mtime
         /\ fs'[Dest][p].blocks = fs[Dest][p].blocks
         /\ \A q \in Paths : q # p => fs'[Dest][q] = fs[Dest][q]
<1> DEFINE p == cur[x].target
           e == [fs[Dest][p] EXCEPT !.mtime = cur[x].mtime]
<1>1. p \in Paths /\ cur[x].mtime \in 0..MaxClock
  BY DEF TypeOK
<1>2. fs[Dest][p] \in Entries /\ fs[Dest][p].kind = "file"
  BY <1>1, TwoSides, TreeFacts DEF IsFile
<1>3. PICK b \in SeqOf(Hole..MaxClock, Max(Sizes)), t \in 0..MaxClock :
        fs[Dest][p] = File(b, t)
  BY <1>2 DEF Entries, Nothing, Dir
<1>4. e = File(b, cur[x].mtime) /\ fs[Dest][p].blocks = b
  BY <1>3 DEF File
<1>5. e \in Entries
  BY <1>1, <1>4 DEF Entries
<1>6. fs' = [fs EXCEPT ![Dest][p] = e]
  BY DEF SetTimes
<1>7. e.kind = "file" /\ e.mtime = cur[x].mtime /\ e.blocks = fs[Dest][p].blocks
  BY <1>4 DEF File
<1> HIDE DEF e, p
<1>8. /\ fs' \in [Sides -> [Paths -> Entries]] /\ fs'[Source] = fs[Source]
      /\ fs'[Dest][p] = e
      /\ \A q \in Paths : q # p => fs'[Dest][q] = fs[Dest][q]
  <2>1. Dest \in Sides /\ Source \in Sides /\ Source # Dest
    BY TwoSides
  <2> QED BY <1>1, <1>5, <1>6, <2>1, OneEntry
<1> QED BY <1>1, <1>7, <1>8 DEF p

(* An edit of a user: a new version of one file, written in the new second. *)
LEMMA FileEdited ==
  ASSUME TypeOK, NEW side \in Sides, NEW p \in Paths, NEW n \in Sizes, Edit(side, p, n)
  PROVE  /\ fs' \in [Sides -> [Paths -> Entries]]
         /\ fs'[side][p].kind = "file" /\ fs'[side][p].mtime = clock + 1
         /\ \A q \in Paths : q # p => fs'[side][q] = fs[side][q]
         /\ \A t \in Sides : t # side => fs'[t] = fs[t]
<1> DEFINE b == [i \in 1..n |-> clock + 1]
<1>1. clock + 1 \in 0..MaxClock /\ n \in Nat /\ n <= Max(Sizes)
  BY SizesAssumption, MaxOfSizes, BoundsAssumption DEF TypeOK, Edit
<1>2. b \in Seq(0..MaxClock) /\ Len(b) = n
  BY <1>1
<1>3. fs' = [fs EXCEPT ![side][p] = File(b, clock + 1)]
  BY DEF Edit
<1> HIDE DEF b
<1>4. File(b, clock + 1) \in Entries
  BY <1>1, <1>2, FileIsEntry
<1>5. /\ fs' \in [Sides -> [Paths -> Entries]]
      /\ fs'[side][p] = File(b, clock + 1)
      /\ \A q \in Paths : q # p => fs'[side][q] = fs[side][q]
      /\ \A t \in Sides : t # side => fs'[t] = fs[t]
  BY <1>3, <1>4, OneEntry
<1> QED BY <1>5 DEF File

-----------------------------------------------------------------------------
(* The inductive invariant.                                                 *)

(* The entry at a path of the source, and at the same path of the           *)
(* destination.                                                             *)
Src(p) == fs[Source][p]
Dst(p) == fs[Dest][p]

(* A transfer that has a file in hand, one that has it open for writing,    *)
(* and those that have the file p open.                                     *)
HasFile(x) == pc[x] \in {"create", "copy", "times"}
Writing(x) == pc[x] \in {"copy", "times"}
Writers(p) == {x \in Transfers : Writing(x) /\ cur[x].target = p}

(* The source is still as old as the stat that the transfer goes by.        *)
Fresh(x) == Src(cur[x].path).mtime = cur[x].mtime

(* No edit can have changed the source under a running transfer.            *)
Undisturbed == ~dirty \/ ("edit" \notin faults /\ "editUpload" \notin faults)

(* The faults that the skip test is a match for: interruptions alone, or    *)
(* overlapping transfers and edits, single-file uploads excepted.  Any      *)
(* other pair can leave a file that the next walk skips wrongly.            *)
Tolerated(F) == F \subseteq {"interrupt"} \/ F \subseteq {"overlap", "edit"}

(* The blocks that x has copied are those of the source.                    *)
Copied(x) ==
    \A i \in 1..pos[x] :
        /\ i <= Len(Dst(cur[x].target).blocks) /\ i <= Len(Src(cur[x].path).blocks)
        /\ Dst(cur[x].target).blocks[i] = Src(cur[x].path).blocks[i]

(* Who can run together.                                                    *)
ModesInv ==
    /\ "overlap" \notin faults =>
          \A x, y \in Transfers : Running(x) /\ Running(y) => x = y
    /\ \A x \in Transfers : Running(x) => res[x] = "none"

(* The trees are trees, and nothing in them is newer than now.              *)
TreeInv ==
    /\ \A s \in Sides : IsDir(s, Root)
    /\ \A s \in Sides : \A p, q \in Paths :
          Exists(s, p) /\ IsPrefix(q, p) /\ q # p => IsDir(s, q)
    /\ \A s \in Sides : \A p \in Paths : fs[s][p].mtime <= clock

(* What a walk has still to visit is in the source, at least as old as the  *)
(* source says, and exactly so if nothing has changed.                      *)
TodoOK(x) ==
    /\ pc[x] = "walk" => OfDirectory(x)
    /\ todo[x] # {} => Running(x) /\ OfDirectory(x)
    /\ \A e \in todo[x] :
          /\ e.info.kind = Src(e.path).kind /\ e.info.kind # "none"
          /\ e.info.mtime <= Src(e.path).mtime
          /\ Undisturbed => e.info = Src(e.path)

TodoInv == \A x \in Transfers : TodoOK(x)

(* The file being copied.                                                   *)
CurOK(x) ==
    /\ pc[x] # "copy" => pos[x] = 0
    /\ HasFile(x) =>
          /\ IsFile(Source, cur[x].path)
          /\ cur[x].mtime <= Src(cur[x].path).mtime
          /\ cur[x].target = cur[x].path \/ (cur[x].target \in renamed /\ ~OfDirectory(x))
          /\ Writing(x) => IsFile(Dest, cur[x].target)
          /\ Undisturbed => Fresh(x)
          /\ "editUpload" \notin faults /\ ~SetsTimes(x) => Fresh(x)
          /\ pc[x] = "times" => SetsTimes(x)

CurInv == \A x \in Transfers : CurOK(x)

(* A transfer that runs alone has written what it has read, as long as the  *)
(* file it reads is the one it looked at.                                   *)
AloneOK(x) == "overlap" \notin faults /\ Fresh(x) =>
    /\ pc[x] = "copy" => Copied(x) /\ Len(Dst(cur[x].target).blocks) = pos[x]
    /\ pc[x] = "times" => Dst(cur[x].target).blocks = Src(cur[x].path).blocks
AloneInv == \A x \in Transfers : AloneOK(x)

(* Of the transfers that write one file together one still has to copy what *)
(* the last truncation took away, unless the file is complete: as long as   *)
(* one of them has looked at the source as it is now, and truncated the     *)
(* file after that.                                                         *)
Whole(p) ==
    /\ Len(Dst(p).blocks) <= Len(Src(p).blocks)
    /\ \/ Dst(p).blocks = Src(p).blocks
       \/ \E z \in Writers(p) : pc[z] = "copy" /\ Copied(z)
Uninterrupted == ~dirty \/ "interrupt" \notin faults
Guarded(p) == Uninterrupted /\ \E z \in Writers(p) : Fresh(z)
GroupInv == \A p \in Paths \ renamed : Guarded(p) => Whole(p)

(* Two files of one second agree as far as both go.                         *)
Agree(p) == IsFile(Source, p) /\ IsFile(Dest, p) /\ Src(p).mtime = Dst(p).mtime =>
    \A i \in 1..Len(Src(p).blocks) :
        i <= Len(Dst(p).blocks) => Src(p).blocks[i] = Dst(p).blocks[i]
AgreeInv == Tolerated(faults) =>
    \A p \in Paths \ renamed : Writers(p) = {} => Agree(p)

(* What a directory transfer has still to do, and what it has done.         *)
OnAgenda(x, p) ==
    \/ pc[x] = "stat"
    \/ \E e \in todo[x] : IsPrefix(e.path, p)
    \/ pc[x] = "create" /\ cur[x].path = p
FileDone(p) ==
    \/ Writers(p) # {}
    \/ /\ Dst(p).blocks = Src(p).blocks
       /\ OnlyDirectories => Dst(p).mtime = Src(p).mtime
Done(p) ==
    /\ Dst(p).kind = Src(p).kind
    /\ Tolerated(faults) /\ IsFile(Source, p) /\ p \notin renamed => FileDone(p)
Entrusted(x, p) ==
    /\ OfDirectory(x) /\ (Running(x) \/ res[x] = "ok")
    /\ IsPrefix(req[x].path, p) /\ Exists(Source, p)
DoneInv == ~dirty => \A x \in Transfers, p \in Paths :
    Entrusted(x, p) => OnAgenda(x, p) \/ Done(p)

(* A directory transfer has failed: there is a conflict.                    *)
KindConflict(p) ==
    \/ IsDir(Source, p) /\ IsFile(Dest, p)
    \/ IsFile(Source, p) /\ IsDir(Dest, p)
ConflictInv == ~dirty => \A x \in Transfers :
    res[x] = "error" /\ OfDirectory(x) => \E p \in Paths : KindConflict(p)

(* The invariant: every part of it is needed by another, or by a theorem.   *)
FInv ==
    /\ TypeOK /\ ModesInv /\ TreeInv /\ TodoInv /\ CurInv
    /\ AloneInv /\ GroupInv /\ AgreeInv /\ DoneInv /\ ConflictInv

(* The trees before the first request: the invariant holds, no transfer     *)
(* having been asked for.                                                   *)
LEMMA InitFInv == Init => FInv
<1> SUFFICES ASSUME Init PROVE FInv
  OBVIOUS
<1>1. /\ \A x \in Transfers : pc[x] = "idle" /\ res[x] = "none" /\ todo[x] = {} /\ pos[x] = 0
      /\ dirty = FALSE
  BY DEF Init
<1>2. Root \in Paths /\ Dir \in Entries /\ Nothing \in Entries
  BY PathsAssumption DEF Entries
<1>3. \A s \in Sides : \A p \in Paths :
        fs[s][p] = IF p = Root \/ (s = "local" /\ p \in LocalDirs) THEN Dir ELSE Nothing
  BY DEF Init
<1>4. fs \in [Sides -> [Paths -> Entries]]
  BY <1>2 DEF Init
<1>5. TypeOK
  <2>1. req \in [Transfers -> Requests]
    <3>1. IsPrefix(Root, Root)
      BY <1>2, PrefixOrder
    <3>2. [path |-> Root, target |-> Root, slash |-> FALSE] \in Requests
      BY <1>2, <3>1 DEF Requests
    <3> QED BY <3>2 DEF Init
  <2>2. cur \in [Transfers -> [path : Paths, mtime : 0..MaxClock, target : Paths]]
    BY <1>2, BoundsAssumption DEF Init, NoCur
  <2>3. todo \in [Transfers -> SUBSET [path : Paths, info : Entries]]
    BY DEF Init
  <2>4. pos \in [Transfers -> 0..Max(Sizes)]
    BY MaxOfSizes DEF Init
  <2>5. /\ pc \in [Transfers -> {"idle", "stat", "walk", "create", "copy", "times"}]
        /\ res \in [Transfers -> {"none", "ok", "error"}]
        /\ renamed \subseteq Paths /\ faults \in FaultSets
        /\ up \in BOOLEAN /\ dirty \in BOOLEAN
    BY DEF Init
  <2>6. clock \in 0..MaxClock /\ asked \in 0..MaxRequests
    BY BoundsAssumption DEF Init
  <2> QED BY <1>4, <2>1, <2>2, <2>3, <2>4, <2>5, <2>6 DEF TypeOK
<1>6. ModesInv
  BY <1>1 DEF ModesInv, Running
<1>7. TreeInv
  <2>1. \A s \in Sides : IsDir(s, Root)
    BY <1>2, <1>3 DEF IsDir, Dir
  <2>2. ASSUME NEW s \in Sides, NEW p \in Paths, NEW q \in Paths,
               Exists(s, p), IsPrefix(q, p), q # p
        PROVE  IsDir(s, q)
    <3>1. p = Root \/ (s = "local" /\ p \in LocalDirs)
      BY <1>3, <2>2 DEF Exists, Nothing
    <3>2. q \in Seq(STRING) /\ p \in Seq(STRING)
      BY PathsAssumption
    <3>3. Len(q) <= Len(p) /\ SubSeq(p, 1, Len(q)) = q
      BY <2>2, <3>2, SubSeqFull DEF IsPrefix
    <3>4. CASE q = Root
      BY <1>3, <3>4 DEF IsDir, Dir
    <3>5. CASE q # Root
      <4>1. Len(q) \in 1..Len(p)
        BY <3>2, <3>3, <3>5, EmptySeq DEF Root
      <4>2. p # Root
        BY <4>1 DEF Root
      <4>3. q \in LocalDirs
        BY <3>1, <3>3, <4>1, <4>2, PathsAssumption
      <4> QED BY <1>3, <3>1, <4>2, <4>3 DEF IsDir, Dir
    <3> QED BY <3>4, <3>5
  <2>3. \A s \in Sides : \A p \in Paths : fs[s][p].mtime = 0
    BY <1>3 DEF Dir, Nothing
  <2>4. clock = 0
    BY DEF Init
  <2> QED BY <2>1, <2>2, <2>3, <2>4 DEF TreeInv
<1>8. TodoInv /\ CurInv
  BY <1>1 DEF TodoInv, CurInv, TodoOK, CurOK, HasFile
<1>9. AloneInv /\ GroupInv
  BY <1>1 DEF AloneInv, AloneOK, GroupInv, Guarded, Writing, Writers
<1>10. AgreeInv
  <2>1. \A s \in Sides : \A p \in Paths : fs[s][p].kind # "file"
    BY <1>3 DEF Dir, Nothing
  <2> QED BY <2>1, TwoSides DEF AgreeInv, Agree, IsFile
<1>11. DoneInv /\ ConflictInv
  BY <1>1 DEF DoneInv, Entrusted, ConflictInv, Running
<1> QED BY <1>5, <1>6, <1>7, <1>8, <1>9, <1>10, <1>11 DEF FInv

-----------------------------------------------------------------------------
(* Returns.                                                                 *)

(* While the direction is the same, so are the source and the destination.  *)
LEMMA SidesStay == up' = up => Source' = Source /\ Dest' = Dest
BY DEF Source, Dest

(* A transfer that returns forgets what it was doing.                       *)
LEMMA ReturnEffects ==
  ASSUME TypeOK, NEW x \in Transfers, NEW ans \in {"ok", "error"}, Return(x, ans)
  PROVE  /\ pc' \in [Transfers -> {"idle", "stat", "walk", "create", "copy", "times"}]
         /\ res' \in [Transfers -> {"none", "ok", "error"}]
         /\ todo' \in [Transfers -> SUBSET [path : Paths, info : Entries]]
         /\ cur' \in [Transfers -> [path : Paths, mtime : 0..MaxClock, target : Paths]]
         /\ pos' \in [Transfers -> 0..Max(Sizes)]
         /\ pc'[x] = "idle" /\ res'[x] = ans /\ todo'[x] = {} /\ pos'[x] = 0
         /\ \A y \in Transfers : y # x =>
               /\ pc'[y] = pc[y] /\ res'[y] = res[y] /\ todo'[y] = todo[y]
               /\ cur'[y] = cur[y] /\ pos'[y] = pos[y]
<1>1. NoCur \in [path : Paths, mtime : 0..MaxClock, target : Paths]
  BY PathsAssumption, BoundsAssumption DEF NoCur
<1>2. cur' \in [Transfers -> [path : Paths, mtime : 0..MaxClock, target : Paths]]
      /\ \A y \in Transfers : y # x => cur'[y] = cur[y]
  BY <1>1 DEF TypeOK, Return
<1>3. /\ todo' \in [Transfers -> SUBSET [path : Paths, info : Entries]]
      /\ todo'[x] = {}
      /\ \A y \in Transfers : y # x => todo'[y] = todo[y]
  BY DEF TypeOK, Return
<1>4. /\ pos' \in [Transfers -> 0..Max(Sizes)] /\ pos'[x] = 0
      /\ \A y \in Transfers : y # x => pos'[y] = pos[y]
  BY MaxOfSizes DEF TypeOK, Return
<1>5. /\ pc' \in [Transfers -> {"idle", "stat", "walk", "create", "copy", "times"}]
      /\ res' \in [Transfers -> {"none", "ok", "error"}]
      /\ pc'[x] = "idle" /\ res'[x] = ans
      /\ \A y \in Transfers : y # x => pc'[y] = pc[y] /\ res'[y] = res[y]
  BY DEF TypeOK, Return
<1> QED BY <1>2, <1>3, <1>4, <1>5

(* What another transfer has written stays as it is while the trees do.     *)
LEMMA CopiedStays ==
  ASSUME NEW y \in Transfers, fs' = fs, up' = up, cur'[y] = cur[y], pos'[y] = pos[y]
  PROVE  Copied(y)' <=> Copied(y)
<1>1. Source' = Source /\ Dest' = Dest
  BY SidesStay
<1> QED BY <1>1, Zenon DEF Copied, Src, Dst

(* What is said of a transfer that runs alone stays true while the trees    *)
(* and the transfer do.                                                     *)
LEMMA AloneStays ==
  ASSUME NEW y \in Transfers, AloneOK(y), fs' = fs, up' = up, faults' = faults,
         pc'[y] = pc[y], cur'[y] = cur[y], pos'[y] = pos[y]
  PROVE  AloneOK(y)'
<1>1. Source' = Source /\ Dest' = Dest
  BY SidesStay
<1>2. Copied(y)' <=> Copied(y)
  BY CopiedStays
<1> QED BY <1>1, <1>2 DEF AloneOK, Fresh, Src, Dst

(* A file that several transfers write stays whole while the trees and      *)
(* those transfers do.                                                      *)
LEMMA WholeStays ==
  ASSUME NEW p \in Paths, Whole(p), fs' = fs, up' = up, Writers(p)' = Writers(p),
         \A z \in Writers(p) : pc'[z] = pc[z] /\ cur'[z] = cur[z] /\ pos'[z] = pos[z]
  PROVE  Whole(p)'
<1>1. Source' = Source /\ Dest' = Dest
  BY SidesStay
<1>2. ASSUME NEW z \in Writers(p), pc[z] = "copy", Copied(z)
      PROVE  z \in Writers(p)' /\ pc'[z] = "copy" /\ Copied(z)'
  BY <1>2, CopiedStays DEF Writers
<1> QED BY <1>1, <1>2 DEF Whole, Src, Dst

(* A step that leaves the source and its writers alone makes no file a      *)
(* guarded one.                                                             *)
LEMMA GuardedBefore ==
  ASSUME NEW p \in Paths, UNCHANGED <<faults, dirty, up>>, fs'[Source] = fs[Source],
         Writers(p)' \subseteq Writers(p), \A z \in Writers(p)' : cur'[z] = cur[z]
  PROVE  Guarded(p)' => Guarded(p)
<1>1. Source' = Source
  BY SidesStay
<1>2. \A z \in Writers(p)' : Fresh(z)' => Fresh(z)
  BY <1>1 DEF Fresh, Src
<1> QED BY <1>2 DEF Guarded, Uninterrupted

(* Without a fault every file being written is guarded: no source changes.  *)
LEMMA CleanIsGuarded ==
  ASSUME FInv, ~dirty, NEW p \in Paths, NEW z \in Writers(p)
  PROVE  Fresh(z) /\ Guarded(p)
<1>1. z \in Transfers /\ HasFile(z)
  BY DEF Writers, Writing, HasFile
<1>2. Fresh(z)
  BY <1>1 DEF FInv, CurInv, CurOK, Undisturbed
<1> QED BY <1>2 DEF Guarded, Uninterrupted

(* What a return that leaves the trees alone keeps, whatever its reason.    *)
LEMMA ReturnKeeps ==
  ASSUME FInv, NEW x \in Transfers, NEW ans \in {"ok", "error"}, Return(x, ans),
         UNCHANGED <<fs, clock, faults, up, asked, req, renamed>>,
         dirty' = dirty \/ (dirty' = TRUE /\ "interrupt" \in faults)
  PROVE  TypeOK' /\ ModesInv' /\ TreeInv' /\ TodoInv' /\ CurInv' /\ AloneInv'
<1> USE DEF FInv
<1>1. /\ pc'[x] = "idle" /\ res'[x] = ans /\ todo'[x] = {} /\ pos'[x] = 0
      /\ \A y \in Transfers : y # x =>
            /\ pc'[y] = pc[y] /\ res'[y] = res[y] /\ todo'[y] = todo[y]
            /\ cur'[y] = cur[y] /\ pos'[y] = pos[y]
  BY ReturnEffects
<1>2. Source' = Source /\ Dest' = Dest
  BY SidesStay
<1>3. Undisturbed' => Undisturbed
  BY DEF Undisturbed, TypeOK
<1>4. TypeOK'
  BY ReturnEffects DEF TypeOK
<1>5. ModesInv'
  <2>1. \A y \in Transfers : Running(y)' => Running(y) /\ y # x
    BY <1>1 DEF Running
  <2>2. ("overlap" \notin faults =>
          \A y, z \in Transfers : Running(y) /\ Running(z) => y = z)'
    BY <2>1 DEF ModesInv
  <2>3. (\A y \in Transfers : Running(y) => res[y] = "none")'
    BY <1>1, <2>1 DEF ModesInv
  <2> QED BY <2>2, <2>3 DEF ModesInv
<1>6. TreeInv'
  BY DEF TreeInv, IsDir, Exists
<1>7. TodoInv'
  BY <1>1, <1>2, <1>3 DEF TodoInv, TodoOK, Running, OfDirectory, IsDir, Src
<1>8. CurInv'
  BY <1>1, <1>2, <1>3 
  DEF CurInv, CurOK, HasFile, Writing, Src, IsFile, OfDirectory, IsDir, Fresh, SetsTimes
<1>9. AloneInv'
  <2>1. AloneOK(x)'
    BY <1>1 DEF AloneOK
  <2>2. ASSUME NEW y \in Transfers, y # x
        PROVE  AloneOK(y)'
    BY <1>1, <2>2, AloneStays DEF AloneInv
  <2> QED BY <2>1, <2>2 DEF AloneInv
<1> QED BY <1>4, <1>5, <1>6, <1>7, <1>8, <1>9

(* A file that is done stays done while the trees and the writers do.       *)
LEMMA StillDone ==
  ASSUME FInv, NEW x \in Transfers, NEW p \in Paths, Done(p),
         fs' = fs, faults' = faults, up' = up,
         renamed \subseteq renamed', req' = req,
         Writers(p)' = Writers(p), Running(x),
         \A y \in Transfers : y # x => res'[y] = res[y]
  PROVE  Done(p)'
<1>1. Source' = Source /\ Dest' = Dest
  BY SidesStay
<1>2. ASSUME OnlyDirectories' PROVE OnlyDirectories
  <2>1. \A y \in Transfers : OfDirectory(y)' <=> OfDirectory(y)
    BY <1>1 DEF OfDirectory, IsDir
  <2>2. res[x] = "none"
    BY DEF FInv, ModesInv
  <2> QED BY <1>2, <2>1, <2>2 DEF OnlyDirectories
<1>3. (IsFile(Source, p))' <=> IsFile(Source, p)
  BY <1>1 DEF IsFile
<1>4. FileDone(p) => FileDone(p)'
  BY <1>1, <1>2 DEF FileDone, Src, Dst
<1>5. Tolerated(faults)' <=> Tolerated(faults)
  BY DEF Tolerated
<1> QED BY <1>1, <1>3, <1>4, <1>5 DEF Done, Src, Dst

(* A transfer that has no file open returns: an error needs a conflict, a   *)
(* success an agenda that is done.                                          *)
LEMMA IdleReturn ==
  ASSUME FInv, NEW x \in Transfers, NEW ans \in {"ok", "error"}, Return(x, ans),
         UNCHANGED <<fs, clock, faults, up, asked, req, renamed, dirty>>,
         Running(x), ~Writing(x),
         ans = "ok" /\ OfDirectory(x) => \A p \in Paths : ~OnAgenda(x, p),
         ans = "error" /\ OfDirectory(x) => \E p \in Paths : KindConflict(p)
  PROVE  FInv'
<1>1. /\ pc'[x] = "idle" /\ res'[x] = ans /\ todo'[x] = {} /\ pos'[x] = 0
      /\ \A y \in Transfers : y # x =>
            /\ pc'[y] = pc[y] /\ res'[y] = res[y] /\ todo'[y] = todo[y]
            /\ cur'[y] = cur[y] /\ pos'[y] = pos[y]
  BY ReturnEffects DEF FInv
<1>2. TypeOK' /\ ModesInv' /\ TreeInv' /\ TodoInv' /\ CurInv' /\ AloneInv'
  BY ReturnKeeps
<1>3. Source' = Source /\ Dest' = Dest
  BY SidesStay
<1>4. \A p \in Paths : Writers(p)' = Writers(p)
  BY <1>1 DEF Writers, Writing
<1>5. GroupInv'
  <2> SUFFICES ASSUME NEW p \in Paths \ renamed, Guarded(p)'
               PROVE  Whole(p)'
    BY DEF GroupInv
  <2>1. \A z \in Writers(p) : pc'[z] = pc[z] /\ cur'[z] = cur[z] /\ pos'[z] = pos[z]
    BY <1>1 DEF Writers
  <2>2. Guarded(p)
    BY <1>4, <2>1, GuardedBefore
  <2>3. Whole(p)
    BY <2>2 DEF FInv, GroupInv
  <2> QED BY <1>4, <2>3, <2>1, WholeStays
<1>6. AgreeInv'
  <2>1. \A p \in Paths : Agree(p)' <=> Agree(p)
    BY <1>3 DEF Agree, IsFile, Src, Dst
  <2> QED BY <1>4, <2>1 DEF FInv, AgreeInv, Tolerated
<1>7. DoneInv'
  <2> SUFFICES ASSUME ~dirty, NEW y \in Transfers, NEW p \in Paths, Entrusted(y, p)'
               PROVE  OnAgenda(y, p)' \/ Done(p)'
    BY DEF DoneInv
  <2>1. Done(p) => Done(p)'
    BY <1>1, <1>4, StillDone
  <2>2. CASE y # x
    <3>1. Entrusted(y, p)
      BY <1>1, <1>3, <2>2 DEF Entrusted, OfDirectory, IsDir, Exists, Running
    <3>2. OnAgenda(y, p) \/ Done(p)
      BY <3>1 DEF FInv, DoneInv
    <3>3. OnAgenda(y, p) => OnAgenda(y, p)'
      BY <1>1, <2>2 DEF OnAgenda
    <3> QED BY <2>1, <3>2, <3>3
  <2>3. CASE y = x
    <3>1. Entrusted(x, p) /\ ans = "ok"
      BY <1>1, <1>3, <2>3 DEF Entrusted, OfDirectory, IsDir, Exists, Running
    <3>2. OnAgenda(x, p) \/ Done(p)
      BY <3>1 DEF FInv, DoneInv
    <3>3. ~OnAgenda(x, p)
      BY <3>1 DEF Entrusted
    <3> QED BY <2>1, <3>2, <3>3
  <2> QED BY <2>2, <2>3
<1>8. ConflictInv'
  <2>1. \A p \in Paths : KindConflict(p)' <=> KindConflict(p)
    BY <1>3 DEF KindConflict, IsDir, IsFile
  <2>2. \A y \in Transfers : OfDirectory(y)' <=> OfDirectory(y)
    BY <1>3 DEF OfDirectory, IsDir
  <2> QED BY <1>1, <2>1, <2>2 DEF FInv, ConflictInv
<1> QED BY <1>2, <1>5, <1>6, <1>7, <1>8 DEF FInv

(* The answers that come before anything is written, and the end of a walk. *)
LEMMA StepStatElsewhere ==
  ASSUME FInv, NEW x \in Transfers, StatElsewhere(x)
  PROVE  FInv'
<1>1. pc[x] = "stat" /\ ~OfDirectory(x)
  BY DEF StatElsewhere, OfDirectory, IsFile, IsDir
<1>2. Return(x, "ok") /\ UNCHANGED <<fs, clock, faults, up, asked, req, dirty, renamed>>
  BY DEF StatElsewhere
<1> QED BY <1>1, <1>2, IdleReturn DEF Running, Writing

(* Upload and Download of a source that is not there, or to a directory     *)
(* that is not there, leave no trace.                                       *)
LEMMA StepStatError ==
  ASSUME FInv, NEW x \in Transfers, StatError(x)
  PROVE  FInv'
<1>1. pc[x] = "stat" /\ ~OfDirectory(x)
  BY DEF StatError, OfDirectory, IsFile, IsDir, Exists
<1>2. Return(x, "error") /\ UNCHANGED <<fs, clock, faults, up, asked, req, dirty, renamed>>
  BY DEF StatError
<1> QED BY <1>1, <1>2, IdleReturn DEF Running, Writing

(* A walk that has visited every entry has nothing left on its agenda: what *)
(* it answers for is done.                                                  *)
LEMMA StepWalkEnds ==
  ASSUME FInv, NEW x \in Transfers, WalkEnds(x)
  PROVE  FInv'
<1>1. pc[x] = "walk" /\ todo[x] = {} /\ \A p \in Paths : ~OnAgenda(x, p)
  BY DEF WalkEnds, OnAgenda
<1>2. Return(x, "ok") /\ UNCHANGED <<fs, clock, faults, up, asked, req, dirty, renamed>>
  BY DEF WalkEnds
<1> QED BY <1>1, <1>2, IdleReturn DEF Running, Writing

(* A conflict met by a directory transfer is one between the two trees: the *)
(* source has a directory above everything it holds.                        *)
LEMMA StepConflict ==
  ASSUME FInv, NEW x \in Transfers, Conflict(x)
  PROVE  FInv'
<1>1. Return(x, "error") /\ UNCHANGED <<fs, clock, faults, up, asked, req, dirty, renamed>>
  BY DEF Conflict
<1>2. pc[x] \in {"walk", "create"}
  BY DEF Conflict
<1>3. ASSUME NEW p \in Paths, Exists(Source, p), IsDir(Source, p), Blocked(p)
      PROVE  \E q \in Paths : KindConflict(q)
  <2>1. PICK q \in Paths : IsPrefix(q, p) /\ IsFile(Dest, q)
    BY <1>3 DEF Blocked
  <2>2. IsDir(Source, q)
    BY <1>3, <2>1, TwoSides DEF FInv, TreeInv
  <2> QED BY <2>1, <2>2 DEF KindConflict
<1>4. ASSUME OfDirectory(x) PROVE \E p \in Paths : KindConflict(p)
  <2>1. CASE pc[x] = "walk"
    <3>1. PICK e \in todo[x] : e.info.kind = "dir" /\ Blocked(e.path)
      BY <2>1 DEF Conflict
    <3>2. e.path \in Paths
      BY DEF FInv, TypeOK
    <3>3. IsDir(Source, e.path)
      BY <3>1 DEF FInv, TodoInv, TodoOK, IsDir, Src
    <3> QED BY <1>3, <3>1, <3>2, <3>3 DEF IsDir, Exists
  <2>2. CASE pc[x] = "create"
    <3> DEFINE p == cur[x].path
    <3>1. p \in Paths /\ cur[x].target = p /\ IsFile(Source, p)
      BY <1>4, <2>2 DEF FInv, TypeOK, CurInv, CurOK, HasFile
    <3>2. Blocked(Parent(p)) \/ IsDir(Dest, p)
      BY <2>2, <3>1 DEF Conflict
    <3> HIDE DEF p
    <3>3. CASE IsDir(Dest, p)
      BY <3>1, <3>3 DEF KindConflict
    <3>4. CASE Blocked(Parent(p))
      <4>1. p # Root
        BY <3>1, TwoSides DEF FInv, TreeInv, IsDir, IsFile
      <4>2. Parent(p) \in Paths /\ Parent(p) # p /\ IsPrefix(Parent(p), p)
        BY <3>1, <4>1, ParentAbove
      <4>3. IsDir(Source, Parent(p))
        BY <3>1, <4>2, TwoSides DEF FInv, TreeInv, Exists, IsFile
      <4> QED BY <1>3, <3>4, <4>2, <4>3 DEF Exists, IsDir
    <3> QED BY <3>2, <3>3, <3>4
  <2> QED BY <1>2, <2>1, <2>2
<1> QED BY <1>1, <1>2, <1>4, IdleReturn DEF Running, Writing

-----------------------------------------------------------------------------
(* Steps of the walk that leave the trees alone.                            *)

(* A step of x that leaves the trees alone, x running before and after.     *)
LocalStep(x) ==
    /\ UNCHANGED <<fs, clock, faults, up, req, res, dirty>>
    /\ renamed \subseteq renamed'
    /\ Running(x) /\ Running(x)'
    /\ \A y \in Transfers : y # x =>
          pc'[y] = pc[y] /\ todo'[y] = todo[y] /\ cur'[y] = cur[y] /\ pos'[y] = pos[y]

(* Such a step keeps the invariant when it keeps what is said of x, of the  *)
(* files being written and of the agenda of x.                              *)
LEMMA LocalKeeps ==
  ASSUME FInv, NEW x \in Transfers, LocalStep(x), TypeOK',
         TodoOK(x)', CurOK(x)', AloneOK(x)',
         \A p \in Paths : Writers(p)' = Writers(p),
         ~dirty => \A p \in Paths :
            Entrusted(x, p) /\ OnAgenda(x, p) => OnAgenda(x, p)' \/ Done(p)',
         GroupInv'
  PROVE  FInv'
<1> USE DEF LocalStep
<1>1. Source' = Source /\ Dest' = Dest
  BY SidesStay
<1>2. /\ Undisturbed' <=> Undisturbed
      /\ \A y \in Transfers : OfDirectory(y)' <=> OfDirectory(y)
  BY <1>1 DEF Undisturbed, OfDirectory, IsDir
<1>3. ModesInv'
  BY DEF FInv, ModesInv, Running, AllIdle
<1>4. TreeInv'
  BY DEF FInv, TreeInv, IsDir, Exists
<1>5. TodoInv'
  <2>1. ASSUME NEW y \in Transfers, y # x PROVE TodoOK(y)'
    <3>1. TodoOK(y)
      BY DEF FInv, TodoInv
    <3> QED BY <1>1, <1>2, <2>1, <3>1 DEF TodoOK, Running, Src
  <2> QED BY <2>1 DEF TodoInv
<1>6. CurInv'
  <2>1. ASSUME NEW y \in Transfers, y # x PROVE CurOK(y)'
    <3>1. CurOK(y)
      BY DEF FInv, CurInv
    <3> QED BY <1>1, <1>2, <2>1, <3>1
            DEF CurOK, HasFile, Writing, Src, IsFile, Fresh, SetsTimes
  <2> QED BY <2>1 DEF CurInv
<1>7. AloneInv'
  <2>1. ASSUME NEW y \in Transfers, y # x PROVE AloneOK(y)'
    BY <2>1, AloneStays DEF FInv, AloneInv
  <2> QED BY <2>1 DEF AloneInv
<1>8. AgreeInv'
  <2>1. \A p \in Paths : Agree(p)' <=> Agree(p)
    BY <1>1 DEF Agree, IsFile, Src, Dst
  <2> QED BY <2>1 DEF FInv, AgreeInv, Tolerated
<1>9. DoneInv'
  <2> SUFFICES ASSUME ~dirty, NEW y \in Transfers, NEW p \in Paths, Entrusted(y, p)'
               PROVE  OnAgenda(y, p)' \/ Done(p)'
    BY DEF DoneInv
  <2>1. Done(p) => Done(p)'
    BY StillDone
  <2>2. Entrusted(y, p)
    BY <1>1, <1>2 DEF Entrusted, Exists, Running
  <2>3. OnAgenda(y, p) \/ Done(p)
    BY <2>2 DEF FInv, DoneInv
  <2>4. CASE y # x
    BY <2>1, <2>3, <2>4 DEF OnAgenda
  <2>5. CASE y = x
    BY <2>1, <2>2, <2>3, <2>5
  <2> QED BY <2>4, <2>5
<1>10. ConflictInv'
  <2>1. \A p \in Paths : KindConflict(p)' <=> KindConflict(p)
    BY <1>1 DEF KindConflict, IsDir, IsFile
  <2> QED BY <1>2, <2>1 DEF FInv, ConflictInv
<1> QED BY <1>3, <1>4, <1>5, <1>6, <1>7, <1>8, <1>9, <1>10 DEF FInv

(* A transfer that writes neither before nor after disturbs no writer.      *)
LEMMA NoWriter ==
  ASSUME FInv, NEW x \in Transfers, LocalStep(x), ~Writing(x), ~Writing(x)'
  PROVE  GroupInv' /\ \A p \in Paths : Writers(p)' = Writers(p)
<1> USE DEF LocalStep
<1>1. \A p \in Paths : Writers(p)' = Writers(p)
  BY DEF Writers, Writing
<1>2. ASSUME NEW p \in Paths \ renamed', Guarded(p)'
      PROVE  Whole(p)'
  <2>1. \A z \in Writers(p) : pc'[z] = pc[z] /\ cur'[z] = cur[z] /\ pos'[z] = pos[z]
    BY DEF Writers
  <2>2. Guarded(p)
    BY <1>1, <1>2, <2>1, GuardedBefore
  <2>3. Whole(p)
    BY <2>2 DEF FInv, GroupInv
  <2> QED BY <1>1, <2>3, <2>1, WholeStays
<1> QED BY <1>1, <1>2 DEF GroupInv

(* The walk of a directory begins with the directory, which is above all it *)
(* answers for.                                                             *)
LEMMA StepStatDirectory ==
  ASSUME FInv, NEW x \in Transfers, StatDirectory(x)
  PROVE  FInv'
<1> DEFINE e == Entry(req[x].path)
<1>1. pc[x] = "stat" /\ OfDirectory(x) /\ pos[x] = 0
  BY DEF StatDirectory, FInv, CurInv, CurOK
<1>2. req[x].path \in Paths /\ Src(req[x].path) \in Entries
  BY TwoSides DEF FInv, TypeOK, Requests, Src
<1>3. /\ e \in [path : Paths, info : Entries]
      /\ e.path = req[x].path /\ e.info = Src(req[x].path)
  BY <1>2 DEF Entry, Src
<1>4. /\ pc' = [pc EXCEPT ![x] = "walk"] /\ todo' = [todo EXCEPT ![x] = {e}]
      /\ UNCHANGED <<fs, clock, faults, up, asked, req, cur, pos, res, dirty, renamed>>
  BY DEF StatDirectory
<1> HIDE DEF e
<1>5. TypeOK'
  <2>1. todo' \in [Transfers -> SUBSET [path : Paths, info : Entries]]
    BY <1>3, <1>4 DEF FInv, TypeOK
  <2>2. pc' \in [Transfers -> {"idle", "stat", "walk", "create", "copy", "times"}]
    BY <1>4 DEF FInv, TypeOK
  <2> QED BY <1>4, <2>1, <2>2 DEF FInv, TypeOK
<1>6. LocalStep(x) /\ pc'[x] = "walk" /\ todo'[x] = {e} /\ pos'[x] = 0
  BY <1>1, <1>4 DEF LocalStep, FInv, TypeOK, Running
<1>7. Source' = Source
  BY <1>4, SidesStay
<1>8. TodoOK(x)'
  BY <1>1, <1>3, <1>4, <1>6, <1>7, EntryFacts, TwoSides
  DEF TodoOK, OfDirectory, IsDir, Src, Running, FInv, TypeOK
<1>9. CurOK(x)' /\ AloneOK(x)'
  BY <1>6 DEF CurOK, HasFile, AloneOK
<1>10. GroupInv' /\ \A p \in Paths : Writers(p)' = Writers(p)
  BY <1>1, <1>6, NoWriter DEF Writing
<1>11. \A p \in Paths : Entrusted(x, p) => OnAgenda(x, p)'
  BY <1>3, <1>6 DEF Entrusted, OnAgenda
<1> QED BY <1>5, <1>6, <1>8, <1>9, <1>10, <1>11, LocalKeeps

(* A single file is opened at the target resolved for it; a target of       *)
(* another name joins the renamed.                                          *)
LEMMA StepStatFile ==
  ASSUME FInv, NEW x \in Transfers, StatFile(x)
  PROVE  FInv'
<1> DEFINE r == req[x]
           q == ResolveTarget(r)
           c == [path |-> r.path, mtime |-> Src(r.path).mtime, target |-> q]
<1>1. pc[x] = "stat" /\ IsFile(Source, r.path) /\ q \in Paths
  BY DEF StatFile
<1>2. r.path \in Paths /\ Src(r.path) \in Entries
  BY TwoSides DEF FInv, TypeOK, Requests, Src
<1>3. /\ pc' = [pc EXCEPT ![x] = "create"] /\ cur' = [cur EXCEPT ![x] = c]
      /\ renamed' = renamed \cup ({q} \ {r.path})
      /\ UNCHANGED <<fs, clock, faults, up, asked, req, todo, pos, res, dirty>>
  BY DEF StatFile, StartFile, Entry, Src
<1>4. c \in [path : Paths, mtime : 0..MaxClock, target : Paths]
  BY <1>1, <1>2, EntryFacts
<1>5. c.path = r.path /\ c.mtime = Src(r.path).mtime /\ c.target = q
  OBVIOUS
<1>6. ~OfDirectory(x)
  BY <1>1 DEF OfDirectory, IsDir, IsFile
<1> HIDE DEF c, q
<1>7. pos[x] = 0 /\ todo[x] = {}
  BY <1>1, <1>6 DEF FInv, CurInv, CurOK, TodoInv, TodoOK
<1>8. TypeOK'
  BY <1>1, <1>3, <1>4 DEF FInv, TypeOK
<1>9. LocalStep(x) /\ pc'[x] = "create" /\ todo'[x] = {} /\ pos'[x] = 0 /\ cur'[x] = c
  BY <1>1, <1>3, <1>7 DEF LocalStep, FInv, TypeOK, Running
<1>10. Source' = Source
  BY <1>3, SidesStay
<1>11. TodoOK(x)'
  BY <1>9 DEF TodoOK
<1>12. CurOK(x)'
  <2>1. c.target = c.path \/ c.target \in renamed'
    BY <1>3, <1>5
  <2>2. ~OfDirectory(x)'
    BY <1>3, <1>6, <1>10 DEF OfDirectory, IsDir
  <2>3. /\ fs'[Source'][c.path].kind = "file" /\ fs'[Source'][c.path].mtime = c.mtime
        /\ c.mtime \in Nat
    BY <1>1, <1>3, <1>4, <1>5, <1>10, BoundsAssumption DEF IsFile, Src
  <2> QED BY <1>9, <2>1, <2>2, <2>3 DEF CurOK, HasFile, Writing, Fresh, Src, IsFile
<1>13. AloneOK(x)'
  BY <1>9 DEF AloneOK
<1>14. GroupInv' /\ \A p \in Paths : Writers(p)' = Writers(p)
  BY <1>1, <1>9, NoWriter DEF Writing
<1>15. \A p \in Paths : ~Entrusted(x, p)
  BY <1>6 DEF Entrusted
<1> QED BY <1>8, <1>9, <1>11, <1>12, <1>13, <1>14, <1>15, LocalKeeps

(* The only entry a file is above is the file itself.                       *)
LEMMA NothingBelowFile ==
  ASSUME FInv, NEW s \in Sides, NEW p \in Paths, NEW q \in Paths,
         Exists(s, p), IsFile(s, q), IsPrefix(q, p)
  PROVE  q = p
BY DEF FInv, TreeInv, IsDir, IsFile

(* Two files of the same size and second that agree are the same.           *)
LEMMA AgreeSame ==
  ASSUME FInv, NEW p \in Paths, Agree(p), IsFile(Source, p), IsFile(Dest, p),
         Src(p).mtime = Dst(p).mtime, Len(Src(p).blocks) = Len(Dst(p).blocks)
  PROVE  Dst(p).blocks = Src(p).blocks
<1>1. Src(p).blocks \in Seq(0..MaxClock) /\ Dst(p).blocks \in Seq(0..MaxClock)
  BY TwoSides, TreeFacts DEF FInv, Src, Dst
<1>2. \A i \in 1..Len(Src(p).blocks) : Src(p).blocks[i] = Dst(p).blocks[i]
  BY <1>1 DEF Agree
<1> QED BY <1>1, <1>2, SeqEqual

(* What a walk's stat of a file says.                                       *)
LEMMA StatOfVisit ==
  ASSUME FInv, NEW x \in Transfers, NEW e \in todo[x], e.info.kind = "file"
  PROVE  LET stat == IF up THEN Entry(e.path) ELSE e IN
         /\ e.path \in Paths /\ IsFile(Source, e.path)
         /\ stat.path = e.path /\ stat.info \in Entries
         /\ stat.info.mtime <= Src(e.path).mtime
         /\ Undisturbed => stat.info = Src(e.path)
<1> DEFINE stat == IF up THEN Entry(e.path) ELSE e
<1>1. e.path \in Paths /\ e.info \in Entries
  BY DEF FInv, TypeOK
<1>2. /\ e.info.kind = Src(e.path).kind
      /\ e.info.mtime <= Src(e.path).mtime
      /\ Undisturbed => e.info = Src(e.path)
  BY DEF FInv, TodoInv, TodoOK
<1>3. Src(e.path) \in Entries /\ Src(e.path).mtime \in Nat
  BY <1>1, TwoSides, TreeFacts DEF FInv, Src
<1>4. CASE up
  <2>1. stat.path = e.path /\ stat.info = Src(e.path)
    BY <1>4 DEF Entry, Src
  <2> HIDE DEF stat
  <2>2. stat.info \in Entries /\ stat.info.mtime <= Src(e.path).mtime
    BY <1>3, <2>1
  <2> QED BY <1>1, <1>2, <2>1, <2>2 DEF stat, IsFile, Src
<1>5. CASE ~up
  BY <1>1, <1>2, <1>5 DEF IsFile, Src
<1> QED BY <1>4, <1>5

(* What is left of a walk keeps its facts while the source does.            *)
LEMMA TodoShrinks ==
  ASSUME FInv, NEW x \in Transfers, LocalStep(x), todo'[x] \subseteq todo[x],
         pc'[x] = "walk" => pc[x] = "walk"
  PROVE  TodoOK(x)'
<1>1. Source' = Source
  BY SidesStay DEF LocalStep
<1>2. TodoOK(x)
  BY DEF FInv, TodoInv
<1>3. (Undisturbed' <=> Undisturbed) /\ (OfDirectory(x)' <=> OfDirectory(x)) /\ fs' = fs
  BY <1>1 DEF LocalStep, Undisturbed, OfDirectory, IsDir
<1>4. todo'[x] # {} => todo[x] # {}
  OBVIOUS
<1> QED BY <1>1, <1>2, <1>3, <1>4 DEF TodoOK, Src, LocalStep

(* A file that looks the same is skipped: it is the same, or somebody is    *)
(* writing it.                                                              *)
LEMMA StepSkip ==
  ASSUME FInv, NEW x \in Transfers, NEW e \in todo[x], VisitFile(x, e),
         SameStat(e.path, (IF up THEN Entry(e.path) ELSE e).info)
  PROVE  FInv'
<1> DEFINE stat == IF up THEN Entry(e.path) ELSE e
<1>1. /\ e.path \in Paths /\ IsFile(Source, e.path)
      /\ Undisturbed => stat.info = Src(e.path)
  BY StatOfVisit DEF VisitFile
<1>2. SameStat(e.path, stat.info)
  OBVIOUS
<1>3. /\ pc[x] = "walk" /\ todo' = [todo EXCEPT ![x] = @ \ {e}]
      /\ UNCHANGED <<pc, cur, fs, clock, faults, up, asked, req, pos, res, dirty, renamed>>
  BY <1>2 DEF VisitFile
<1> HIDE DEF stat
<1>4. todo'[x] = todo[x] \ {e} /\ \A y \in Transfers : y # x => todo'[y] = todo[y]
  BY <1>3 DEF FInv, TypeOK
<1>5. TypeOK'
  <2>1. todo' \in [Transfers -> SUBSET [path : Paths, info : Entries]]
    BY <1>3 DEF FInv, TypeOK
  <2> QED BY <1>3, <2>1 DEF FInv, TypeOK
<1>6. LocalStep(x)
  BY <1>3, <1>4 DEF LocalStep, Running
<1>7. TodoOK(x)'
  BY <1>3, <1>4, <1>6, TodoShrinks
<1>8. CurOK(x)' /\ AloneOK(x)'
  BY <1>3 DEF CurOK, HasFile, AloneOK, FInv, CurInv
<1>9. GroupInv' /\ \A p \in Paths : Writers(p)' = Writers(p)
  BY <1>3, <1>6, NoWriter DEF Writing
<1>10. ASSUME ~dirty, NEW p \in Paths, Entrusted(x, p), OnAgenda(x, p), ~OnAgenda(x, p)'
       PROVE  Done(p)'
  <2>1. PICK f \in todo[x] : IsPrefix(f.path, p)
    BY <1>3, <1>10 DEF OnAgenda
  <2>2. f = e
    BY <1>4, <1>10, <2>1 DEF OnAgenda
  <2>3. Exists(Source, p)
    BY <1>10 DEF Entrusted
  <2>4. p = e.path
    BY <1>1, <2>1, <2>2, <2>3, NothingBelowFile, TwoSides
  <2>5. stat.info = Src(p)
    BY <1>1, <1>10, <2>4 DEF Undisturbed
  <2>6. IsFile(Source, p) /\ IsFile(Dest, p) /\ Src(p).mtime = Dst(p).mtime
        /\ Len(Src(p).blocks) = Len(Dst(p).blocks)
    BY <1>1, <1>2, <2>4, <2>5 DEF SameStat, Src, Dst
  <2>7. ASSUME Tolerated(faults), p \notin renamed PROVE FileDone(p)
    <3>1. CASE Writers(p) = {}
      <4>1. Agree(p)
        BY <2>7, <3>1 DEF FInv, AgreeInv
      <4>2. Dst(p).blocks = Src(p).blocks
        BY <2>6, <4>1, AgreeSame
      <4> QED BY <2>6, <4>2 DEF FileDone
    <3> QED BY <3>1 DEF FileDone
  <2>8. Done(p)
    BY <2>6, <2>7 DEF Done, IsFile, Src, Dst
  <2> QED BY <1>3, <1>6, <1>9, <2>8, StillDone DEF LocalStep
<1> QED BY <1>5, <1>6, <1>7, <1>8, <1>9, <1>10, LocalKeeps

(* Any other file is copied next.                                           *)
LEMMA StepStart ==
  ASSUME FInv, NEW x \in Transfers, NEW e \in todo[x], VisitFile(x, e),
         ~SameStat(e.path, (IF up THEN Entry(e.path) ELSE e).info)
  PROVE  FInv'
<1> DEFINE stat == IF up THEN Entry(e.path) ELSE e
           c == [path |-> stat.path, mtime |-> stat.info.mtime, target |-> e.path]
<1>1. /\ e.path \in Paths /\ IsFile(Source, e.path)
      /\ stat.path = e.path /\ stat.info \in Entries
      /\ stat.info.mtime <= Src(e.path).mtime
      /\ Undisturbed => stat.info = Src(e.path)
  BY StatOfVisit DEF VisitFile
<1>2. /\ pc[x] = "walk" /\ todo' = [todo EXCEPT ![x] = @ \ {e}]
      /\ pc' = [pc EXCEPT ![x] = "create"] /\ cur' = [cur EXCEPT ![x] = c]
      /\ UNCHANGED <<fs, clock, faults, up, asked, req, pos, res, dirty, renamed>>
  BY DEF VisitFile, StartFile
<1>3. ~up \/ stat.info = Src(e.path)
  BY DEF Entry, Src
<1> HIDE DEF stat
<1>4. c \in [path : Paths, mtime : 0..MaxClock, target : Paths]
  BY <1>1, EntryFacts
<1>5. c.path = e.path /\ c.mtime = stat.info.mtime /\ c.target = e.path
  BY <1>1
<1> HIDE DEF c
<1>6. todo'[x] = todo[x] \ {e} /\ \A y \in Transfers : y # x => todo'[y] = todo[y]
  BY <1>2 DEF FInv, TypeOK
<1>7. TypeOK'
  <2>1. todo' \in [Transfers -> SUBSET [path : Paths, info : Entries]]
    BY <1>2 DEF FInv, TypeOK
  <2>2. /\ pc' \in [Transfers -> {"idle", "stat", "walk", "create", "copy", "times"}]
        /\ cur' \in [Transfers -> [path : Paths, mtime : 0..MaxClock, target : Paths]]
    BY <1>2, <1>4 DEF FInv, TypeOK
  <2> QED BY <1>2, <2>1, <2>2 DEF FInv, TypeOK
<1>8. LocalStep(x) /\ pc'[x] = "create" /\ cur'[x] = c /\ pos'[x] = 0
  BY <1>2, <1>6 DEF LocalStep, Running, FInv, TypeOK, CurInv, CurOK
<1>9. TodoOK(x)'
  BY <1>6, <1>8, TodoShrinks
<1>10. Source' = Source
  BY <1>2, SidesStay
<1>11. CurOK(x)'
  <2>1. /\ fs'[Source'][c.path].kind = "file" /\ c.mtime <= fs'[Source'][c.path].mtime
    BY <1>1, <1>2, <1>5, <1>10 DEF IsFile, Src
  <2>2. Undisturbed' => fs'[Source'][c.path].mtime = c.mtime
    BY <1>1, <1>2, <1>5, <1>10 DEF Undisturbed, Src
  <2>3. SetsTimes(x)'
    BY <1>2, <1>10 DEF FInv, TodoInv, TodoOK, SetsTimes, OfDirectory, IsDir
  <2> QED BY <1>5, <1>8, <2>1, <2>2, <2>3 DEF CurOK, HasFile, Writing, Fresh, Src, IsFile
<1>12. AloneOK(x)'
  BY <1>8 DEF AloneOK
<1>13. GroupInv' /\ \A p \in Paths : Writers(p)' = Writers(p)
  BY <1>2, <1>8, NoWriter DEF Writing
<1>14. ASSUME NEW p \in Paths, Entrusted(x, p), OnAgenda(x, p)
       PROVE  OnAgenda(x, p)'
  <2>1. PICK f \in todo[x] : IsPrefix(f.path, p)
    BY <1>2, <1>14 DEF OnAgenda
  <2>2. CASE f # e
    BY <1>6, <2>1, <2>2 DEF OnAgenda
  <2>3. CASE f = e
    <3>1. Exists(Source, p)
      BY <1>14 DEF Entrusted
    <3>2. p = e.path
      BY <1>1, <2>1, <2>3, <3>1, NothingBelowFile, TwoSides
    <3> QED BY <1>5, <1>8, <3>2 DEF OnAgenda
  <2> QED BY <2>2, <2>3
<1> QED BY <1>7, <1>8, <1>9, <1>11, <1>12, <1>13, <1>14, LocalKeeps

-----------------------------------------------------------------------------
(* Steps that write.                                                        *)

(* A step of x that writes into the destination: what exists keeps its kind.*)
WriteStep(x) ==
    /\ UNCHANGED <<clock, faults, up, req, dirty, renamed>>
    /\ fs'[Source] = fs[Source]
    /\ \A q \in Paths : Exists(Dest, q) => fs'[Dest][q].kind = fs[Dest][q].kind
    /\ Running(x)
    /\ res'[x] \in {res[x], "ok"} /\ (Running(x)' => res'[x] = res[x])
    /\ \A y \in Transfers : y # x =>
          /\ pc'[y] = pc[y] /\ todo'[y] = todo[y] /\ cur'[y] = cur[y]
          /\ pos'[y] = pos[y] /\ res'[y] = res[y]

(* What such a step keeps: a write changes no source, and takes no conflict *)
(* of kinds away.                                                           *)
LEMMA WriteKeeps ==
  ASSUME FInv, NEW x \in Transfers, WriteStep(x), TodoOK(x)', CurOK(x)', AloneOK(x)'
  PROVE  ModesInv' /\ TodoInv' /\ CurInv' /\ AloneInv' /\ ConflictInv'
<1> USE DEF WriteStep
<1>1. Source' = Source /\ Dest' = Dest
  BY SidesStay
<1>2. /\ Undisturbed' <=> Undisturbed
      /\ \A y \in Transfers : OfDirectory(y)' <=> OfDirectory(y)
  BY <1>1 DEF Undisturbed, OfDirectory, IsDir
<1>3. \A y \in Transfers : Running(y)' => Running(y)
  BY DEF Running
<1>4. ModesInv'
  <2>1. ("overlap" \notin faults =>
          \A y, z \in Transfers : Running(y) /\ Running(z) => y = z)'
    BY <1>3 DEF FInv, ModesInv
  <2>2. (\A y \in Transfers : Running(y) => res[y] = "none")'
    BY <1>3 DEF FInv, ModesInv
  <2> QED BY <2>1, <2>2 DEF ModesInv
<1>5. TodoInv'
  <2>1. ASSUME NEW y \in Transfers, y # x PROVE TodoOK(y)'
    <3>1. TodoOK(y)
      BY DEF FInv, TodoInv
    <3> QED BY <1>1, <1>2, <2>1, <3>1 DEF TodoOK, Running, Src
  <2> QED BY <2>1 DEF TodoInv
<1>6. CurInv'
  <2>1. ASSUME NEW y \in Transfers, y # x PROVE CurOK(y)'
    <3>1. CurOK(y) /\ cur[y].target \in Paths
      BY DEF FInv, CurInv, TypeOK
    <3>2. IsFile(Dest, cur[y].target) => fs'[Dest][cur[y].target].kind = "file"
      BY <3>1 DEF IsFile, Exists
    <3> QED BY <1>1, <1>2, <2>1, <3>1, <3>2
        DEF CurOK, HasFile, Writing, Src, IsFile, Fresh, SetsTimes
  <2> QED BY <2>1 DEF CurInv
<1>7. AloneInv'
  <2>1. ASSUME NEW y \in Transfers, y # x PROVE AloneOK(y)'
    <3>1. "overlap" \notin faults => pc'[y] = "idle"
      BY <2>1 DEF FInv, ModesInv, Running
    <3> QED BY <3>1 DEF AloneOK
  <2> QED BY <2>1 DEF AloneInv
<1>8. ConflictInv'
  <2>1. \A p \in Paths : KindConflict(p) => KindConflict(p)'
    BY <1>1 DEF KindConflict, IsDir, IsFile, Exists
  <2>2. \A y \in Transfers : res'[y] = "error" => res[y] = "error"
    OBVIOUS
  <2> QED BY <1>2, <2>1, <2>2 DEF FInv, ConflictInv
<1> QED BY <1>4, <1>5, <1>6, <1>7, <1>8

(* A file at the destination that x does not write stays as it is, and so   *)
(* does what is said of it.                                                 *)
LEMMA OtherFiles ==
  ASSUME FInv, NEW x \in Transfers, WriteStep(x), NEW p \in Paths,
         Exists(Dest, p) => fs'[Dest][p] = fs[Dest][p],
         Exists(Dest, p) \/ fs'[Dest][p].kind # "file",
         Writers(p)' = Writers(p), x \notin Writers(p)
  PROVE  /\ p \notin renamed /\ Guarded(p)' => Whole(p)'
         /\ Agree(p) => Agree(p)'
         /\ Exists(Source, p) /\ Done(p) => Done(p)'
<1> USE DEF WriteStep
<1>1. Source' = Source /\ Dest' = Dest
  BY SidesStay
<1>2. ASSUME p \notin renamed, Guarded(p)'
      PROVE  Whole(p)'
  <2>1. \A z \in Writers(p) : z \in Transfers /\ z # x /\ cur[z].target = p
    BY DEF Writers
  <2>2. Guarded(p)
    BY <1>2, <2>1, GuardedBefore
  <2>3. Whole(p) /\ Writers(p) # {}
    BY <1>2, <2>2 DEF FInv, GroupInv, Guarded
  <2>4. \A z \in Writers(p) : cur[z].path = p /\ IsFile(Dest, p)
    BY <1>2, <2>1 DEF FInv, CurInv, CurOK, Writers, Writing, HasFile
  <2>5. fs'[Dest][p] = fs[Dest][p]
    BY <2>4, <2>3 DEF IsFile, Exists
  <2>6. ASSUME NEW z \in Writers(p), pc[z] = "copy", Copied(z)
        PROVE  z \in Writers(p)' /\ pc'[z] = "copy" /\ Copied(z)'
    <3>1. cur'[z] = cur[z] /\ pos'[z] = pos[z] /\ pc'[z] = pc[z]
      BY <2>1
    <3>2. cur[z].path = p /\ cur[z].target = p
      BY <2>1, <2>4
    <3>3. \A i \in 1..pos[z] :
            /\ i <= Len(fs[Dest][p].blocks) /\ i <= Len(fs[Source][p].blocks)
            /\ fs[Dest][p].blocks[i] = fs[Source][p].blocks[i]
      BY <2>6, <3>2 DEF Copied, Src, Dst
    <3>4. /\ fs'[Source'][cur'[z].path] = fs[Source][p]
          /\ fs'[Dest'][cur'[z].target] = fs[Dest][p]
      BY <1>1, <2>5, <3>1, <3>2
    <3>5. Copied(z)'
      BY <3>1, <3>3, <3>4 DEF Copied, Src, Dst
    <3> QED BY <2>6, <3>1, <3>5
  <2> QED BY <1>1, <2>5, <2>6, <2>3 DEF Whole, Src, Dst
<1>3. ASSUME Agree(p) PROVE Agree(p)'
  <2>1. CASE Exists(Dest, p)
    <3>1. fs'[Dest][p] = fs[Dest][p]
      BY <2>1
    <3> QED BY <1>1, <1>3, <3>1 DEF Agree, IsFile, Src, Dst
  <2>2. CASE ~Exists(Dest, p)
    BY <1>1, <2>2 DEF Agree, IsFile
  <2> QED BY <2>1, <2>2
<1>4. ASSUME Exists(Source, p), Done(p) PROVE Done(p)'
  <2>1. fs'[Dest][p] = fs[Dest][p]
    BY <1>4 DEF Done, Src, Dst, Exists
  <2>2. ASSUME OnlyDirectories' PROVE OnlyDirectories
    <3>1. \A y \in Transfers : OfDirectory(y)' <=> OfDirectory(y)
      BY <1>1 DEF OfDirectory, IsDir
    <3>2. res[x] = "none"
      BY DEF FInv, ModesInv
    <3> QED BY <2>2, <3>1, <3>2 DEF OnlyDirectories
  <2>3. FileDone(p) => FileDone(p)'
    BY <1>1, <2>1, <2>2 DEF FileDone, Src, Dst
  <2> QED BY <1>1, <1>4, <2>1, <2>3 DEF Done, Src, Dst, IsFile, Tolerated
<1> QED BY <1>2, <1>3, <1>4

(* VisitDir makes directories only where nothing is, and puts the entries   *)
(* of the directory on the agenda in its place.                             *)
LEMMA StepVisitDir ==
  ASSUME FInv, NEW x \in Transfers, NEW e \in todo[x], VisitDir(x, e)
  PROVE  FInv'
<1>1. /\ fs' \in [Sides -> [Paths -> Entries]] /\ fs'[Source] = fs[Source]
      /\ e.path \in Paths /\ e.info \in Entries
      /\ \A q \in Paths : fs'[Dest][q] =
            IF IsPrefix(q, e.path) /\ ~Exists(Dest, q) THEN Dir ELSE fs[Dest][q]
  BY DirsMade DEF FInv
<1> DEFINE new == {Entry(q) : q \in Children(Source, e.path)}
<1>2. /\ pc[x] = "walk" /\ e.info.kind = "dir" /\ ~Blocked(e.path)
      /\ todo' = [todo EXCEPT ![x] = (@ \ {e}) \cup new]
      /\ UNCHANGED <<clock, faults, up, asked, req, pc, cur, pos, res, dirty, renamed>>
  BY DEF VisitDir
<1>3. \A f \in new : /\ f.path \in Paths /\ f.info = Src(f.path) /\ Exists(Source, f.path)
                     /\ f \in [path : Paths, info : Entries]
  BY TwoSides DEF Children, Entry, Src, FInv, TypeOK
<1>4. ASSUME NEW q \in Children(Source, e.path)
      PROVE  \E f \in new : f.path = q
  <2>1. Entry(q) \in new /\ Entry(q).path = q
    BY DEF Entry
  <2> QED BY <2>1
<1> HIDE DEF new
<1>5. todo'[x] = (todo[x] \ {e}) \cup new /\ \A y \in Transfers : y # x => todo'[y] = todo[y]
  BY <1>2 DEF FInv, TypeOK
<1>6. Source' = Source /\ Dest' = Dest
  BY <1>2, SidesStay
<1>7. WriteStep(x)
  BY <1>1, <1>2, <1>5 DEF WriteStep, Exists, Running
<1>8. ASSUME NEW q \in Paths, IsPrefix(q, e.path)
       PROVE  fs'[Dest][q].kind = "dir"
  <2>1. fs[Dest][q].kind \in {"none", "dir", "file"}
    BY TwoSides, TreeFacts DEF FInv
  <2>2. ~IsFile(Dest, q)
    BY <1>2, <1>8 DEF Blocked
  <2> QED BY <1>1, <1>8, <2>1, <2>2 DEF Exists, IsFile, Dir
<1>9. TypeOK'
  <2>1. todo' \in [Transfers -> SUBSET [path : Paths, info : Entries]]
    BY <1>2, <1>3 DEF FInv, TypeOK
  <2> QED BY <1>1, <1>2, <2>1 DEF FInv, TypeOK
<1>10. TodoOK(x)'
  <2>1. TodoOK(x)
    BY DEF FInv, TodoInv
  <2>2. OfDirectory(x) /\ OfDirectory(x)' /\ Running(x)'
    BY <1>1, <1>2, <1>6, <2>1 DEF TodoOK, OfDirectory, IsDir, Running
  <2>3. ASSUME NEW f \in todo'[x]
        PROVE  /\ f.info.kind = fs'[Source'][f.path].kind /\ f.info.kind # "none"
               /\ f.info.mtime <= fs'[Source'][f.path].mtime
               /\ Undisturbed' => f.info = fs'[Source'][f.path]
    <3>1. CASE f \in todo[x]
      BY <1>1, <1>2, <1>6, <2>1, <3>1 DEF TodoOK, Src, Undisturbed
    <3>2. CASE f \in new
      <4>1. f.path \in Paths /\ f.info = fs'[Source'][f.path] /\ f.info.kind # "none"
        BY <1>1, <1>3, <1>6, <3>2 DEF Src, Exists
      <4>2. f.info.mtime \in Nat
        BY <1>3, <3>2, EntryFacts, BoundsAssumption
      <4> QED BY <4>1, <4>2
    <3> QED BY <1>5, <3>1, <3>2
  <2> QED BY <2>2, <2>3 DEF TodoOK, Src
<1>11. CurOK(x)' /\ AloneOK(x)'
  BY <1>2 DEF CurOK, HasFile, AloneOK, FInv, CurInv
<1>12. ModesInv' /\ TodoInv' /\ CurInv' /\ AloneInv' /\ ConflictInv'
  BY <1>7, <1>10, <1>11, WriteKeeps
<1>13. TreeInv'
  <2>2. \A s \in Sides : IsDir(s, Root)'
    BY <1>1, <1>7, TwoSides, PathsAssumption DEF FInv, TreeInv, IsDir, WriteStep, Exists
  <2>3. ASSUME NEW s \in Sides, NEW p \in Paths, NEW q \in Paths,
               Exists(s, p)', IsPrefix(q, p), q # p
        PROVE  IsDir(s, q)'
    <3>1. CASE Exists(s, p)
      <4>1. IsDir(s, q)
        BY <2>3, <3>1 DEF FInv, TreeInv
      <4> QED BY <1>1, <1>7, <4>1, TwoSides DEF WriteStep, IsDir, Exists
    <3>2. CASE ~Exists(s, p)
      <4>1. s = Dest /\ IsPrefix(p, e.path)
        BY <1>1, <2>3, <3>2, TwoSides DEF Exists
      <4>2. IsPrefix(q, e.path)
        BY <1>1, <2>3, <4>1, PrefixOrder
      <4> QED BY <1>8, <4>1, <4>2 DEF IsDir
    <3> QED BY <3>1, <3>2
  <2>4. ASSUME NEW s \in Sides, NEW p \in Paths
        PROVE  fs'[s][p].mtime <= clock'
    <3>1. fs[s][p].mtime <= clock /\ clock' = clock /\ clock \in 0..MaxClock
      BY <1>2 DEF FInv, TreeInv, TypeOK
    <3>2. fs'[s][p] = fs[s][p] \/ fs'[s][p] = Dir
      BY <1>1, TwoSides
    <3> QED BY <3>1, <3>2 DEF Dir
  <2> QED BY <2>2, <2>3, <2>4 DEF TreeInv
<1>14. \A p \in Paths :
         /\ Exists(Dest, p) => fs'[Dest][p] = fs[Dest][p]
         /\ Exists(Dest, p) \/ fs'[Dest][p].kind # "file"
         /\ Writers(p)' = Writers(p) /\ x \notin Writers(p)
  BY <1>1, <1>2 DEF Exists, Dir, Writers, Writing
<1>15. GroupInv'
  BY <1>2, <1>7, <1>14, OtherFiles DEF GroupInv
<1>16. AgreeInv'
  BY <1>2, <1>7, <1>14, OtherFiles DEF AgreeInv, FInv, Tolerated
<1>17. DoneInv'
  <2> SUFFICES ASSUME ~dirty, NEW y \in Transfers, NEW p \in Paths, Entrusted(y, p)'
               PROVE  OnAgenda(y, p)' \/ Done(p)'
    BY <1>2 DEF DoneInv
  <2>1. Entrusted(y, p) /\ Exists(Source, p)
    BY <1>1, <1>2, <1>6 DEF Entrusted, Exists, Running, OfDirectory, IsDir
  <2>2. Done(p) => Done(p)'
    BY <1>7, <1>14, <2>1, OtherFiles
  <2>3. OnAgenda(y, p) \/ Done(p)
    BY <2>1 DEF FInv, DoneInv
  <2>4. CASE y # x
    BY <1>2, <1>5, <2>2, <2>3, <2>4 DEF OnAgenda
  <2>5. CASE y = x
    <3>1. SUFFICES ASSUME OnAgenda(x, p) PROVE OnAgenda(x, p)' \/ Done(p)'
      BY <2>2, <2>3, <2>5
    <3>2. PICK f \in todo[x] : IsPrefix(f.path, p)
      BY <1>2, <3>1 DEF OnAgenda
    <3>3. CASE f # e
      BY <1>5, <3>2, <3>3 DEF OnAgenda
    <3>4. CASE f = e /\ e.path = p
      <4>1. Src(p).kind = "dir"
        BY <1>2, <3>4 DEF FInv, TodoInv, TodoOK
      <4>2. fs'[Dest][p].kind = "dir"
        BY <1>8, <3>4, PrefixOrder
      <4> QED BY <1>1, <1>6, <4>1, <4>2 DEF Done, Src, Dst, IsFile
    <3>5. CASE f = e /\ e.path # p
      <4>1. PICK c \in Paths : c # Root /\ Parent(c) = e.path /\ IsPrefix(c, p)
        BY <1>1, <3>2, <3>5, ChildTowards
      <4>2. Exists(Source, c)
        BY <2>1, <4>1, TwoSides DEF FInv, TreeInv, IsDir, Exists
      <4>3. c \in Children(Source, e.path)
        BY <4>1, <4>2 DEF Children
      <4>4. PICK g \in new : g.path = c
        BY <1>4, <4>3
      <4> QED BY <1>5, <4>1, <4>4 DEF OnAgenda
    <3> QED BY <3>3, <3>4, <3>5
  <2> QED BY <2>4, <2>5
<1> QED BY <1>9, <1>12, <1>13, <1>15, <1>16, <1>17 DEF FInv

(* Who writes what, after a step of x that leaves the other transfers alone.*)
LEMMA OtherWriters ==
  ASSUME NEW x \in Transfers, NEW p \in Paths,
         \A y \in Transfers : y # x => pc'[y] = pc[y] /\ cur'[y] = cur[y]
  PROVE  \A y \in Transfers : y # x => (y \in Writers(p)' <=> y \in Writers(p))
BY DEF Writers, Writing

(* A file that is being written is written under its own name, unless it is *)
(* one of the renamed.                                                      *)
LEMMA WriterFacts ==
  ASSUME FInv, NEW p \in Paths, NEW z \in Writers(p)
  PROVE  /\ z \in Transfers /\ Running(z) /\ cur[z].target = p
         /\ IsFile(Dest, p) /\ IsFile(Source, cur[z].path) /\ cur[z].path \in Paths
         /\ p \notin renamed => cur[z].path = p
<1>1. z \in Transfers /\ Writing(z) /\ cur[z].target = p
  BY DEF Writers
<1>2. CurOK(z) /\ cur[z].path \in Paths
  BY <1>1 DEF FInv, CurInv, TypeOK
<1> QED BY <1>1, <1>2 DEF CurOK, Writing, HasFile, Running

(* Create truncates the file, or makes it with the directories above it.    *)
LEMMA StepCreate ==
  ASSUME FInv, NEW x \in Transfers, Create(x)
  PROVE  FInv'
<1> DEFINE t == cur[x].target
<1>1. /\ fs' \in [Sides -> [Paths -> Entries]] /\ fs'[Source] = fs[Source]
      /\ t \in Paths /\ fs'[Dest][t] = File(<<>>, clock)
      /\ \A q \in Paths : q # t => fs'[Dest][q] =
            IF IsPrefix(q, Parent(t)) /\ ~Exists(Dest, q) THEN Dir ELSE fs[Dest][q]
  BY FileCreated DEF FInv
<1>2. /\ pc[x] = "create" /\ ~Blocked(Parent(t)) /\ ~IsDir(Dest, t)
      /\ pc' = [pc EXCEPT ![x] = "copy"]
      /\ UNCHANGED <<clock, faults, up, asked, req, todo, cur, pos, res, dirty, renamed>>
  BY DEF Create
<1>3. fs'[Dest][t].kind = "file" /\ fs'[Dest][t].blocks = <<>> /\ fs'[Dest][t].mtime = clock
  BY <1>1 DEF File
<1> HIDE DEF t
<1>4. Source' = Source /\ Dest' = Dest
  BY <1>2, SidesStay
<1>5. t # Root /\ Parent(t) \in Paths
      /\ \A q \in Paths : IsPrefix(q, t) /\ q # t => IsPrefix(q, Parent(t))
  <2>1. t # Root
    BY <1>2, TwoSides DEF FInv, TreeInv
  <2> QED BY <1>1, <2>1, ParentAbove
<1>6. ASSUME NEW q \in Paths, IsPrefix(q, Parent(t)), q # t
      PROVE  fs'[Dest][q].kind = "dir"
  <2>1. fs[Dest][q].kind \in {"none", "dir", "file"}
    BY TwoSides, TreeFacts DEF FInv
  <2>2. ~IsFile(Dest, q)
    BY <1>2, <1>6 DEF Blocked
  <2> QED BY <1>1, <1>6, <2>1, <2>2 DEF Exists, IsFile, Dir
<1>7. pc'[x] = "copy" /\ (\A y \in Transfers : y # x => pc'[y] = pc[y])
      /\ cur'[x] = cur[x] /\ cur[x].target = t /\ pos'[x] = 0
  BY <1>2 DEF FInv, TypeOK, CurInv, CurOK, t
<1>8. WriteStep(x)
  <2>1. Exists(Dest, t) => fs[Dest][t].kind = "file"
    BY <1>1, <1>2, TwoSides, TreeFacts DEF FInv, Exists, IsDir
  <2>2. \A q \in Paths : Exists(Dest, q) => fs'[Dest][q].kind = fs[Dest][q].kind
    BY <1>1, <1>3, <2>1 DEF Exists
  <2> QED BY <1>1, <1>2, <1>7, <2>2 DEF WriteStep, Running
<1>9. TypeOK'
  <2>1. pc' \in [Transfers -> {"idle", "stat", "walk", "create", "copy", "times"}]
    BY <1>2 DEF FInv, TypeOK
  <2> QED BY <1>1, <1>2, <2>1 DEF FInv, TypeOK
<1>10. TodoOK(x)'
  <2>1. TodoOK(x) /\ (OfDirectory(x)' <=> OfDirectory(x)) /\ (Undisturbed' <=> Undisturbed)
    BY <1>1, <1>2, <1>4 DEF FInv, TodoInv, OfDirectory, IsDir, Undisturbed
  <2> QED BY <1>1, <1>2, <1>4, <1>7, <2>1 DEF TodoOK, Src, Running
<1>11. CurOK(x)'
  <2>1. /\ CurOK(x) /\ (OfDirectory(x)' <=> OfDirectory(x)) /\ (Undisturbed' <=> Undisturbed)
        /\ (SetsTimes(x)' <=> SetsTimes(x))
    BY <1>1, <1>2, <1>4 DEF FInv, CurInv, OfDirectory, IsDir, Undisturbed, SetsTimes
  <2> QED BY <1>1, <1>2, <1>3, <1>4, <1>7, <2>1
      DEF CurOK, HasFile, Writing, IsFile, Src, Fresh
<1>12. Copied(x)' /\ AloneOK(x)'
  <2>1. Copied(x)'
    BY <1>7 DEF Copied
  <2>2. fs'[Dest'][cur'[x].target].blocks = <<>>
    BY <1>3, <1>4, <1>7
  <2> QED BY <1>7, <2>1, <2>2 DEF AloneOK, Dst
<1>13. ModesInv' /\ TodoInv' /\ CurInv' /\ AloneInv' /\ ConflictInv'
  BY <1>8, <1>10, <1>11, <1>12, WriteKeeps
<1>14. TreeInv'
  <2>1. \A s \in Sides : IsDir(s, Root)'
    BY <1>1, <1>8, TwoSides, PathsAssumption DEF FInv, TreeInv, IsDir, WriteStep, Exists
  <2>2. ASSUME NEW s \in Sides, NEW p \in Paths, NEW q \in Paths,
               Exists(s, p)', IsPrefix(q, p), q # p
        PROVE  IsDir(s, q)'
    <3>1. CASE Exists(s, p)
      <4>1. IsDir(s, q)
        BY <2>2, <3>1 DEF FInv, TreeInv
      <4> QED BY <1>1, <1>8, <4>1, TwoSides DEF WriteStep, IsDir, Exists
    <3>2. CASE ~Exists(s, p)
      <4>1. s = Dest /\ (p = t \/ IsPrefix(p, Parent(t)))
        BY <1>1, <2>2, <3>2, TwoSides DEF Exists
      <4>2. IsPrefix(q, Parent(t))
        BY <1>5, <2>2, <4>1, PrefixOrder
      <4>3. q # t
        BY <1>1, <1>5, <2>2, <4>1, <4>2, PrefixOrder, ParentAbove
      <4> QED BY <1>6, <4>1, <4>2, <4>3 DEF IsDir
    <3> QED BY <3>1, <3>2
  <2>3. ASSUME NEW s \in Sides, NEW p \in Paths
        PROVE  fs'[s][p].mtime <= clock'
    <3>1. fs[s][p].mtime <= clock /\ clock' = clock /\ clock \in 0..MaxClock
      BY <1>2 DEF FInv, TreeInv, TypeOK
    <3>2. fs'[s][p] = fs[s][p] \/ fs'[s][p] = Dir \/ fs'[s][p].mtime = clock
      BY <1>1, <1>3, TwoSides
    <3> QED BY <3>1, <3>2 DEF Dir
  <2> QED BY <2>1, <2>2, <2>3 DEF TreeInv
<1>15. \A p \in Paths : p = t => x \in Writers(p)'
  BY <1>7 DEF Writers, Writing
<1>16. \A p \in Paths : p # t =>
         /\ Exists(Dest, p) => fs'[Dest][p] = fs[Dest][p]
         /\ Exists(Dest, p) \/ fs'[Dest][p].kind # "file"
         /\ Writers(p)' = Writers(p) /\ x \notin Writers(p)
  BY <1>1, <1>2, <1>7 DEF Exists, Dir, Writers, Writing
<1>17. GroupInv'
  <2> SUFFICES ASSUME NEW p \in Paths \ renamed, Guarded(p)'
               PROVE  Whole(p)'
    BY <1>2 DEF GroupInv
  <2>1. CASE p # t
    BY <1>8, <1>16, <2>1, OtherFiles
  <2>2. CASE p = t
    <3>1. Len(fs'[Dest'][p].blocks) = 0 /\ Len(fs'[Source'][p].blocks) \in Nat
      BY <1>1, <1>3, <1>4, <2>2, TwoSides, EntryFacts
    <3> QED BY <1>7, <1>12, <1>15, <2>2, <3>1 DEF Whole, Src, Dst
  <2> QED BY <2>1, <2>2
<1>18. AgreeInv'
  BY <1>2, <1>8, <1>15, <1>16, OtherFiles DEF AgreeInv, FInv, Tolerated
<1>19. DoneInv'
  <2> SUFFICES ASSUME ~dirty, NEW y \in Transfers, NEW p \in Paths, Entrusted(y, p)'
               PROVE  OnAgenda(y, p)' \/ Done(p)'
    BY <1>2 DEF DoneInv
  <2>1. Entrusted(y, p) /\ Exists(Source, p)
    BY <1>1, <1>2, <1>4, <1>7 DEF Entrusted, Exists, Running, OfDirectory, IsDir
  <2>2. OnAgenda(y, p) \/ Done(p)
    BY <2>1 DEF FInv, DoneInv
  <2>3. ASSUME p = t, IsFile(Source, p) PROVE Done(p)'
    BY <1>1, <1>3, <1>4, <1>15, <2>3 DEF Done, FileDone, Src, Dst, IsFile
  <2>4. ASSUME Done(p) PROVE Done(p)'
    <3>1. CASE p # t
      BY <1>8, <1>16, <2>1, <2>4, <3>1, OtherFiles
    <3>2. CASE p = t
      <4>1. IsFile(Source, p)
        BY <1>1, <1>2, <2>1, <2>4, <3>2, TwoSides, TreeFacts
        DEF FInv, Done, Src, Dst, IsFile, IsDir, Exists
      <4> QED BY <2>3, <3>2, <4>1
    <3> QED BY <3>1, <3>2
  <2>5. ASSUME OnAgenda(y, p) PROVE OnAgenda(y, p)' \/ Done(p)'
    <3>1. CASE y # x
      BY <1>2, <1>7, <2>5, <3>1 DEF OnAgenda
    <3>2. CASE y = x /\ ~(pc[x] = "create" /\ cur[x].path = p)
      BY <1>2, <1>7, <2>5, <3>2 DEF OnAgenda
    <3>3. CASE y = x /\ cur[x].path = p
      <4>1. cur[x].target = p /\ IsFile(Source, p)
        BY <1>2, <2>1, <3>3 DEF FInv, CurInv, CurOK, HasFile, Entrusted
      <4> QED BY <1>7, <2>3, <4>1
    <3> QED BY <3>1, <3>2, <3>3
  <2> QED BY <2>2, <2>4, <2>5
<1> QED BY <1>9, <1>13, <1>14, <1>17, <1>18, <1>19 DEF FInv

(* CopyBlock writes one block of one file.                                  *)
LEMMA StepCopyBlock ==
  ASSUME FInv, NEW x \in Transfers, CopyBlock(x)
  PROVE  FInv'
<1> DEFINE t == cur[x].target
           i == pos[x] + 1
           from == fs[Source][cur[x].path].blocks
           b == fs[Dest][t].blocks
           c == fs'[Dest][t].blocks
<1>1. /\ fs' \in [Sides -> [Paths -> Entries]] /\ fs'[Source] = fs[Source]
      /\ t \in Paths /\ fs'[Dest][t].kind = "file" /\ fs'[Dest][t].mtime = clock
      /\ \A q \in Paths : q # t => fs'[Dest][q] = fs[Dest][q]
      /\ i \in 1..Max(Sizes) /\ i <= Len(from)
      /\ Len(c) = IF i > Len(b) THEN i ELSE Len(b)
      /\ c[i] = from[i]
      /\ \A j \in 1..Len(b) : j # i => c[j] = b[j]
  BY BlockCopied DEF FInv
<1>2. /\ pc[x] = "copy" /\ pos' = [pos EXCEPT ![x] = i]
      /\ UNCHANGED <<clock, faults, up, asked, req, pc, todo, cur, res, dirty, renamed>>
  BY DEF CopyBlock
<1>3. /\ cur[x].path \in Paths /\ from \in Seq(0..MaxClock) /\ b \in Seq(0..MaxClock)
      /\ c \in Seq(0..MaxClock)
      /\ Len(from) \in Nat /\ Len(b) \in Nat /\ Len(c) \in Nat
  <2>1. cur[x].path \in Paths
    BY DEF FInv, TypeOK
  <2>2. from \in Seq(0..MaxClock) /\ Len(from) \in Nat
    BY <2>1, TwoSides, TreeFacts DEF FInv
  <2>3. b \in Seq(0..MaxClock) /\ Len(b) \in Nat
    BY <1>1, TwoSides, TreeFacts DEF FInv
  <2>4. fs'[Dest][t] \in Entries
    BY <1>1, TwoSides
  <2>5. c \in Seq(0..MaxClock) /\ Len(c) \in Nat
    BY <2>4, EntryFacts, MaxOfSizes
  <2> QED BY <2>1, <2>2, <2>3, <2>5
<1>4. IsFile(Dest, t) /\ IsFile(Source, cur[x].path) /\ pos[x] \in Nat
  BY <1>2, MaxOfSizes DEF FInv, CurInv, CurOK, HasFile, Writing, TypeOK
<1>5. pos'[x] = i /\ \A y \in Transfers : y # x => pos'[y] = pos[y]
  BY <1>2 DEF FInv, TypeOK
<1>6. Source' = Source /\ Dest' = Dest
  BY <1>2, SidesStay
<1>7. WriteStep(x)
  <2>1. \A q \in Paths : Exists(Dest, q) => fs'[Dest][q].kind = fs[Dest][q].kind
    BY <1>1, <1>4 DEF IsFile
  <2> QED BY <1>1, <1>2, <1>5, <2>1 DEF WriteStep, Running
<1>8. TypeOK'
  <2>1. pos' \in [Transfers -> 0..Max(Sizes)]
    BY <1>1, <1>2, MaxOfSizes DEF FInv, TypeOK
  <2> QED BY <1>1, <1>2, <2>1 DEF FInv, TypeOK
<1>9. TodoOK(x)' /\ CurOK(x)'
  <2>1. /\ CurOK(x) /\ TodoOK(x)
        /\ (OfDirectory(x)' <=> OfDirectory(x)) /\ (Undisturbed' <=> Undisturbed)
        /\ (SetsTimes(x)' <=> SetsTimes(x))
    BY <1>1, <1>2, <1>6
    DEF FInv, CurInv, TodoInv, OfDirectory, IsDir, Undisturbed, SetsTimes
  <2>2. TodoOK(x)'
    BY <1>1, <1>2, <1>6, <2>1 DEF TodoOK, Src, Running
  <2>3. fs'[Dest'][cur'[x].target].kind = "file"
    BY <1>1, <1>2, <1>6
  <2>4. CurOK(x)'
    BY <1>1, <1>2, <1>6, <2>1, <2>3 DEF CurOK, HasFile, Writing, IsFile, Src, Fresh
  <2> QED BY <2>2, <2>4
<1>10. /\ cur'[x] = cur[x] /\ cur[x].target = t
       /\ fs'[Source'][cur[x].path].blocks = from /\ fs'[Dest'][t].blocks = c
  BY <1>1, <1>2, <1>6
<1>11. Len(b) <= Len(c) /\ i <= Len(c)
  BY <1>1, <1>3
<1>12. i = pos[x] + 1 /\ Src(cur[x].path).blocks = from /\ Dst(t).blocks = b
  BY DEF Src, Dst
<1> HIDE DEF t, i, from, b, c
<1>13. ASSUME NEW n \in Nat, \A j \in 1..n : j <= Len(b) /\ j <= Len(from) /\ b[j] = from[j]
       PROVE  \A j \in 1..n : j <= Len(c) /\ j <= Len(from) /\ c[j] = from[j]
  <2> SUFFICES ASSUME NEW j \in 1..n
               PROVE  j <= Len(c) /\ j <= Len(from) /\ c[j] = from[j]
    OBVIOUS
  <2>1. j \in 1..Len(b) /\ j <= Len(from) /\ b[j] = from[j]
    BY <1>3, <1>13
  <2>2. c[j] = from[j]
    BY <1>1, <2>1
  <2> QED BY <1>3, <1>11, <2>1, <2>2
<1>14. Copied(x) => Copied(x)'
  <2> SUFFICES ASSUME Copied(x)
               PROVE  \A j \in 1..i : j <= Len(c) /\ j <= Len(from) /\ c[j] = from[j]
    BY <1>5, <1>10 DEF Copied, Src, Dst
  <2>1. \A j \in 1..pos[x] : j <= Len(b) /\ j <= Len(from) /\ b[j] = from[j]
    BY <1>10, <1>12 DEF Copied
  <2>2. \A j \in 1..pos[x] : j <= Len(c) /\ j <= Len(from) /\ c[j] = from[j]
    BY <1>4, <1>13, <2>1
  <2> QED BY <1>1, <1>4, <1>11, <1>12, <2>2
<1>15. AloneOK(x)'
  <2> SUFFICES ASSUME "overlap" \notin faults, Fresh(x)'
               PROVE  Copied(x)' /\ Len(c) = i
    BY <1>2, <1>5, <1>10 DEF AloneOK, Dst
  <2>1. Fresh(x)
    BY <1>1, <1>2, <1>6 DEF Fresh, Src
  <2>2. Copied(x) /\ Len(b) = pos[x]
    BY <1>2, <1>10, <1>12, <2>1 DEF FInv, AloneInv, AloneOK
  <2> QED BY <1>1, <1>4, <1>12, <1>14, <2>2
<1>16. ModesInv' /\ TodoInv' /\ CurInv' /\ AloneInv' /\ ConflictInv'
  BY <1>7, <1>9, <1>15, WriteKeeps
<1>17. TreeInv'
  <2>1. \A s \in Sides, p \in Paths :
          (IsDir(s, p)' <=> IsDir(s, p)) /\ (Exists(s, p)' <=> Exists(s, p))
    <3>1. \A s \in Sides, p \in Paths : fs'[s][p].kind = fs[s][p].kind
      BY <1>1, <1>4, TwoSides DEF IsFile
    <3> QED BY <3>1 DEF IsDir, Exists
  <2>2. \A s \in Sides, p \in Paths : fs'[s][p].mtime <= clock'
    <3>1. clock' = clock /\ clock \in 0..MaxClock
          /\ \A s \in Sides, p \in Paths : fs[s][p].mtime <= clock
      BY <1>2 DEF FInv, TypeOK, TreeInv
    <3> QED BY <1>1, <3>1, TwoSides
  <2> QED BY <2>1, <2>2, PathsAssumption DEF FInv, TreeInv
<1>18. \A p \in Paths : Writers(p)' = Writers(p) /\ (p = t => x \in Writers(p))
                        /\ (p # t => x \notin Writers(p))
  BY <1>2, <1>10 DEF Writers, Writing
<1>19. GroupInv'
  <2> SUFFICES ASSUME NEW p \in Paths \ renamed, Guarded(p)'
               PROVE  Whole(p)'
    BY <1>2 DEF GroupInv
  <2>1. Whole(p)
    <3>1. Guarded(p)
      BY <1>1, <1>2, <1>18, GuardedBefore
    <3> QED BY <3>1 DEF FInv, GroupInv
  <2>2. CASE p # t
    BY <1>1, <1>7, <1>18, <2>2, OtherFiles DEF Exists
  <2>3. CASE p = t
    <3>1. \A z \in Writers(p) : z \in Transfers /\ cur[z].path = p /\ cur[z].target = p
      BY WriterFacts
    <3>2. cur[x].path = p
      BY <1>18, <2>3, <3>1
    <3>3. Len(b) <= Len(from)
      BY <1>12, <2>1, <2>3, <3>2 DEF Whole
    <3>4. Len(c) <= Len(from)
      BY <1>1, <1>3, <3>3
    <3>5. CASE b = from
      <4>1. Len(c) = Len(from)
        BY <1>1, <1>3, <3>4, <3>5
      <4>2. \A j \in 1..Len(c) : c[j] = from[j]
        BY <1>1, <3>5, <4>1
      <4>3. c = from
        BY <1>3, <4>1, <4>2, SeqEqual
      <4> QED BY <1>10, <2>3, <3>2, <3>4, <4>3 DEF Whole, Src, Dst
    <3>6. CASE b # from
      <4>1. PICK z \in Writers(p) : pc[z] = "copy" /\ Copied(z)
        BY <1>12, <2>1, <2>3, <3>2, <3>6 DEF Whole
      <4>2. Copied(z)'
        <5>1. CASE z = x
          BY <1>14, <4>1, <5>1
        <5>2. CASE z # x
          <6>1. cur'[z].path = p /\ cur'[z].target = p /\ pos'[z] = pos[z] /\ pos[z] \in Nat
            BY <1>2, <1>5, <3>1, <5>2, MaxOfSizes DEF FInv, TypeOK
          <6>2. \A j \in 1..pos[z] : j <= Len(b) /\ j <= Len(from) /\ b[j] = from[j]
            BY <1>12, <2>3, <3>1, <3>2, <4>1 DEF Copied
          <6>3. \A j \in 1..pos[z] : j <= Len(c) /\ j <= Len(from) /\ c[j] = from[j]
            BY <1>13, <6>1, <6>2
          <6> QED BY <1>10, <2>3, <3>2, <6>1, <6>3 DEF Copied, Src, Dst
        <5> QED BY <5>1, <5>2
      <4>3. Whole(p)'
        BY <1>2, <1>10, <1>18, <2>3, <3>2, <3>4, <4>1, <4>2 DEF Whole, Src, Dst
      <4> QED BY <4>3
    <3> QED BY <3>5, <3>6
  <2> QED BY <2>2, <2>3
<1>20. AgreeInv'
  <2>1. \A p \in Paths : p # t /\ Agree(p) => Agree(p)'
    BY <1>1, <1>6 DEF Agree, Src, Dst, IsFile
  <2> QED BY <1>2, <1>18, <2>1 DEF FInv, AgreeInv, Tolerated
<1>21. DoneInv'
  <2> SUFFICES ASSUME ~dirty, NEW y \in Transfers, NEW p \in Paths, Entrusted(y, p)'
               PROVE  OnAgenda(y, p)' \/ Done(p)'
    BY <1>2 DEF DoneInv
  <2>1. Entrusted(y, p) /\ Exists(Source, p)
    BY <1>1, <1>2, <1>6 DEF Entrusted, Exists, Running, OfDirectory, IsDir
  <2>2. OnAgenda(y, p) \/ Done(p)
    BY <2>1 DEF FInv, DoneInv
  <2>3. OnAgenda(y, p) => OnAgenda(y, p)'
    BY <1>2 DEF OnAgenda
  <2>4. ASSUME Done(p) PROVE Done(p)'
    <3>1. CASE p # t
      BY <1>1, <1>7, <1>18, <2>1, <2>4, <3>1, OtherFiles DEF Done, Exists, Src, Dst
    <3>2. CASE p = t
      <4>1. FileDone(p)'
        BY <1>18, <3>2 DEF FileDone
      <4>2. Dst(p).kind = Src(p).kind /\ Dst(p).kind = "file"
        BY <1>4, <2>4, <3>2 DEF Done, IsFile, Dst
      <4> QED BY <1>1, <1>6, <3>2, <4>1, <4>2 DEF Done, Src, Dst
    <3> QED BY <3>1, <3>2
  <2> QED BY <2>2, <2>3, <2>4
<1> QED BY <1>8, <1>16, <1>17, <1>19, <1>20, <1>21 DEF FInv

-----------------------------------------------------------------------------
(* The end of a copy: what the last writer of a file leaves behind.         *)

(* A copy that has reached the end of the source and is no longer than it   *)
(* is the source.                                                           *)
LEMMA CopyComplete ==
  ASSUME FInv, NEW x \in Transfers, pos[x] >= Len(Src(cur[x].path).blocks), Copied(x),
         Len(Dst(cur[x].target).blocks) <= Len(Src(cur[x].path).blocks)
  PROVE  Dst(cur[x].target).blocks = Src(cur[x].path).blocks
<1> DEFINE b == Dst(cur[x].target).blocks
           f == Src(cur[x].path).blocks
<1>1. b \in Seq(0..MaxClock) /\ f \in Seq(0..MaxClock) /\ Len(b) \in Nat /\ Len(f) \in Nat
  <2>1. cur[x].path \in Paths /\ cur[x].target \in Paths
    BY DEF FInv, TypeOK
  <2> QED BY <2>1, TwoSides, TreeFacts DEF FInv, Src, Dst
<1>2. pos[x] \in Nat /\ pos[x] >= Len(f) /\ Len(b) <= Len(f)
  BY MaxOfSizes DEF FInv, TypeOK
<1>3. \A i \in 1..pos[x] : i <= Len(b) /\ b[i] = f[i]
  BY DEF Copied
<1> HIDE DEF b, f
<1>4. \A i \in 1..Len(f) : i <= Len(b) /\ b[i] = f[i]
  BY <1>1, <1>2, <1>3
<1>5. Len(b) = Len(f)
  BY <1>1, <1>2, <1>4
<1>6. b = f
  BY <1>1, <1>4, <1>5, SeqEqual
<1> QED BY <1>6 DEF b, f

(* The last writer to leave a file leaves it whole, if it has looked at the *)
(* source as it is now and either none was interrupted or it was alone all  *)
(* the time.  This is said of the moment x has its file's last block.       *)
LEMMA LastWriter ==
  ASSUME FInv, NEW x \in Transfers, NEW p \in Paths \ renamed, Writers(p) = {x},
         pc[x] = "times" \/ pos[x] >= Len(Src(p).blocks)
  PROVE  Fresh(x) /\ (Uninterrupted \/ "overlap" \notin faults) =>
            Dst(p).blocks = Src(p).blocks
<1>1. /\ Writing(x) /\ cur[x].target = p /\ cur[x].path = p
  BY WriterFacts DEF Writers
<1>2. ASSUME Fresh(x), Uninterrupted PROVE Dst(p).blocks = Src(p).blocks
  <2>1. Whole(p)
    BY <1>2 DEF FInv, GroupInv, Guarded
  <2>2. CASE Dst(p).blocks = Src(p).blocks
    BY <2>2
  <2>3. CASE Dst(p).blocks # Src(p).blocks
    <3>1. pc[x] = "copy" /\ Copied(x) /\ Len(Dst(p).blocks) <= Len(Src(p).blocks)
      BY <2>1, <2>3 DEF Whole
    <3> QED BY <1>1, <3>1, CopyComplete
  <2> QED BY <2>2, <2>3
<1>3. ASSUME "overlap" \notin faults, Fresh(x) PROVE Dst(p).blocks = Src(p).blocks
  <2>1. AloneOK(x)
    BY DEF FInv, AloneInv
  <2>2. CASE pc[x] = "times"
    BY <1>1, <1>3, <2>1, <2>2 DEF AloneOK
  <2>3. CASE pc[x] # "times"
    <3>1. pc[x] = "copy" /\ Copied(x) /\ Len(Dst(p).blocks) = pos[x]
      BY <1>1, <1>3, <2>1, <2>3 DEF AloneOK, Writing
    <3>2. Len(Src(p).blocks) \in Nat /\ pos[x] \in Nat
      BY TwoSides, TreeFacts, MaxOfSizes DEF FInv, TypeOK, Src
    <3>3. Len(Dst(p).blocks) <= Len(Src(p).blocks)
      <4>1. pos[x] <= Len(Src(p).blocks)
        BY <1>1, <3>1, <3>2 DEF Copied
      <4> QED BY <3>1, <4>1
    <3> QED BY <1>1, <2>3, <3>1, <3>3, CopyComplete
  <2> QED BY <2>2, <2>3
<1> QED BY <1>2, <1>3

(* The others that write a file keep it whole when x stops writing it.      *)
LEMMA WholeWithout ==
  ASSUME FInv, NEW x \in Transfers, WriteStep(x), NEW p \in Paths \ renamed, Guarded(p),
         fs'[Dest][p].blocks = fs[Dest][p].blocks, x \in Writers(p),
         pc[x] = "times" \/ pos[x] >= Len(Src(p).blocks),
         \A y \in Transfers : y # x => (y \in Writers(p)' <=> y \in Writers(p))
  PROVE  Whole(p)'
<1>1. Source' = Source /\ Dest' = Dest
  BY SidesStay DEF WriteStep
<1>2. Whole(p)
  BY DEF FInv, GroupInv
<1>3. \A z \in Writers(p) : z \in Transfers /\ cur[z].path = p /\ cur[z].target = p
  BY WriterFacts
<1>4. CASE Dst(p).blocks = Src(p).blocks
  BY <1>1, <1>2, <1>4 DEF Whole, Src, Dst, WriteStep
<1>5. CASE Dst(p).blocks # Src(p).blocks
  <2>1. PICK z \in Writers(p) : pc[z] = "copy" /\ Copied(z)
    BY <1>2, <1>5 DEF Whole
  <2>2. Len(Dst(p).blocks) <= Len(Src(p).blocks)
    BY <1>2 DEF Whole
  <2>3. z # x
    <3>1. SUFFICES ASSUME z = x PROVE FALSE
      OBVIOUS
    <3>2. pos[x] >= Len(Src(cur[x].path).blocks)
      BY <1>3, <2>1, <3>1
    <3> QED BY <1>3, <1>5, <2>1, <2>2, <3>1, <3>2, CopyComplete
  <2>4. /\ z \in Transfers /\ z \in Writers(p)' /\ pc'[z] = "copy"
        /\ cur'[z] = cur[z] /\ pos'[z] = pos[z]
    BY <1>3, <2>1, <2>3 DEF WriteStep
  <2>5. cur[z].path = p /\ cur[z].target = p
    BY <1>3
  <2>6. \A i \in 1..pos[z] :
          /\ i <= Len(fs[Dest][p].blocks) /\ i <= Len(fs[Source][p].blocks)
          /\ fs[Dest][p].blocks[i] = fs[Source][p].blocks[i]
    BY <2>1, <2>5 DEF Copied, Src, Dst
  <2>7. /\ fs'[Source'][cur'[z].path].blocks = fs[Source][p].blocks
        /\ fs'[Dest'][cur'[z].target].blocks = fs[Dest][p].blocks
    BY <1>1, <2>4, <2>5 DEF WriteStep
  <2>8. Copied(z)'
    BY <2>4, <2>6, <2>7 DEF Copied, Src, Dst
  <2>9. Len(fs'[Dest'][p].blocks) <= Len(fs'[Source'][p].blocks)
    BY <1>1, <2>2 DEF Src, Dst, WriteStep
  <2> QED BY <2>4, <2>8, <2>9 DEF Whole, Src, Dst
<1> QED BY <1>4, <1>5

(* A file that x leaves with the contents of the source and, if directories *)
(* only are transferred, with its time, is done.                            *)
LEMMA LeftDone ==
  ASSUME FInv, NEW x \in Transfers, WriteStep(x), NEW p \in Paths, Done(p), ~dirty,
         IsFile(Dest, p), fs'[Dest][p].blocks = fs[Dest][p].blocks, x \in Writers(p),
         pc[x] = "times" \/ pos[x] >= Len(Src(p).blocks),
         \A y \in Transfers : y # x => (y \in Writers(p)' <=> y \in Writers(p)),
         p \notin renamed /\ OnlyDirectories' => fs'[Dest][p].mtime = Src(p).mtime
  PROVE  Done(p)'
<1>1. Source' = Source /\ Dest' = Dest
  BY SidesStay DEF WriteStep
<1>2. fs'[Dest'][p].kind = fs'[Source'][p].kind
  BY <1>1 DEF WriteStep, Done, Exists, IsFile, Src, Dst
<1>3. ASSUME p \notin renamed PROVE FileDone(p)'
  <2>1. CASE Writers(p)' # {}
    BY <2>1 DEF FileDone
  <2>2. CASE Writers(p)' = {}
    <3>1. Writers(p) = {x}
      BY <2>2 DEF Writers
    <3>2. Dst(p).blocks = Src(p).blocks
      BY <1>3, <3>1, LastWriter, CleanIsGuarded DEF Uninterrupted
    <3> QED BY <1>1, <1>3, <3>2 DEF FileDone, Src, Dst, WriteStep
  <2> QED BY <2>1, <2>2
<1> QED BY <1>2, <1>3 DEF Done, Src, Dst, WriteStep

(* How GroupInv, AgreeInv and DoneInv survive the step by which x stops     *)
(* writing its file, or only stops copying it: the file is then as the last *)
(* writer leaves it.                                                        *)
LEMMA WriterLeaves ==
  ASSUME FInv, NEW x \in Transfers, WriteStep(x), NEW t \in Paths, x \in Writers(t),
         pc[x] = "times" \/ pos[x] >= Len(Src(cur[x].path).blocks),
         \A q \in Paths : q # t => fs'[Dest][q] = fs[Dest][q],
         fs'[Dest][t].blocks = fs[Dest][t].blocks,
         Writing(x)' => cur'[x] = cur[x],
         \A p \in Paths : OnAgenda(x, p) => OnAgenda(x, p)' \/ ~Entrusted(x, p),
         t \notin renamed /\ OnlyDirectories' /\ ~dirty => fs'[Dest][t].mtime = Src(t).mtime,
         Tolerated(faults) =>
            Fresh(x) \/ fs'[Dest][t].mtime # Src(cur[x].path).mtime
  PROVE  GroupInv' /\ AgreeInv' /\ DoneInv'
<1>1. Source' = Source /\ Dest' = Dest
  BY SidesStay DEF WriteStep
<1>2. cur[x].target = t /\ IsFile(Dest, t) /\ Running(x) /\ Writing(x)
  BY WriterFacts DEF Writers
<1>3. \A p \in Paths : \A y \in Transfers : y # x => (y \in Writers(p)' <=> y \in Writers(p))
  BY OtherWriters DEF WriteStep
<1>4. ASSUME NEW p \in Paths, p # t
      PROVE  Writers(p)' = Writers(p) /\ x \notin Writers(p) /\ fs'[Dest][p] = fs[Dest][p]
  <2>1. x \notin Writers(p) /\ x \notin Writers(p)'
    BY <1>2, <1>4 DEF Writers
  <2>2. Writers(p) \subseteq Transfers /\ Writers(p)' \subseteq Transfers
    BY DEF Writers
  <2>3. \A y : y \in Writers(p)' <=> y \in Writers(p)
    BY <1>3, <2>1, <2>2
  <2>4. Writers(p)' = Writers(p)
    BY <2>3, Zenon
  <2> QED BY <1>4, <2>1, <2>4
<1>5. t \notin renamed => cur[x].path = t
  BY WriterFacts
<1>6. ASSUME NEW p \in Paths, p # t
      PROVE  /\ p \notin renamed /\ Guarded(p)' => Whole(p)'
             /\ Agree(p) => Agree(p)'
             /\ Exists(Source, p) /\ Done(p) => Done(p)'
  <2>1. Exists(Dest, p) \/ fs'[Dest][p].kind # "file"
    BY <1>4, <1>6 DEF Exists
  <2> QED BY <1>4, <1>6, <2>1, OtherFiles
<1>7. GroupInv'
  <2> SUFFICES ASSUME NEW p \in Paths \ renamed, Guarded(p)'
               PROVE  Whole(p)'
    BY DEF GroupInv, WriteStep
  <2>1. CASE p # t
    BY <1>6, <2>1
  <2>2. CASE p = t
    <3>1. Writers(p)' \subseteq Writers(p) /\ \A z \in Writers(p)' : cur'[z] = cur[z]
      BY <1>3, <2>2 DEF Writers, WriteStep
    <3>2. Guarded(p)
      BY <3>1, GuardedBefore DEF WriteStep
    <3> QED BY <1>3, <1>5, <2>2, <3>2, WholeWithout
  <2> QED BY <2>1, <2>2
<1>8. AgreeInv'
  <2> SUFFICES ASSUME Tolerated(faults), NEW p \in Paths \ renamed, Writers(p)' = {}
               PROVE  Agree(p)'
    BY DEF AgreeInv, WriteStep, Tolerated
  <2>1. CASE p # t
    BY <1>4, <1>6, <2>1 DEF FInv, AgreeInv
  <2>2. CASE p = t
    <3>1. Writers(p) = {x}
      BY <1>3, <2>2 DEF Writers
    <3>2. cur[x].path = p
      BY <1>5, <2>2
    <3>3. \/ Dst(p).blocks = Src(p).blocks
          \/ fs'[Dest][p].mtime # Src(p).mtime
      <4>1. Fresh(x) \/ fs'[Dest][p].mtime # Src(p).mtime
        BY <2>2, <3>2
      <4>2. Uninterrupted \/ "overlap" \notin faults
        BY DEF Tolerated, Uninterrupted
      <4> QED BY <3>1, <3>2, <4>1, <4>2, LastWriter
    <3> QED BY <1>1, <2>2, <3>3 DEF Agree, Src, Dst, WriteStep
  <2> QED BY <2>1, <2>2
<1>9. DoneInv'
  <2> SUFFICES ASSUME ~dirty, NEW y \in Transfers, NEW p \in Paths, Entrusted(y, p)'
               PROVE  OnAgenda(y, p)' \/ Done(p)'
    BY DEF DoneInv, WriteStep
  <2>1. Entrusted(y, p) /\ Exists(Source, p)
    <3>1. CASE y = x
      BY <1>1, <1>2, <3>1 DEF Entrusted, WriteStep, OfDirectory, IsDir, Exists
    <3>2. CASE y # x
      BY <1>1, <3>2 DEF Entrusted, WriteStep, OfDirectory, IsDir, Exists, Running
    <3> QED BY <3>1, <3>2
  <2>2. OnAgenda(y, p) \/ Done(p)
    BY <2>1 DEF FInv, DoneInv
  <2>3. ASSUME OnAgenda(y, p) PROVE OnAgenda(y, p)'
    <3>1. CASE y = x
      BY <2>1, <2>3, <3>1
    <3>2. CASE y # x
      BY <2>3, <3>2 DEF OnAgenda, WriteStep
    <3> QED BY <3>1, <3>2
  <2>4. ASSUME Done(p) PROVE Done(p)'
    <3>1. CASE p # t
      BY <1>6, <2>1, <2>4, <3>1
    <3>2. CASE p = t /\ p \notin renamed
      BY <1>2, <1>3, <1>5, <2>4, <3>2, LeftDone
    <3>3. CASE p = t /\ p \in renamed
      BY <1>1, <1>2, <2>4, <3>3 DEF Done, WriteStep, Exists, IsFile, Src, Dst
    <3> QED BY <3>1, <3>2, <3>3
  <2> QED BY <2>2, <2>3, <2>4
<1> QED BY <1>7, <1>8, <1>9

(* The step by which x leaves its file: SetTimes goes on with the walk, or  *)
(* returns when a single file was transferred.                              *)
LEMMA StepSetTimes ==
  ASSUME FInv, NEW x \in Transfers, SetTimes(x)
  PROVE  FInv'
<1> DEFINE t == cur[x].target
<1>1. /\ pc[x] = "times" /\ CurOK(x) /\ TodoOK(x)
      /\ UNCHANGED <<clock, faults, up, asked, req, dirty, renamed>>
  BY DEF SetTimes, FInv, CurInv, TodoInv
<1>2. /\ IsFile(Dest, t) /\ IsFile(Source, cur[x].path)
      /\ cur[x].mtime <= Src(cur[x].path).mtime
      /\ Undisturbed => Fresh(x)
  BY <1>1 DEF CurOK, HasFile, Writing
<1>3. /\ fs' \in [Sides -> [Paths -> Entries]] /\ fs'[Source] = fs[Source]
      /\ t \in Paths /\ fs'[Dest][t].kind = "file"
      /\ fs'[Dest][t].mtime = cur[x].mtime
      /\ fs'[Dest][t].blocks = fs[Dest][t].blocks
      /\ \A q \in Paths : q # t => fs'[Dest][q] = fs[Dest][q]
  BY <1>2, TimesSet DEF FInv
<1>4. Source' = Source /\ Dest' = Dest
  BY <1>1, SidesStay
<1>5. OfDirectory(x)' <=> OfDirectory(x)
  BY <1>1, <1>3, <1>4 DEF OfDirectory, IsDir
<1>6. /\ pc' \in [Transfers -> {"idle", "stat", "walk", "create", "copy", "times"}]
      /\ res' \in [Transfers -> {"none", "ok", "error"}]
      /\ todo' \in [Transfers -> SUBSET [path : Paths, info : Entries]]
      /\ cur' \in [Transfers -> [path : Paths, mtime : 0..MaxClock, target : Paths]]
      /\ pos' \in [Transfers -> 0..Max(Sizes)]
      /\ pos'[x] = 0
      /\ \A y \in Transfers : y # x =>
            /\ pc'[y] = pc[y] /\ res'[y] = res[y] /\ todo'[y] = todo[y]
            /\ cur'[y] = cur[y] /\ pos'[y] = pos[y]
      /\ OfDirectory(x) => pc'[x] = "walk" /\ todo'[x] = todo[x] /\ res'[x] = res[x]
      /\ ~OfDirectory(x) => pc'[x] = "idle" /\ todo'[x] = {} /\ res'[x] = "ok"
  <2>1. CASE OfDirectory(x)
    <3>1. /\ pc' = [pc EXCEPT ![x] = "walk"] /\ cur' = [cur EXCEPT ![x] = NoCur]
          /\ UNCHANGED <<todo, pos, res>>
      BY <2>1 DEF SetTimes
    <3>2. NoCur \in [path : Paths, mtime : 0..MaxClock, target : Paths]
      BY PathsAssumption, BoundsAssumption DEF NoCur
    <3>3. cur' \in [Transfers -> [path : Paths, mtime : 0..MaxClock, target : Paths]]
          /\ \A y \in Transfers : y # x => cur'[y] = cur[y]
      BY <3>1, <3>2 DEF FInv, TypeOK
    <3>4. pos'[x] = 0
      BY <1>1, <3>1 DEF CurOK
    <3> QED BY <2>1, <3>1, <3>3, <3>4 DEF FInv, TypeOK
  <2>2. CASE ~OfDirectory(x)
    <3>1. Return(x, "ok")
      BY <2>2 DEF SetTimes
    <3> QED BY <2>2, <3>1, ReturnEffects DEF FInv
  <2> QED BY <2>1, <2>2
<1>7. TypeOK'
  BY <1>1, <1>3, <1>6 DEF FInv, TypeOK
<1> HIDE DEF t
<1>8. WriteStep(x)
  <2>1. \A q \in Paths : Exists(Dest, q) => fs'[Dest][q].kind = fs[Dest][q].kind
    BY <1>2, <1>3 DEF IsFile
  <2>2. res'[x] \in {res[x], "ok"} /\ (Running(x)' => res'[x] = res[x])
    BY <1>6 DEF Running
  <2> QED BY <1>1, <1>3, <1>6, <2>1, <2>2 DEF WriteStep, Running
<1>9. TodoOK(x)'
  <2>1. Undisturbed' <=> Undisturbed
    BY <1>1 DEF Undisturbed
  <2>2. CASE OfDirectory(x)
    BY <1>1, <1>3, <1>4, <1>5, <1>6, <2>1, <2>2 DEF TodoOK, Running, Src
  <2>3. CASE ~OfDirectory(x)
    BY <1>6, <2>3 DEF TodoOK
  <2> QED BY <2>2, <2>3
<1>10. ~Writing(x)' /\ CurOK(x)' /\ AloneOK(x)'
  BY <1>6 DEF Writing, CurOK, HasFile, AloneOK
<1>11. ModesInv' /\ TodoInv' /\ CurInv' /\ AloneInv' /\ ConflictInv'
  BY <1>8, <1>9, <1>10, WriteKeeps
<1>12. TreeInv'
  <2>1. \A s \in Sides, p \in Paths :
          (IsDir(s, p)' <=> IsDir(s, p)) /\ (Exists(s, p)' <=> Exists(s, p))
    <3>1. \A s \in Sides, p \in Paths : fs'[s][p].kind = fs[s][p].kind
      BY <1>2, <1>3, TwoSides DEF IsFile
    <3> QED BY <3>1 DEF IsDir, Exists
  <2>2. \A s \in Sides, p \in Paths : fs'[s][p].mtime <= clock'
    <3>1. clock' = clock /\ clock \in Nat /\ cur[x].mtime \in Nat /\ cur[x].path \in Paths
          /\ \A s \in Sides, p \in Paths : fs[s][p].mtime <= clock
      BY <1>1, BoundsAssumption DEF FInv, TypeOK, TreeInv
    <3>2. Src(cur[x].path).mtime \in Nat /\ Src(cur[x].path).mtime <= clock
      BY <3>1, TwoSides, TreeFacts DEF FInv, Src
    <3>3. cur[x].mtime <= clock
      BY <1>2, <3>1, <3>2
    <3> QED BY <1>3, <3>1, <3>3, TwoSides
  <2> QED BY <2>1, <2>2, PathsAssumption DEF FInv, TreeInv
<1>13. GroupInv' /\ AgreeInv' /\ DoneInv'
  <2>1. x \in Writers(t)
    BY <1>1 DEF Writers, Writing, t
  <2>2. \A p \in Paths : OnAgenda(x, p) => OnAgenda(x, p)' \/ ~Entrusted(x, p)
    BY <1>1, <1>6 DEF OnAgenda, Entrusted
  <2>3. t \notin renamed => cur[x].path = t
    BY <1>3, <2>1, WriterFacts
  <2>4. t \notin renamed /\ ~dirty => fs'[Dest][t].mtime = Src(t).mtime
    BY <1>2, <1>3, <2>3 DEF Undisturbed, Fresh
  <2>5. Fresh(x) \/ fs'[Dest][t].mtime # Src(cur[x].path).mtime
    BY <1>3 DEF Fresh
  <2> QED BY <1>1, <1>3, <1>8, <1>10, <2>1, <2>2, <2>4, <2>5, WriterLeaves
<1> QED BY <1>7, <1>11, <1>12, <1>13 DEF FInv

(* The end of the copy: the time is still to be set, or, after the upload   *)
(* of a single file, there is nothing more to do.                           *)
LEMMA StepCopyEnds ==
  ASSUME FInv, NEW x \in Transfers, CopyEnds(x)
  PROVE  FInv'
<1>1. /\ pc[x] = "copy" /\ pos[x] >= Len(Src(cur[x].path).blocks)
      /\ UNCHANGED <<fs, clock, faults, up, asked, req, dirty, renamed>>
  BY DEF CopyEnds, Src
<1>2. CurOK(x) /\ TodoOK(x) /\ AloneOK(x)
  BY DEF FInv, CurInv, TodoInv, AloneInv
<1>3. Source' = Source /\ Dest' = Dest
  BY <1>1, SidesStay
<1>4. PICK t \in Paths : t = cur[x].target
  BY DEF FInv, TypeOK
<1>5. x \in Writers(t) /\ HasFile(x) /\ Writing(x)
  BY <1>1, <1>4 DEF Writers, Writing, HasFile
<1>6. /\ OfDirectory(x)' <=> OfDirectory(x)
      /\ SetsTimes(x)' <=> SetsTimes(x)
      /\ Undisturbed' <=> Undisturbed
  BY <1>1, <1>3 DEF OfDirectory, IsDir, Undisturbed, SetsTimes
<1>7. CASE SetsTimes(x)
  <2>1. /\ pc' = [pc EXCEPT ![x] = "times"] /\ pos' = [pos EXCEPT ![x] = 0]
        /\ UNCHANGED <<todo, cur, res>>
    BY <1>7 DEF CopyEnds
  <2>2. /\ TypeOK' /\ pc'[x] = "times" /\ pos'[x] = 0
        /\ \A y \in Transfers : y # x => pc'[y] = pc[y] /\ pos'[y] = pos[y]
    <3>1. pos' \in [Transfers -> 0..Max(Sizes)]
      BY <2>1, MaxOfSizes DEF FInv, TypeOK
    <3> QED BY <1>1, <2>1, <3>1 DEF FInv, TypeOK
  <2>3. LocalStep(x) /\ WriteStep(x)
    BY <1>1, <2>1, <2>2 DEF LocalStep, WriteStep, Running
  <2>4. TodoOK(x)'
    BY <2>1, <2>2, <2>3, TodoShrinks
  <2>5. CurOK(x)'
    BY <1>1, <1>2, <1>3, <1>5, <1>6, <1>7, <2>1, <2>2
    DEF CurOK, HasFile, Writing, IsFile, Src, Fresh
  <2>6. AloneOK(x)'
    <3> SUFFICES ASSUME "overlap" \notin faults, Fresh(x)
                 PROVE  Dst(cur[x].target).blocks = Src(cur[x].path).blocks
      BY <1>1, <1>3, <2>1, <2>2 DEF AloneOK, Fresh, Src, Dst
    <3>1. Copied(x) /\ Len(Dst(cur[x].target).blocks) = pos[x]
      BY <1>1, <1>2 DEF AloneOK
    <3>2. Len(Src(cur[x].path).blocks) \in Nat /\ pos[x] \in Nat
      BY TwoSides, TreeFacts, MaxOfSizes DEF FInv, TypeOK, Src
    <3>3. pos[x] <= Len(Src(cur[x].path).blocks)
      BY <3>1, <3>2 DEF Copied
    <3> QED BY <1>1, <3>1, <3>3, CopyComplete
  <2>7. \A p \in Paths : Writers(p)' = Writers(p)
    BY <1>1, <2>1, <2>2 DEF Writers, Writing
  <2>8. GroupInv'
    <3> SUFFICES ASSUME NEW p \in Paths \ renamed, Guarded(p)'
                 PROVE  Whole(p)'
      BY <1>1 DEF GroupInv
    <3>1. Guarded(p) /\ Whole(p)
      <4>1. Guarded(p)
        BY <1>1, <2>1, <2>7, GuardedBefore
      <4> QED BY <4>1 DEF FInv, GroupInv
    <3>2. CASE x \notin Writers(p)
      <4>1. \A z \in Writers(p) : pc'[z] = pc[z] /\ cur'[z] = cur[z] /\ pos'[z] = pos[z]
        BY <2>1, <2>2, <3>2 DEF Writers
      <4> QED BY <1>1, <2>7, <3>1, <4>1, WholeStays
    <3>3. CASE x \in Writers(p)
      <4>1. cur[x].path = p
        BY <3>3, WriterFacts
      <4> QED BY <1>1, <2>3, <2>7, <3>1, <3>3, <4>1, WholeWithout
    <3> QED BY <3>2, <3>3
  <2>9. \A p \in Paths : OnAgenda(x, p) => OnAgenda(x, p)'
    BY <1>1, <2>1 DEF OnAgenda
  <2> QED BY <2>2, <2>3, <2>4, <2>5, <2>6, <2>7, <2>8, <2>9, LocalKeeps
<1>8. CASE ~SetsTimes(x)
  <2>1. Return(x, "ok")
    BY <1>8 DEF CopyEnds
  <2>2. /\ pc'[x] = "idle" /\ res'[x] = "ok"
        /\ \A y \in Transfers : y # x =>
              /\ pc'[y] = pc[y] /\ res'[y] = res[y] /\ todo'[y] = todo[y]
              /\ cur'[y] = cur[y] /\ pos'[y] = pos[y]
    BY <2>1, ReturnEffects DEF FInv
  <2>3. TypeOK' /\ ModesInv' /\ TreeInv' /\ TodoInv' /\ CurInv' /\ AloneInv'
    BY <1>1, <2>1, ReturnKeeps
  <2>4. WriteStep(x)
    BY <1>1, <2>2 DEF WriteStep, Running
  <2>5. ~OfDirectory(x) /\ ~OfDirectory(x)'
    BY <1>6, <1>8 DEF SetsTimes
  <2>6. ~OnlyDirectories'
    BY <2>2, <2>5 DEF OnlyDirectories
  <2>7. \A p \in Paths : ~Entrusted(x, p)
    BY <2>5 DEF Entrusted
  <2>8. Tolerated(faults) => Fresh(x)
    BY <1>2, <1>5, <1>8 DEF CurOK, Tolerated
  <2>9. GroupInv' /\ AgreeInv' /\ DoneInv'
    <3>1. ~Writing(x)'
      BY <2>2 DEF Writing
    <3> QED BY <1>1, <1>5, <2>4, <2>6, <2>7, <2>8, <3>1, WriterLeaves
  <2>10. ConflictInv'
    <3>1. \A p \in Paths : KindConflict(p) => KindConflict(p)'
      BY <1>1, <1>3 DEF KindConflict, IsDir, IsFile
    <3>2. \A y \in Transfers : res'[y] = "error" => res[y] = "error"
      BY <2>2
    <3>3. \A y \in Transfers : OfDirectory(y)' <=> OfDirectory(y)
      BY <1>1, <1>3 DEF OfDirectory, IsDir
    <3> QED BY <1>1, <3>1, <3>2, <3>3 DEF FInv, ConflictInv
  <2> QED BY <2>3, <2>9, <2>10 DEF FInv
<1> QED BY <1>7, <1>8

(* A transfer that fails while it is alone has written a beginning of its   *)
(* source.                                                                  *)
LEMMA StepFail ==
  ASSUME FInv, NEW x \in Transfers, Fail(x)
  PROVE  FInv'
<1>1. /\ "interrupt" \in faults /\ Running(x) /\ Return(x, "error") /\ dirty' = TRUE
      /\ UNCHANGED <<fs, clock, faults, up, asked, req, renamed>>
  BY DEF Fail
<1>2. /\ pc'[x] = "idle"
      /\ \A y \in Transfers : y # x => pc'[y] = pc[y] /\ cur'[y] = cur[y]
  BY <1>1, ReturnEffects DEF FInv
<1>3. TypeOK' /\ ModesInv' /\ TreeInv' /\ TodoInv' /\ CurInv' /\ AloneInv'
  BY <1>1, ReturnKeeps
<1>4. GroupInv' /\ DoneInv' /\ ConflictInv'
  BY <1>1 DEF GroupInv, Guarded, Uninterrupted, DoneInv, ConflictInv
<1>5. AgreeInv'
  <2> SUFFICES ASSUME Tolerated(faults), NEW p \in Paths \ renamed, Writers(p)' = {}
               PROVE  Agree(p)'
    BY <1>1 DEF AgreeInv, Tolerated
  <2>1. Source' = Source /\ Dest' = Dest
    BY <1>1, SidesStay
  <2>2. Agree(p) => Agree(p)'
    BY <1>1, <2>1 DEF Agree, IsFile, Src, Dst
  <2>3. \A y \in Transfers : y # x => y \notin Writers(p)
    BY <1>2, OtherWriters
  <2>4. CASE x \notin Writers(p)
    <3>1. Writers(p) = {}
      BY <2>3, <2>4 DEF Writers
    <3> QED BY <2>2, <3>1 DEF FInv, AgreeInv
  <2>5. CASE x \in Writers(p)
    <3>1. cur[x].target = p /\ cur[x].path = p /\ Writing(x) /\ HasFile(x)
      BY <2>5, WriterFacts DEF Writers, Writing, HasFile
    <3>2. faults \subseteq {"interrupt"}
      BY <1>1 DEF Tolerated
    <3>3. Fresh(x) /\ "overlap" \notin faults
      BY <3>1, <3>2 DEF Undisturbed, FInv, CurInv, CurOK
    <3>4. AloneOK(x)
      BY DEF FInv, AloneInv
    <3>5. CASE pc[x] = "times"
      BY <2>2, <3>1, <3>3, <3>4, <3>5 DEF AloneOK, Agree
    <3>6. CASE pc[x] = "copy"
      <4>1. Copied(x) /\ Len(Dst(p).blocks) = pos[x]
        BY <3>1, <3>3, <3>4, <3>6 DEF AloneOK
      <4>2. pos[x] \in Nat /\ Len(Src(p).blocks) \in Nat
        BY TwoSides, TreeFacts, MaxOfSizes DEF FInv, TypeOK, Src
      <4>3. Agree(p)
        BY <3>1, <4>1, <4>2 DEF Agree, Copied
      <4> QED BY <2>2, <4>3
    <3> QED BY <3>1, <3>5, <3>6 DEF Writing
  <2> QED BY <2>4, <2>5
<1> QED BY <1>3, <1>4, <1>5 DEF FInv

-----------------------------------------------------------------------------
(* Requests, edits, and the users' own commands.                            *)

(* Agreement does not depend on the direction of the transfer.              *)
LEMMA AgreeBothWays ==
  ASSUME FInv, NEW p \in Paths, Agree(p), fs' = fs
  PROVE  Agree(p)'
<1>1. /\ Len(fs["local"][p].blocks) \in Nat /\ Len(fs["remote"][p].blocks) \in Nat
  BY TreeFacts DEF FInv, Sides
<1> DEFINE l == fs["local"][p]
           r == fs["remote"][p]
<1>2. Agree(p) <=> (l.kind = "file" /\ r.kind = "file" /\ l.mtime = r.mtime =>
        \A i \in 1..Len(l.blocks) : i <= Len(r.blocks) => l.blocks[i] = r.blocks[i])
  BY <1>1 DEF Agree, Src, Dst, Source, Dest, IsFile
<1>3. ASSUME NEW a \in Sides, NEW z \in Sides, a # z, Source' = a, Dest' = z
      PROVE  Agree(p)'
  <2>1. Agree(p)' <=> (fs[a][p].kind = "file" /\ fs[z][p].kind = "file"
                        /\ fs[a][p].mtime = fs[z][p].mtime =>
          \A i \in 1..Len(fs[a][p].blocks) : i <= Len(fs[z][p].blocks) =>
              fs[a][p].blocks[i] = fs[z][p].blocks[i])
    BY <1>3 DEF Agree, Src, Dst, IsFile
  <2>2. (a = "local" /\ z = "remote") \/ (a = "remote" /\ z = "local")
    BY <1>3 DEF Sides
  <2> QED BY <1>1, <1>2, <2>1, <2>2
<1> QED BY <1>3 DEF Source, Dest, Sides

(* The first of a group of requests.                                        *)
LEMMA StepBeginFirst ==
  ASSUME FInv, NEW x \in Transfers, NEW d \in BOOLEAN, NEW r \in Requests,
         Begin(x, d, r), AllIdle
  PROVE  FInv'
<1>1. /\ asked < MaxRequests /\ asked' = asked + 1 /\ up' = d
      /\ req' = [req EXCEPT ![x] = r] /\ pc' = [pc EXCEPT ![x] = "stat"]
      /\ res' = [y \in Transfers |-> "none"] /\ dirty' = FALSE
      /\ UNCHANGED <<fs, clock, faults, todo, cur, pos, renamed>>
  BY DEF Begin
<1>2. \A y \in Transfers : pc[y] = "idle" /\ todo[y] = {} /\ pos[y] = 0
  BY DEF AllIdle, Running, FInv, TodoInv, TodoOK, CurInv, CurOK
<1>3. pc'[x] = "stat" /\ \A y \in Transfers : y # x => pc'[y] = "idle"
  BY <1>1, <1>2 DEF FInv, TypeOK
<1>4. TypeOK'
  <2>1. asked' \in 0..MaxRequests
    BY <1>1, BoundsAssumption DEF FInv, TypeOK
  <2> QED BY <1>1, <2>1 DEF FInv, TypeOK
<1>5. ModesInv'
  BY <1>1, <1>3 DEF ModesInv, Running
<1>6. TreeInv'
  BY <1>1 DEF FInv, TreeInv, IsDir, Exists
<1>7. TodoInv' /\ CurInv' /\ AloneInv'
  BY <1>1, <1>2, <1>3 DEF TodoInv, TodoOK, CurInv, CurOK, HasFile, AloneInv, AloneOK
<1>8. \A p \in Paths : Writers(p) = {} /\ Writers(p)' = {}
  BY <1>2, <1>3 DEF Writers, Writing
<1>9. GroupInv' /\ AgreeInv'
  BY <1>1, <1>8, AgreeBothWays DEF FInv, GroupInv, Guarded, AgreeInv, Tolerated
<1>10. DoneInv'
  BY <1>1, <1>3 DEF DoneInv, Entrusted, OnAgenda, Running
<1>11. ConflictInv'
  BY <1>1 DEF ConflictInv
<1> QED BY <1>4, <1>5, <1>6, <1>7, <1>9, <1>10, <1>11 DEF FInv

(* A request that joins running ones of the same direction.                 *)
LEMMA StepBeginNext ==
  ASSUME FInv, NEW x \in Transfers, NEW d \in BOOLEAN, NEW r \in Requests,
         Begin(x, d, r), ~AllIdle
  PROVE  FInv'
<1>1. /\ asked < MaxRequests /\ asked' = asked + 1 /\ up' = up
      /\ "overlap" \in faults /\ ~Running(x) /\ res[x] = "none"
      /\ req' = [req EXCEPT ![x] = r] /\ pc' = [pc EXCEPT ![x] = "stat"]
      /\ res' = [res EXCEPT ![x] = "none"] /\ dirty' = dirty
      /\ UNCHANGED <<fs, clock, faults, todo, cur, pos, renamed>>
  BY DEF Begin, New, FInv, TypeOK
<1>2. pc[x] = "idle" /\ todo[x] = {} /\ pos[x] = 0
  BY <1>1 DEF Running, FInv, TodoInv, TodoOK, CurInv, CurOK
<1>3. /\ pc'[x] = "stat" /\ req'[x] = r /\ res' = res
      /\ \A y \in Transfers : y # x => pc'[y] = pc[y] /\ req'[y] = req[y]
  BY <1>1 DEF FInv, TypeOK
<1>4. Source' = Source /\ Dest' = Dest
  BY <1>1, SidesStay
<1>5. /\ Undisturbed' <=> Undisturbed
      /\ \A y \in Transfers : y # x => (OfDirectory(y)' <=> OfDirectory(y))
  BY <1>1, <1>3, <1>4 DEF Undisturbed, OfDirectory, IsDir
<1>6. TypeOK'
  <2>1. asked' \in 0..MaxRequests
    BY <1>1, BoundsAssumption DEF FInv, TypeOK
  <2>2. req' \in [Transfers -> Requests]
    BY <1>1 DEF FInv, TypeOK
  <2>3. pc' \in [Transfers -> {"idle", "stat", "walk", "create", "copy", "times"}]
    BY <1>1 DEF FInv, TypeOK
  <2> QED BY <1>1, <1>3, <2>1, <2>2, <2>3 DEF FInv, TypeOK
<1>7. ModesInv'
  BY <1>1, <1>3 DEF FInv, ModesInv, Running
<1>8. TreeInv'
  BY <1>1 DEF FInv, TreeInv, IsDir, Exists
<1>9. TodoInv' /\ CurInv' /\ AloneInv'
  <2>1. TodoOK(x)' /\ CurOK(x)' /\ AloneOK(x)'
    BY <1>1, <1>2, <1>3 DEF TodoOK, CurOK, HasFile, AloneOK
  <2>2. ASSUME NEW y \in Transfers, y # x PROVE TodoOK(y)' /\ CurOK(y)' /\ AloneOK(y)'
    <3>1. TodoOK(y) /\ CurOK(y) /\ AloneOK(y)
      BY DEF FInv, TodoInv, CurInv, AloneInv
    <3>2. TodoOK(y)'
      BY <1>1, <1>3, <1>4, <1>5, <2>2, <3>1 DEF TodoOK, Running, Src
    <3>3. CurOK(y)'
      BY <1>1, <1>3, <1>4, <1>5, <2>2, <3>1
      DEF CurOK, HasFile, Writing, Src, IsFile, Fresh, SetsTimes
    <3>4. AloneOK(y)'
      BY <1>1, <1>3, <2>2, <3>1, AloneStays
    <3> QED BY <3>2, <3>3, <3>4
  <2> QED BY <2>1, <2>2 DEF TodoInv, CurInv, AloneInv
<1>10. \A p \in Paths : Writers(p)' = Writers(p)
  BY <1>1, <1>2, <1>3 DEF Writers, Writing
<1>11. GroupInv'
  <2> SUFFICES ASSUME NEW p \in Paths \ renamed, Guarded(p)'
               PROVE  Whole(p)'
    BY <1>1 DEF GroupInv
  <2>1. \A z \in Writers(p) : pc'[z] = pc[z] /\ cur'[z] = cur[z] /\ pos'[z] = pos[z]
    BY <1>1, <1>2, <1>3 DEF Writers, Writing
  <2>2. Guarded(p)
    BY <1>1, <1>10, <2>1, GuardedBefore
  <2>3. Whole(p)
    BY <2>2 DEF FInv, GroupInv
  <2> QED BY <1>1, <1>10, <2>3, <2>1, WholeStays
<1>12. AgreeInv'
  BY <1>1, <1>10, AgreeBothWays DEF FInv, AgreeInv, Tolerated
<1>13. DoneInv'
  <2> SUFFICES ASSUME ~dirty, NEW y \in Transfers, NEW p \in Paths, Entrusted(y, p)'
               PROVE  OnAgenda(y, p)' \/ Done(p)'
    BY <1>1 DEF DoneInv
  <2>1. CASE y = x
    BY <1>3, <2>1 DEF OnAgenda
  <2>2. CASE y # x
    <3>1. Entrusted(y, p)
      BY <1>1, <1>3, <1>4, <1>5, <2>2 DEF Entrusted, Exists, Running
    <3>2. OnAgenda(y, p) \/ Done(p)
      BY <3>1 DEF FInv, DoneInv
    <3>3. OnAgenda(y, p) => OnAgenda(y, p)'
      BY <1>1, <1>3, <2>2 DEF OnAgenda
    <3>4. OnlyDirectories' => OnlyDirectories
      BY <1>1, <1>3, <1>5 DEF OnlyDirectories
    <3>5. FileDone(p) => FileDone(p)'
      BY <1>1, <1>4, <1>10, <3>4 DEF FileDone, Src, Dst
    <3>6. Done(p) => Done(p)'
      BY <1>1, <1>4, <3>5 DEF Done, Src, Dst, IsFile, Tolerated
    <3> QED BY <3>2, <3>3, <3>6
  <2> QED BY <2>1, <2>2
<1>14. ConflictInv'
  <2>1. \A p \in Paths : KindConflict(p)' <=> KindConflict(p)
    BY <1>1, <1>4 DEF KindConflict, IsDir, IsFile
  <2> QED BY <1>1, <1>3, <1>5, <2>1 DEF FInv, ConflictInv
<1> QED BY <1>6, <1>7, <1>8, <1>9, <1>11, <1>12, <1>13, <1>14 DEF FInv

(* An edit while transfers run is one of their source.                      *)
LEMMA StepEdit ==
  ASSUME FInv, NEW side \in Sides, NEW p \in Paths, NEW n \in Sizes, Edit(side, p, n)
  PROVE  FInv'
<1>1. /\ fs' \in [Sides -> [Paths -> Entries]]
      /\ fs'[side][p].kind = "file" /\ fs'[side][p].mtime = clock + 1
      /\ \A q \in Paths : q # p => fs'[side][q] = fs[side][q]
      /\ \A s \in Sides : s # side => fs'[s] = fs[s]
  BY FileEdited DEF FInv
<1>2. /\ clock < MaxClock /\ clock' = clock + 1 /\ MayEdit(side) /\ dirty' = TRUE
      /\ p # Root /\ IsDir(side, Parent(p)) /\ ~IsDir(side, p)
      /\ renamed' = (IF AllIdle THEN renamed \ {p} ELSE renamed)
      /\ UNCHANGED <<faults, up, asked, req, pc, todo, cur, pos, res>>
  BY DEF Edit
<1>3. Source' = Source /\ Dest' = Dest /\ clock \in Nat
  BY <1>2, SidesStay, BoundsAssumption DEF FInv, TypeOK
<1>4. \A s \in Sides, q \in Paths : IsDir(s, q)' <=> IsDir(s, q)
  BY <1>1, <1>2 DEF IsDir
<1>5. \A s \in Sides, q \in Paths : fs[s][q].mtime \in Nat /\ fs[s][q].mtime <= clock
  BY TreeFacts DEF FInv, TreeInv
<1>6. \A y \in Transfers : OfDirectory(y)' <=> OfDirectory(y)
  <2>1. \A y \in Transfers : req[y].path \in Paths
    BY DEF FInv, TypeOK, Requests
  <2> QED BY <1>2, <1>3, <1>4, <2>1, TwoSides DEF OfDirectory
<1>7. ASSUME NEW y \in Transfers, Running(y)
      PROVE  /\ side = Source
             /\ "editUpload" \in faults \/ ("edit" \in faults /\ SetsTimes(y))
  BY <1>2, <1>7 DEF MayEdit, AllIdle
<1>8. TypeOK'
  BY <1>1, <1>2, <1>3, BoundsAssumption DEF FInv, TypeOK
<1>9. ModesInv'
  BY <1>2 DEF FInv, ModesInv, Running
<1>10. TreeInv'
  <2>1. \A s \in Sides : IsDir(s, Root)'
    BY <1>4, PathsAssumption DEF FInv, TreeInv
  <2>2. ASSUME NEW s \in Sides, NEW o \in Paths, NEW q \in Paths,
               Exists(s, o)', IsPrefix(q, o), q # o
        PROVE  IsDir(s, q)
    <3>1. CASE Exists(s, o)
      BY <2>2, <3>1 DEF FInv, TreeInv
    <3>2. CASE ~Exists(s, o)
      <4>1. s = side /\ o = p
        BY <1>1, <2>2, <3>2 DEF Exists
      <4>2. Parent(p) \in Paths /\ IsPrefix(q, Parent(p))
        BY <1>2, <2>2, <4>1, ParentAbove
      <4> QED BY <1>2, <4>1, <4>2 DEF FInv, TreeInv, IsDir, Exists
    <3> QED BY <3>1, <3>2
  <2>3. \A s \in Sides, q \in Paths : fs'[s][q].mtime <= clock'
    BY <1>1, <1>2, <1>3, <1>5
  <2> QED BY <1>4, <2>1, <2>2, <2>3 DEF TreeInv
<1>11. TodoInv'
  <2> SUFFICES ASSUME NEW y \in Transfers PROVE TodoOK(y)'
    BY DEF TodoInv
  <2>1. TodoOK(y) /\ todo[y] \subseteq [path : Paths, info : Entries]
    BY DEF FInv, TodoInv, TypeOK
  <2>2. ASSUME NEW e \in todo[y]
        PROVE  /\ e.info.kind = fs'[Source'][e.path].kind
               /\ e.info.mtime <= fs'[Source'][e.path].mtime
               /\ ~Undisturbed'
    <3>1. side = Source /\ ("edit" \in faults \/ "editUpload" \in faults)
      BY <1>7, <2>1 DEF TodoOK
    <3>2. e.path \in Paths /\ e.info.mtime \in Nat
      BY <2>1, EntryFacts, BoundsAssumption
    <3>3. /\ e.info.kind = Src(e.path).kind /\ e.info.kind # "none"
          /\ e.info.mtime <= Src(e.path).mtime
      BY <2>1 DEF TodoOK
    <3>4. CASE e.path # p
      BY <1>1, <1>2, <1>3, <3>1, <3>2, <3>3, <3>4 DEF Src, Undisturbed
    <3>5. CASE e.path = p
      <4>1. Src(p).kind = "file"
        BY <1>2, <3>1, <3>3, <3>5, TwoSides, TreeFacts DEF FInv, Src, IsDir
      <4>2. Src(p).mtime \in Nat /\ Src(p).mtime <= clock
        BY <1>5, TwoSides DEF Src
      <4>3. e.info.mtime <= clock + 1
        BY <1>3, <3>2, <3>3, <3>5, <4>2
      <4> QED BY <1>1, <1>2, <1>3, <3>1, <3>3, <3>5, <4>1, <4>3 DEF Src, Undisturbed
    <3> QED BY <3>4, <3>5
  <2> QED BY <1>2, <1>6, <2>1, <2>2 DEF TodoOK, Src, Running
<1>12. ASSUME NEW y \in Transfers, HasFile(y)
       PROVE  /\ CurOK(y) /\ Running(y) /\ side = Source /\ ~AllIdle
              /\ IsFile(Source, cur[y].path) /\ cur[y].path \in Paths /\ cur[y].target \in Paths
              /\ cur[y].mtime \in Nat /\ cur[y].mtime <= fs[Source][cur[y].path].mtime
              /\ cur[y].path = p =>
                    fs'[Source][cur[y].path].mtime = clock + 1 /\ cur[y].mtime <= clock
              /\ cur[y].path # p => fs'[Source][cur[y].path] = fs[Source][cur[y].path]
              /\ fs'[Dest] = fs[Dest]
  <2>1. CurOK(y) /\ Running(y)
    BY <1>12 DEF FInv, CurInv, HasFile, Running
  <2>2. side = Source /\ ~AllIdle
    BY <1>7, <2>1 DEF AllIdle
  <2>3. cur[y].path \in Paths /\ cur[y].target \in Paths /\ cur[y].mtime \in Nat
    BY BoundsAssumption DEF FInv, TypeOK
  <2>4. IsFile(Source, cur[y].path) /\ cur[y].mtime <= fs[Source][cur[y].path].mtime
    BY <1>12, <2>1 DEF CurOK, Src
  <2>5. cur[y].mtime <= clock
    BY <1>3, <1>5, <2>3, <2>4, TwoSides
  <2>6. fs'[Dest] = fs[Dest]
    BY <1>1, <2>2, TwoSides
  <2> QED BY <1>1, <2>1, <2>2, <2>3, <2>4, <2>5, <2>6
<1>13. CurInv'
  <2> SUFFICES ASSUME NEW y \in Transfers PROVE CurOK(y)'
    BY DEF CurInv
  <2>1. CASE ~HasFile(y)
    BY <1>2, <2>1 DEF FInv, CurInv, CurOK, HasFile
  <2>2. CASE HasFile(y)
    <3>1. IsFile(Source, cur[y].path)'
      BY <1>1, <1>2, <1>3, <1>12, <2>2 DEF IsFile
    <3>2. cur[y].mtime <= fs'[Source][cur[y].path].mtime
      BY <1>3, <1>12, <2>2
    <3>3. renamed' = renamed /\ (IsFile(Dest, cur[y].target)' <=> IsFile(Dest, cur[y].target))
      BY <1>2, <1>3, <1>12, <2>2 DEF IsFile
    <3>4. ~Undisturbed'
      BY <1>2, <1>7, <1>12, <2>2 DEF Undisturbed
    <3>5. /\ SetsTimes(y)' <=> SetsTimes(y)
          /\ "editUpload" \in faults \/ SetsTimes(y)
      BY <1>2, <1>6, <1>7, <1>12, <2>2 DEF SetsTimes
    <3> QED BY <1>2, <1>3, <1>6, <1>12, <2>2, <3>1, <3>2, <3>3, <3>4, <3>5
        DEF CurOK, HasFile, Writing, Src
  <2> QED BY <2>1, <2>2
<1>14. AloneInv'
  <2> SUFFICES ASSUME NEW y \in Transfers PROVE AloneOK(y)'
    BY DEF AloneInv
  <2>1. CASE ~Writing(y)
    BY <1>2, <2>1 DEF AloneOK, Writing
  <2>2. CASE Writing(y) /\ cur[y].path = p
    <3>1. ~Fresh(y)'
      BY <1>2, <1>3, <1>12, <2>2 DEF Fresh, Src, Writing, HasFile
    <3> QED BY <3>1 DEF AloneOK
  <2>3. CASE Writing(y) /\ cur[y].path # p
    <3>1. /\ fs'[Source'][cur'[y].path] = fs[Source][cur[y].path]
          /\ fs'[Dest'][cur'[y].target] = fs[Dest][cur[y].target]
      BY <1>2, <1>3, <1>12, <2>3 DEF Writing, HasFile
    <3>2. AloneOK(y)
      BY DEF FInv, AloneInv
    <3>3. (Copied(y)' <=> Copied(y)) /\ (Fresh(y)' <=> Fresh(y))
      BY <1>2, <3>1 DEF Copied, Fresh, Src, Dst
    <3> QED BY <1>2, <3>1, <3>2, <3>3 DEF AloneOK, Src, Dst
  <2> QED BY <2>1, <2>2, <2>3
<1>15. DoneInv' /\ ConflictInv'
  BY <1>2 DEF DoneInv, ConflictInv
<1>16. GroupInv'
  <2> SUFFICES ASSUME NEW q \in Paths, q \notin renamed', Guarded(q)'
               PROVE  Whole(q)'
    BY DEF GroupInv
  <2>1. Writers(q)' = Writers(q)
    BY <1>2 DEF Writers, Writing
  <2>2. PICK z \in Writers(q) : Fresh(z)'
    BY <2>1 DEF Guarded
  <2>3. z \in Transfers /\ HasFile(z) /\ ~AllIdle
    BY <1>12 DEF Writers, Writing, HasFile
  <2>4. q \notin renamed
    BY <1>2, <2>3
  <2>5. cur[z].path = q
    BY <2>4, WriterFacts
  <2>6. q # p
    BY <1>2, <1>3, <1>12, <2>2, <2>3, <2>5 DEF Fresh, Src
  <2>7. fs'[Source'][q] = fs[Source][q] /\ fs'[Dest'][q] = fs[Dest][q]
    BY <1>1, <1>3, <2>6, TwoSides
  <2>8. Fresh(z)
    BY <1>2, <2>2, <2>5, <2>7 DEF Fresh, Src
  <2>9. Whole(q)
    <3>1. Uninterrupted
      BY <1>2 DEF Guarded, Uninterrupted
    <3> QED BY <2>4, <2>8, <3>1 DEF FInv, GroupInv, Guarded
  <2>10. ASSUME NEW w \in Writers(q), pc[w] = "copy", Copied(w)
         PROVE  w \in Writers(q)' /\ pc'[w] = "copy" /\ Copied(w)'
    <3>1. cur[w].path = q /\ cur[w].target = q
      BY <2>4, WriterFacts
    <3>2. \A i \in 1..pos[w] :
            /\ i <= Len(fs[Dest][q].blocks) /\ i <= Len(fs[Source][q].blocks)
            /\ fs[Dest][q].blocks[i] = fs[Source][q].blocks[i]
      BY <2>10, <3>1 DEF Copied, Src, Dst
    <3>3. Copied(w)'
      BY <1>2, <2>7, <3>1, <3>2 DEF Copied, Src, Dst
    <3> QED BY <1>2, <2>1, <2>10, <3>3
  <2> QED BY <2>7, <2>9, <2>10 DEF Whole, Src, Dst
<1>17. AgreeInv'
  <2> SUFFICES ASSUME Tolerated(faults), NEW q \in Paths, q \notin renamed', Writers(q)' = {}
               PROVE  Agree(q)'
    BY <1>2 DEF AgreeInv, Tolerated
  <2>1. CASE q # p
    <3>1. q \notin renamed /\ Writers(q) = {}
      BY <1>2, <2>1 DEF Writers, Writing
    <3>2. Agree(q)
      BY <3>1 DEF FInv, AgreeInv
    <3>3. fs'[Source'][q] = fs[Source][q] /\ fs'[Dest'][q] = fs[Dest][q]
      BY <1>1, <1>3, <2>1, TwoSides
    <3> QED BY <3>2, <3>3 DEF Agree, Src, Dst, IsFile
  <2>2. CASE q = p
    <3>1. fs'[Source'][q].mtime # fs'[Dest'][q].mtime
      BY <1>1, <1>3, <1>5, <2>2, TwoSides
    <3> QED BY <3>1 DEF Agree, Src, Dst
  <2> QED BY <2>1, <2>2
<1> QED BY <1>8, <1>9, <1>10, <1>11, <1>13, <1>14, <1>15, <1>16, <1>17 DEF FInv

(* Between two groups of requests nothing is under way.                     *)
LEMMA IdleChange ==
  ASSUME FInv, AllIdle, dirty' = TRUE, UNCHANGED <<faults, pc, todo, cur, pos, res>>
  PROVE  /\ ModesInv' /\ TodoInv' /\ CurInv' /\ AloneInv'
         /\ GroupInv' /\ DoneInv' /\ ConflictInv'
         /\ \A p \in Paths : Writers(p) = {}
<1>1. \A y \in Transfers : pc[y] = "idle" /\ todo[y] = {} /\ pos[y] = 0
  BY DEF AllIdle, Running, FInv, TodoInv, TodoOK, CurInv, CurOK
<1>2. ModesInv'
  BY <1>1 DEF ModesInv, Running, AllIdle
<1>3. TodoInv' /\ CurInv' /\ AloneInv'
  BY <1>1 DEF TodoInv, TodoOK, CurInv, CurOK, HasFile, AloneInv, AloneOK
<1>4. GroupInv' /\ DoneInv' /\ ConflictInv'
  BY <1>1 DEF GroupInv, Guarded, Writers, Writing, DoneInv, ConflictInv
<1>5. \A p \in Paths : Writers(p) = {}
  BY <1>1 DEF Writers, Writing
<1> QED BY <1>2, <1>3, <1>4, <1>5

(* sftp mkdir makes a directory under a directory: the remote side stays a  *)
(* tree.                                                                    *)
LEMMA StepMkdir ==
  ASSUME FInv, NEW p \in Paths, SftpMkdir(p)
  PROVE  FInv'
<1>1. /\ AllIdle /\ asked < MaxRequests /\ asked' = asked + 1 /\ dirty' = TRUE
      /\ p # Root /\ ~Exists("remote", p) /\ IsDir("remote", Parent(p))
      /\ fs' = [fs EXCEPT !["remote"][p] = Dir]
      /\ UNCHANGED <<clock, faults, up, req, pc, todo, cur, pos, res, renamed>>
  BY DEF SftpMkdir
<1>2. "remote" \in Sides /\ Dir \in Entries
  BY DEF Sides, Entries
<1>3. /\ fs' \in [Sides -> [Paths -> Entries]]
      /\ fs'["remote"][p] = Dir
      /\ \A q \in Paths : q # p => fs'["remote"][q] = fs["remote"][q]
      /\ \A s \in Sides : s # "remote" => fs'[s] = fs[s]
  BY <1>1, <1>2, OneEntry DEF FInv
<1>4. Source' = Source /\ Dest' = Dest
  BY <1>1, SidesStay
<1>5. TypeOK'
  <2>1. asked' \in 0..MaxRequests
    BY <1>1, BoundsAssumption DEF FInv, TypeOK
  <2> QED BY <1>1, <1>3, <2>1 DEF FInv, TypeOK
<1>6. TreeInv'
  <2>1. \A s \in Sides, q \in Paths : IsDir(s, q) => IsDir(s, q)'
    BY <1>3 DEF IsDir, Dir
  <2>2. ASSUME NEW s \in Sides, NEW o \in Paths, NEW q \in Paths,
               Exists(s, o)', IsPrefix(q, o), q # o
        PROVE  IsDir(s, q)
    <3>1. CASE Exists(s, o)
      BY <2>2, <3>1 DEF FInv, TreeInv
    <3>2. CASE ~Exists(s, o)
      <4>1. s = "remote" /\ o = p
        BY <1>3, <2>2, <3>2 DEF Exists
      <4>2. Parent(p) \in Paths /\ IsPrefix(q, Parent(p))
        BY <1>1, <2>2, <4>1, ParentAbove
      <4> QED BY <1>1, <1>2, <4>1, <4>2 DEF FInv, TreeInv, IsDir, Exists
    <3> QED BY <3>1, <3>2
  <2>3. \A s \in Sides, q \in Paths : fs'[s][q].mtime <= clock'
    <3>1. /\ clock' = clock /\ clock \in Nat
          /\ \A s \in Sides, q \in Paths : fs[s][q].mtime <= clock
      BY <1>1, BoundsAssumption DEF FInv, TypeOK, TreeInv
    <3> QED BY <1>3, <3>1 DEF Dir
  <2> QED BY <2>1, <2>2, <2>3, PathsAssumption DEF FInv, TreeInv
<1>7. AgreeInv'
  <2> SUFFICES ASSUME Tolerated(faults), NEW q \in Paths \ renamed
               PROVE  Agree(q)'
    BY <1>1 DEF AgreeInv, Tolerated
  <2>1. CASE q # p
    <3>1. Agree(q)
      BY <1>1, IdleChange DEF FInv, AgreeInv
    <3>2. fs'[Source'][q] = fs[Source][q] /\ fs'[Dest'][q] = fs[Dest][q]
      BY <1>3, <1>4, <2>1, TwoSides
    <3> QED BY <3>1, <3>2 DEF Agree, Src, Dst, IsFile
  <2>2. CASE q = p
    <3>1. fs'["remote"][q].kind # "file" /\ ("remote" = Source' \/ "remote" = Dest')
      BY <1>2, <1>3, <1>4, <2>2, TwoSides DEF Dir
    <3> QED BY <3>1 DEF Agree, IsFile
  <2> QED BY <2>1, <2>2
<1> QED BY <1>1, <1>5, <1>6, <1>7, IdleChange DEF FInv

(* sftp rm takes an entry away with nothing below it: the remote side stays *)
(* a tree.                                                                  *)
LEMMA StepRemove ==
  ASSUME FInv, NEW p \in Paths, SftpRemove(p)
  PROVE  FInv'
<1>1. /\ AllIdle /\ asked < MaxRequests /\ asked' = asked + 1 /\ dirty' = TRUE
      /\ p # Root /\ Children("remote", p) = {}
      /\ fs' = [fs EXCEPT !["remote"][p] = Nothing]
      /\ renamed' = renamed \ {p}
      /\ UNCHANGED <<clock, faults, up, req, pc, todo, cur, pos, res>>
  BY DEF SftpRemove
<1>2. "remote" \in Sides /\ Nothing \in Entries
  BY DEF Sides, Entries
<1>3. /\ fs' \in [Sides -> [Paths -> Entries]]
      /\ fs'["remote"][p] = Nothing
      /\ \A q \in Paths : q # p => fs'["remote"][q] = fs["remote"][q]
      /\ \A s \in Sides : s # "remote" => fs'[s] = fs[s]
  BY <1>1, <1>2, OneEntry DEF FInv
<1>4. Source' = Source /\ Dest' = Dest
  BY <1>1, SidesStay
<1>5. TypeOK'
  <2>1. asked' \in 0..MaxRequests
    BY <1>1, BoundsAssumption DEF FInv, TypeOK
  <2> QED BY <1>1, <1>3, <2>1 DEF FInv, TypeOK
<1>6. TreeInv'
  <2>1. \A s \in Sides : IsDir(s, Root)'
    BY <1>1, <1>3, PathsAssumption DEF FInv, TreeInv, IsDir
  <2>2. ASSUME NEW s \in Sides, NEW o \in Paths, NEW q \in Paths,
               Exists(s, o)', IsPrefix(q, o), q # o
        PROVE  IsDir(s, q)'
    <3>1. Exists(s, o)
      BY <1>3, <2>2 DEF Exists, Nothing
    <3>2. IsDir(s, q)
      BY <2>2, <3>1 DEF FInv, TreeInv
    <3>3. ~(s = "remote" /\ q = p)
      <4> SUFFICES ASSUME s = "remote", q = p PROVE FALSE
        OBVIOUS
      <4>1. PICK c \in Paths : c # Root /\ Parent(c) = p /\ IsPrefix(c, o)
        BY <2>2, ChildTowards
      <4>2. Exists("remote", c)
        BY <2>2, <3>1, <4>1 DEF FInv, TreeInv, IsDir, Exists
      <4> QED BY <1>1, <4>1, <4>2 DEF Children
    <3> QED BY <1>3, <3>2, <3>3 DEF IsDir
  <2>3. \A s \in Sides, q \in Paths : fs'[s][q].mtime <= clock'
    <3>1. /\ clock' = clock /\ clock \in Nat
          /\ \A s \in Sides, q \in Paths : fs[s][q].mtime <= clock
      BY <1>1, BoundsAssumption DEF FInv, TypeOK, TreeInv
    <3> QED BY <1>3, <3>1 DEF Nothing
  <2> QED BY <2>1, <2>2, <2>3 DEF TreeInv
<1>7. AgreeInv'
  <2> SUFFICES ASSUME Tolerated(faults), NEW q \in Paths, q = p \/ q \notin renamed
               PROVE  Agree(q)'
    BY <1>1 DEF AgreeInv, Tolerated
  <2>1. CASE q # p
    <3>1. Agree(q)
      BY <1>1, <2>1, IdleChange DEF FInv, AgreeInv
    <3>2. fs'[Source'][q] = fs[Source][q] /\ fs'[Dest'][q] = fs[Dest][q]
      BY <1>3, <1>4, <2>1, TwoSides
    <3> QED BY <3>1, <3>2 DEF Agree, Src, Dst, IsFile
  <2>2. CASE q = p
    <3>1. fs'["remote"][q].kind # "file" /\ ("remote" = Source' \/ "remote" = Dest')
      BY <1>2, <1>3, <1>4, <2>2, TwoSides DEF Nothing
    <3> QED BY <3>1 DEF Agree, IsFile
  <2> QED BY <2>1, <2>2
<1> QED BY <1>1, <1>5, <1>6, <1>7, IdleChange DEF FInv

(* A step that changes nothing keeps the invariant.                         *)
LEMMA FInvStutter == FInv /\ UNCHANGED vars => FInv'
<1> SUFFICES ASSUME FInv, UNCHANGED vars PROVE FInv'
  OBVIOUS
<1> USE DEF vars
<1>1. Source' = Source /\ Dest' = Dest
  BY SidesStay
<1>2. \A p \in Paths : Writers(p)' = Writers(p)
  BY DEF Writers, Writing
<1>3. \A y \in Transfers : Copied(y)' <=> Copied(y)
  BY CopiedStays
<1>4. \A y \in Transfers : OfDirectory(y)' <=> OfDirectory(y)
  BY <1>1 DEF OfDirectory, IsDir
<1>5. TypeOK' /\ ModesInv' /\ TreeInv'
  BY DEF FInv, TypeOK, ModesInv, TreeInv, Running, AllIdle, IsDir, Exists
<1>6. TodoInv' /\ CurInv' /\ AloneInv'
  <2> SUFFICES ASSUME NEW y \in Transfers PROVE TodoOK(y)' /\ CurOK(y)' /\ AloneOK(y)'
    BY DEF TodoInv, CurInv, AloneInv
  <2>1. TodoOK(y) /\ CurOK(y) /\ AloneOK(y)
    BY DEF FInv, TodoInv, CurInv, AloneInv
  <2>2. TodoOK(y)'
    BY <1>1, <1>4, <2>1 DEF TodoOK, Running, Src, Undisturbed
  <2>3. CurOK(y)'
    BY <1>1, <1>4, <2>1
    DEF CurOK, HasFile, Writing, Src, IsFile, Fresh, SetsTimes, Undisturbed
  <2>4. AloneOK(y)'
    BY <2>1, AloneStays
  <2> QED BY <2>2, <2>3, <2>4
<1>7. GroupInv'
  <2>1. \A p \in Paths : Guarded(p)' => Guarded(p)
    BY <1>2, GuardedBefore
  <2> QED BY <1>2, <2>1, WholeStays DEF FInv, GroupInv
<1>8. AgreeInv'
  BY <1>2, AgreeBothWays DEF FInv, AgreeInv, Tolerated
<1>9. DoneInv'
  <2>1. \A y \in Transfers, p \in Paths : Entrusted(y, p)' => Entrusted(y, p)
    BY <1>1, <1>4 DEF Entrusted, Running, Exists
  <2>2. \A y \in Transfers, p \in Paths : OnAgenda(y, p) => OnAgenda(y, p)'
    BY DEF OnAgenda
  <2>3. \A p \in Paths : FileDone(p) => FileDone(p)'
    BY <1>1, <1>2, <1>4 DEF FileDone, Src, Dst, OnlyDirectories
  <2>4. \A p \in Paths : Done(p) => Done(p)'
    BY <1>1, <2>3 DEF Done, Src, Dst, IsFile, Tolerated
  <2> QED BY <2>1, <2>2, <2>4 DEF FInv, DoneInv
<1>10. ConflictInv'
  <2>1. \A p \in Paths : KindConflict(p) => KindConflict(p)'
    BY <1>1 DEF KindConflict, IsDir, IsFile
  <2> QED BY <1>4, <2>1 DEF FInv, ConflictInv
<1> QED BY <1>5, <1>6, <1>7, <1>8, <1>9, <1>10 DEF FInv

(* Every step of the specification keeps the invariant: one lemma per       *)
(* action.                                                                  *)
LEMMA FInvStep == FInv /\ [Next]_vars => FInv'
<1> SUFFICES ASSUME FInv, [Next]_vars PROVE FInv'
  OBVIOUS
<1>1. ASSUME NEW side \in Sides, NEW p \in Paths, NEW n \in Sizes, Edit(side, p, n)
      PROVE  FInv'
  BY <1>1, StepEdit
<1>2. ASSUME NEW p \in Paths, SftpMkdir(p) \/ SftpRemove(p)
      PROVE  FInv'
  BY <1>2, StepMkdir, StepRemove
<1>3. ASSUME NEW x \in Transfers, NEW d \in BOOLEAN, NEW r \in Requests, Begin(x, d, r)
      PROVE  FInv'
  BY <1>3, StepBeginFirst, StepBeginNext
<1>4. ASSUME NEW x \in Transfers, Step(x)
      PROVE  FInv'
  <2>1. CASE StatDirectory(x) \/ StatFile(x) \/ StatElsewhere(x) \/ StatError(x)
    BY <2>1, StepStatDirectory, StepStatFile, StepStatElsewhere, StepStatError
  <2>2. ASSUME NEW e \in todo[x], VisitDir(x, e) \/ VisitFile(x, e)
        PROVE  FInv'
    BY <2>2, StepVisitDir, StepSkip, StepStart
  <2>3. CASE WalkEnds(x) \/ Conflict(x)
    BY <2>3, StepWalkEnds, StepConflict
  <2>4. CASE Create(x) \/ CopyBlock(x) \/ CopyEnds(x) \/ SetTimes(x)
    BY <2>4, StepCreate, StepCopyBlock, StepCopyEnds, StepSetTimes
  <2> QED BY <1>4, <2>1, <2>2, <2>3, <2>4 DEF Step
<1>5. ASSUME NEW x \in Transfers, Fail(x)
      PROVE  FInv'
  BY <1>5, StepFail
<1>6. CASE UNCHANGED vars
  BY <1>6, FInvStutter
<1> QED BY <1>1, <1>2, <1>3, <1>4, <1>5, <1>6 DEF Next

(* The inductive invariant of file transfer holds in every behaviour: for   *)
(* any number of requests, any paths, sizes and faults.                     *)
THEOREM TransferInv == Spec => []FInv
<1> QED BY InitFInv, FInvStep, PTL DEF Spec

(* Every variable of the model of sftp.go keeps its type.                   *)
THEOREM TransferTypes == Spec => []TypeOK
<1>1. FInv => TypeOK
  BY DEF FInv
<1> QED BY <1>1, TransferInv, PTL

(* Between groups of requests nobody writes, so files of one size and one   *)
(* second that agree as far as both go are equal.                           *)
LEMMA SkipFromAgree == FInv /\ Tolerated(faults) => SkipIsSound
<1> SUFFICES ASSUME FInv, Tolerated(faults), AllIdle, NEW p \in Paths \ renamed, LooksSame(p)
             PROVE  SameContents(p)
  BY DEF SkipIsSound
<1>1. Writers(p) = {}
  BY DEF AllIdle, Running, Writers, Writing
<1>2. Agree(p)
  BY <1>1 DEF FInv, AgreeInv
<1>3. IsFile(Source, p) /\ IsFile(Dest, p) /\ Src(p).mtime = Dst(p).mtime
      /\ Len(Src(p).blocks) = Len(Dst(p).blocks)
  BY DEF LooksSame, Source, Dest, Src, Dst
<1>4. Dst(p).blocks = Src(p).blocks
  BY <1>2, <1>3, AgreeSame
<1> QED BY <1>4 DEF SameContents, Src, Dst, Source, Dest

(* When every request has been answered no agenda is left, so what a        *)
(* successful directory transfer answers for is done.                       *)
LEMMA SyncedFromDone == FInv /\ Tolerated(faults) => OkMeansSynced
<1> SUFFICES ASSUME FInv, Tolerated(faults), AllIdle, ~dirty,
                    NEW x \in Transfers, res[x] = "ok", OfDirectory(x),
                    NEW p \in Paths, IsPrefix(req[x].path, p), Exists(Source, p)
             PROVE  /\ fs[Dest][p].kind = fs[Source][p].kind
                    /\ IsFile(Source, p) /\ p \notin renamed =>
                          SameContents(p) /\ (OnlyDirectories => LooksSame(p))
  BY DEF OkMeansSynced
<1>1. pc[x] = "idle" /\ todo[x] = {} /\ Writers(p) = {}
  BY DEF AllIdle, Running, Writers, Writing, FInv, TodoInv, TodoOK
<1>2. Done(p)
  BY <1>1 DEF FInv, DoneInv, Entrusted, OnAgenda
<1>3. fs[Dest][p].kind = fs[Source][p].kind
  BY <1>2 DEF Done, Src, Dst
<1>4. ASSUME IsFile(Source, p), p \notin renamed
      PROVE  SameContents(p) /\ (OnlyDirectories => LooksSame(p))
  <2>1. Dst(p).blocks = Src(p).blocks /\ (OnlyDirectories => Dst(p).mtime = Src(p).mtime)
    BY <1>1, <1>2, <1>4 DEF Done, FileDone
  <2>2. IsFile(Dest, p)
    BY <1>3, <1>4 DEF IsFile
  <2> QED BY <1>4, <2>1, <2>2 DEF SameContents, LooksSame, Src, Dst, Source, Dest, IsFile
<1> QED BY <1>3, <1>4

(* The test of uploadDir and downloadDir, same size and same second, never  *)
(* skips a file that differs: under interruptions in any number, or under   *)
(* transfers that overlap while their sources are edited.                   *)
THEOREM SkippingIsSound ==
  ASSUME \A F \in FaultSets : Tolerated(F)
  PROVE  Spec => []SkipIsSound
<1>1. FInv => Tolerated(faults)
  BY DEF FInv, TypeOK
<1>2. FInv => SkipIsSound
  BY <1>1, SkipFromAgree
<1> QED BY <1>2, TransferInv, PTL

(* When the last of a group of overlapping requests has been answered,      *)
(* every directory reported as transferred is there in full, whatever       *)
(* tolerated faults there were before.                                      *)
THEOREM SuccessMeansSynced ==
  ASSUME \A F \in FaultSets : Tolerated(F)
  PROVE  Spec => []OkMeansSynced
<1>1. FInv => Tolerated(faults)
  BY DEF FInv, TypeOK
<1>2. FInv => OkMeansSynced
  BY <1>1, SyncedFromDone
<1> QED BY <1>2, TransferInv, PTL

(* Without a fault a directory transfer fails only because of a file where  *)
(* a directory has to be, or the reverse; no interleaving of Create,        *)
(* MkdirAll and truncation makes one fail.  This holds for every set of     *)
(* faults.                                                                  *)
THEOREM FailureMeansConflict == Spec => []FailsOnConflictOnly
<1>1. FInv => FailsOnConflictOnly
  BY DEF FInv, ConflictInv, KindConflict, FailsOnConflictOnly
<1> QED BY <1>1, TransferInv, PTL
=============================================================================
