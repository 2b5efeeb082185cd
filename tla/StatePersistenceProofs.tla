------------------------ MODULE StatePersistenceProofs ------------------------
(***************************************************************************)
(* Theorems about StatePersistence, for every set of names and every way   *)
(* the servers of the sessions accept a login.                             *)
(***************************************************************************)
EXTENDS StatePersistence, TLAPS

Types == {"none", "ssh", "local"}

MemType ==
    mem \in [Names -> [type : Types, pw : BOOLEAN, key : BOOLEAN,
                       status : {"offline", "connected"}]]

DiskType == disk \in [Names -> [type : Types, key : BOOLEAN, auto : BOOLEAN]]

Logins == [Names -> Methods \cup {"none"}]

HistoryType ==
    /\ daemon \in {"up", "stopping", "down"} /\ pending \in SUBSET Names
    /\ lastLogin \in Logins /\ savedLogin \in Logins
    /\ kill \in [Names -> {"no", "unsaved", "saved", "lost"}]

STypeOK == MemType /\ DiskType /\ HistoryType

(* A daemon that does not run has no sessions and no goroutines.            *)
RestoreInv == daemon = "down" => pending = {} /\ \A n \in Names : ~Exists(n)

(* A killed session is in no place it could come back from: not in the      *)
(* manager and, once a Stop has saved, not in state.json.                   *)
KilledInv ==
    \A n \in Names :
        /\ kill[n] \in {"unsaved", "saved"} => ~Exists(n)
        /\ kill[n] = "unsaved" => daemon = "up"
        /\ kill[n] = "saved" => disk[n].type = "none"

(* A session that logged in by its key has the key path, in the manager and *)
(* in the state.json that it was saved to.                                  *)
KeyInv ==
    \A n \in Names :
        /\ lastLogin[n] = "key" /\ mem[n].type = "ssh" => mem[n].key
        /\ savedLogin[n] = "key" /\ disk[n].type = "ssh" => disk[n].key

SInv == STypeOK /\ RestoreInv /\ KilledInv /\ KeyInv

-------------------------------------------------------------------------------

(* ssh.Connect logs in by a key file only when it was given a key path.     *)
LEMMA LoginByKey ==
  ASSUME NEW n \in Names, NEW pw \in BOOLEAN, NEW key \in BOOLEAN
  PROVE  /\ LoginMethod(n, pw, key) \in Methods \cup {"none"}
         /\ LoginMethod(n, pw, key) = "key" => key
<1> DEFINE offered == Offers(pw, key) \cap Accepts[n]
<1>1. Offers(pw, key) \subseteq Methods /\ ("key" \in Offers(pw, key) => key)
  BY DEF Offers, Methods
<1>2. CASE "password" \in offered
  BY <1>2 DEF LoginMethod, Methods
<1>3. CASE "password" \notin offered /\ offered # {}
  <2>1. LoginMethod(n, pw, key) = CHOOSE m \in offered : TRUE
    BY <1>3 DEF LoginMethod
  <2>2. LoginMethod(n, pw, key) \in offered
    BY <1>3, <2>1
  <2> QED BY <1>1, <2>2
<1>4. CASE offered = {}
  BY <1>4 DEF LoginMethod
<1> QED BY <1>2, <1>3, <1>4

(* A dial of a session leaves every other session alone, keeps the          *)
(* credentials it was made with and records a login by key only with a key. *)
LEMMA DialEffects ==
  ASSUME STypeOK, NEW n \in Names, NEW pw \in BOOLEAN, NEW key \in BOOLEAN, Dial(n, pw, key)
  PROVE  /\ MemType' /\ lastLogin' \in Logins
         /\ mem'[n].type = "ssh" /\ mem'[n].key = key
         /\ lastLogin'[n] = "key" => key \/ lastLogin[n] = "key"
         /\ \A o \in Names \ {n} : mem'[o] = mem[o] /\ lastLogin'[o] = lastLogin[o]
<1>1. PICK m \in {LoginMethod(n, pw, key), "none"} :
        /\ mem' = [mem EXCEPT ![n] =
              [type |-> "ssh", pw |-> pw, key |-> key,
               status |-> IF m = "none" THEN "offline" ELSE "connected"]]
        /\ lastLogin' = IF m = "none" THEN lastLogin ELSE [lastLogin EXCEPT ![n] = m]
  BY DEF Dial
<1>2. m \in Methods \cup {"none"} /\ (m = "key" => key)
  BY <1>1, LoginByKey
<1>3. MemType' /\ mem'[n].type = "ssh" /\ mem'[n].key = key
      /\ \A o \in Names \ {n} : mem'[o] = mem[o]
  BY <1>1 DEF STypeOK, MemType, Types
<1>4. /\ lastLogin' \in Logins
      /\ lastLogin'[n] = "key" => key \/ lastLogin[n] = "key"
      /\ \A o \in Names \ {n} : lastLogin'[o] = lastLogin[o]
  BY <1>1, <1>2 DEF STypeOK, HistoryType, Logins
<1> QED BY <1>3, <1>4

LEMMA EmptyType ==
    /\ Empty \in [Names -> [type : Types, key : BOOLEAN, auto : BOOLEAN]]
    /\ \A n \in Names : Empty[n].type = "none"
  BY DEF Empty, NoState, Types

(* The daemon has not run yet: no sessions, nothing saved.                  *)
LEMMA InitSInv == Init => SInv
<1> SUFFICES ASSUME Init PROVE SInv
  OBVIOUS
<1>1. MemType
  BY DEF Init, MemType, Types, NoSession
<1>2. DiskType
  BY DEF Init, DiskType, Types, Empty, NoState
<1>3. HistoryType
  BY DEF Init, HistoryType, Logins
<1>4. RestoreInv /\ KilledInv /\ KeyInv
  BY DEF Init, RestoreInv, KilledInv, KeyInv, Exists, NoSession, Empty, NoState
<1> QED BY <1>1, <1>2, <1>3, <1>4 DEF SInv, STypeOK

(* Every request, stop, start and background reconnect keeps the invariant. *)
LEMMA SInvStep == SInv /\ [Next]_svars => SInv'
<1> SUFFICES ASSUME SInv, [Next]_svars PROVE SInv'
  OBVIOUS
<1> USE DEF SInv
<1>1. ASSUME NEW n \in Names, NEW pw \in BOOLEAN, NEW key \in BOOLEAN, ConnectNew(n, pw, key)
      PROVE  SInv'
  <2>1. LoginMethod(n, pw, key) \in Methods /\ (LoginMethod(n, pw, key) = "key" => key)
    BY <1>1, LoginByKey DEF ConnectNew
  <2>2. STypeOK'
    BY <1>1, <2>1 DEF ConnectNew, STypeOK, MemType, DiskType, HistoryType, Logins, Types
  <2>3. RestoreInv' /\ KilledInv'
    BY <1>1 DEF ConnectNew, Runs, RestoreInv, KilledInv, Exists, STypeOK, MemType, HistoryType
  <2>4. KeyInv'
    BY <1>1, <2>1 DEF ConnectNew, KeyInv, Exists, STypeOK, MemType, HistoryType, Logins
  <2> QED BY <2>2, <2>3, <2>4
<1>2. ASSUME NEW n \in Names, NEW pw \in BOOLEAN, NEW key \in BOOLEAN, UseOffline(n, pw, key)
      PROVE  SInv'
  <2> DEFINE pw2 == pw \/ mem[n].pw
             key2 == key \/ mem[n].key
  <2>1. pw2 \in BOOLEAN /\ key2 \in BOOLEAN /\ Dial(n, pw2, key2)
        /\ Runs /\ mem[n].type = "ssh" /\ UNCHANGED <<daemon, disk, pending, savedLogin, kill>>
    BY <1>2 DEF UseOffline, STypeOK, MemType
  <2> HIDE DEF pw2
  <2>2. /\ MemType' /\ lastLogin' \in Logins
        /\ mem'[n].type = "ssh" /\ mem'[n].key = key2
        /\ lastLogin'[n] = "key" => key2 \/ lastLogin[n] = "key"
        /\ \A o \in Names \ {n} : mem'[o] = mem[o] /\ lastLogin'[o] = lastLogin[o]
    BY <2>1, DialEffects
  <2>3. STypeOK'
    BY <2>1, <2>2 DEF STypeOK, DiskType, HistoryType
  <2>4. RestoreInv' /\ KilledInv'
    BY <2>1, <2>2 DEF Runs, RestoreInv, KilledInv, Exists, STypeOK, HistoryType
  <2>5. KeyInv'
    BY <2>1, <2>2 DEF KeyInv
  <2> QED BY <2>3, <2>4, <2>5
<1>3. ASSUME NEW n \in Names, ConnectLocal(n)
      PROVE  SInv'
  <2>1. STypeOK'
    BY <1>3 DEF ConnectLocal, NoSession, STypeOK, MemType, DiskType, HistoryType, Logins, Types
  <2>2. RestoreInv' /\ KilledInv' /\ KeyInv'
    BY <1>3 DEF ConnectLocal, Runs, NoSession, RestoreInv, KilledInv, KeyInv, Exists, STypeOK,
                MemType, HistoryType
  <2> QED BY <2>1, <2>2
<1>4. ASSUME NEW n \in Names, GoesOffline(n)
      PROVE  SInv'
  <2>1. STypeOK'
    BY <1>4 DEF GoesOffline, STypeOK, MemType, DiskType, HistoryType
  <2>2. RestoreInv' /\ KilledInv' /\ KeyInv'
    BY <1>4 DEF GoesOffline, Runs, RestoreInv, KilledInv, KeyInv, Exists, STypeOK, MemType,
                HistoryType
  <2> QED BY <2>1, <2>2
<1>5. ASSUME NEW n \in Names, Kill(n)
      PROVE  SInv'
  <2>1. STypeOK'
    BY <1>5 DEF Kill, NoSession, STypeOK, MemType, DiskType, HistoryType, Types
  <2>2. RestoreInv' /\ KilledInv' /\ KeyInv'
    BY <1>5 DEF Kill, Runs, NoSession, RestoreInv, KilledInv, KeyInv, Exists, STypeOK, MemType,
                HistoryType
  <2> QED BY <2>1, <2>2
<1>6. ASSUME NEW n \in Names, AutoReconnect(n)
      PROVE  SInv'
  <2>1. Runs /\ pending' = pending \ {n} /\ UNCHANGED <<daemon, disk, savedLogin, kill>>
    BY <1>6 DEF AutoReconnect
  <2>2. CASE mem[n].type = "ssh"
    <3>1. mem[n].pw \in BOOLEAN /\ mem[n].key \in BOOLEAN /\ Dial(n, mem[n].pw, mem[n].key)
      BY <1>6, <2>2 DEF AutoReconnect, STypeOK, MemType
    <3>2. /\ MemType' /\ lastLogin' \in Logins
          /\ mem'[n].type = "ssh" /\ mem'[n].key = mem[n].key
          /\ lastLogin'[n] = "key" => mem[n].key \/ lastLogin[n] = "key"
          /\ \A o \in Names \ {n} : mem'[o] = mem[o] /\ lastLogin'[o] = lastLogin[o]
      BY <3>1, DialEffects
    <3>3. STypeOK'
      BY <2>1, <3>2 DEF STypeOK, DiskType, HistoryType
    <3>4. RestoreInv' /\ KilledInv'
      BY <2>1, <2>2, <3>2 DEF Runs, RestoreInv, KilledInv, Exists
    <3>5. KeyInv'
      BY <2>1, <2>2, <3>2 DEF KeyInv
    <3> QED BY <3>3, <3>4, <3>5
  <2>3. CASE mem[n].type # "ssh"
    BY <1>6, <2>1, <2>3 DEF AutoReconnect, Runs, STypeOK, MemType, DiskType, HistoryType,
                            RestoreInv, KilledInv, KeyInv, Exists
  <2> QED BY <2>2, <2>3
<1>7. CASE Stop \/ StopSaveFails
  <2>1. /\ daemon = "up" /\ daemon' = "stopping" /\ UNCHANGED <<mem, pending, lastLogin>>
        /\ savedLogin' \in Logins
        /\ kill' \in [Names -> {"no", "unsaved", "saved", "lost"}]
    BY <1>7 DEF Stop, StopSaveFails, KillsAre, STypeOK, HistoryType
  <2>2. DiskType'
    <3>1. CASE Stop
      <4>1. \A n \in Names : SessionToState(mem[n]) \in
                                 [type : Types, key : BOOLEAN, auto : BOOLEAN]
        BY DEF SessionToState, STypeOK, MemType
      <4> QED BY <3>1, <4>1 DEF Stop, DiskType
    <3>2. CASE StopSaveFails
      BY <3>2, EmptyType DEF StopSaveFails, STypeOK, DiskType
    <3> QED BY <1>7, <3>1, <3>2
  <2>3. STypeOK' /\ RestoreInv'
    BY <2>1, <2>2 DEF STypeOK, MemType, HistoryType, RestoreInv, Exists
  <2>4. KilledInv'
    BY <1>7 DEF Stop, StopSaveFails, SessionToState, KillsAre, Empty, NoState, KilledInv,
                Exists, STypeOK, HistoryType
  <2>5. KeyInv'
    BY <1>7 DEF Stop, StopSaveFails, SessionToState, Empty, NoState, KeyInv
  <2> QED BY <2>3, <2>4, <2>5
<1>8. CASE StopEnds \/ Dies
  <2>1. /\ Ends /\ UNCHANGED <<lastLogin, savedLogin>>
        /\ disk' \in {disk, Empty}
        /\ \A n \in Names : kill'[n] # "unsaved" /\ (kill'[n] = "saved" => kill[n] = "saved")
        /\ kill' \in [Names -> {"no", "unsaved", "saved", "lost"}]
    BY <1>8 DEF StopEnds, Dies, KillsAre, KilledInv, STypeOK, HistoryType
  <2>2. MemType' /\ RestoreInv'
    BY <2>1 DEF Ends, NoSession, MemType, Types, RestoreInv, Exists
  <2>3. DiskType' /\ HistoryType'
    BY <2>1, EmptyType DEF Ends, STypeOK, DiskType, HistoryType
  <2>4. KilledInv' /\ KeyInv'
    BY <2>1, EmptyType DEF Ends, NoSession, KilledInv, KeyInv, Exists
  <2> QED BY <2>2, <2>3, <2>4 DEF STypeOK
<1>9. CASE Start
  <2>1. STypeOK'
    BY <1>9 DEF Start, STypeOK, MemType, DiskType, HistoryType, Logins, Types
  <2>2. RestoreInv' /\ KilledInv' /\ KeyInv'
    BY <1>9 DEF Start, RestoreInv, KilledInv, KeyInv, Exists, STypeOK, MemType, DiskType,
                HistoryType
  <2> QED BY <2>1, <2>2
<1>10. CASE UNCHANGED svars
  BY <1>10 DEF svars, STypeOK, MemType, DiskType, HistoryType, RestoreInv, KilledInv, KeyInv,
              Exists
<1> QED BY <1>1, <1>2, <1>3, <1>4, <1>5, <1>6, <1>7, <1>8, <1>9, <1>10 DEF Next

-------------------------------------------------------------------------------

(* In every reachable state the manager and state.json agree on which       *)
(* sessions are gone for good and which have a key path, and a daemon that  *)
(* does not run has neither sessions nor goroutines of restoreState.        *)
THEOREM PersistenceInductive == Spec => []SInv
BY InitSInv, SInvStep, PTL DEF Spec

(* A session that was killed does not come back: not with the daemon that   *)
(* killed it, nor with any later one once a Stop has saved after the kill,  *)
(* whichever daemons die without Stop in between.  What a daemon that dies  *)
(* has killed since the last Save is outside it: that is lost.              *)
THEOREM KilledSessionsNotRestored == Spec => []KilledNotRestored
<1>1. SInv => KilledNotRestored
  BY DEF SInv, KilledInv, KilledNotRestored
<1> QED BY <1>1, PersistenceInductive, PTL

(* restoreState starts a reconnect for every session of state.json that had *)
(* last logged in by its key when it was saved, however often it was used,  *)
(* failed or was restored, and however many daemons died.                   *)
THEOREM KeysAreRetried == Spec => KeySessionsRetried
<1> DEFINE Retried == daemon' = "up" /\ daemon = "down" => \A n \in Names :
                          disk[n].type = "ssh" /\ savedLogin[n] = "key" => n \in pending'
<1>1. SInv /\ [Next]_svars => [Retried]_svars
  <2> SUFFICES ASSUME SInv, Next, daemon' = "up", daemon = "down", NEW n \in Names,
                      disk[n].type = "ssh", savedLogin[n] = "key"
               PROVE  n \in pending'
    OBVIOUS
  <2>1. Start
    BY DEF Next, ConnectNew, UseOffline, ConnectLocal, GoesOffline, Kill, AutoReconnect, Stop,
           StopSaveFails, StopEnds, Dies, Ends, Runs
  <2>2. disk[n].key
    BY DEF SInv, KeyInv
  <2> QED BY <2>1, <2>2 DEF Start
<1>2. Spec => [][Retried]_svars
  BY <1>1, PersistenceInductive, PTL DEF Spec
<1> QED BY <1>2 DEF KeySessionsRetried
===============================================================================
