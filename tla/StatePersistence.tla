--------------------------- MODULE StatePersistence ---------------------------
(***************************************************************************)
(* What survives a restart of the daemon: credentials of a session in      *)
(* memory (internal/session), what SessionToState and Store.Save write     *)
(* (internal/persist/store.go), what Server.restoreState makes of it, and  *)
(* which way of logging in Connect (internal/ssh/client.go) offers.  Only  *)
(* Stop saves: a daemon may die without it, while it saves, or fail to.    *)
(*                                                                         *)
(* Requests run one after the other here, how they interleave being the    *)
(* subject of SessionManager, but they may come between the Save and the   *)
(* KillAll of Stop.  Overlapping daemons are the subject of                *)
(* DaemonLifecycle.  A session is known by its name; its target, CreatedAt *)
(* and the saved Status play no part in a restore.  A credential is        *)
(* present or absent.                                                      *)
(***************************************************************************)
CONSTANTS
    Names,      \* session names
    Accepts     \* the ways of logging in the server of a session accepts

Methods == {"password", "key", "default"}
ASSUME AcceptsAssumption == Accepts \in [Names -> SUBSET Methods]

VARIABLES
    daemon,     \* "up", "stopping" (Stop is past its Save), "down"
    mem,        \* the sessions of the manager
    disk,       \* state.json; one that cannot be parsed counts as empty
    pending,    \* restored sessions with a reconnect goroutine not yet done
    lastLogin,  \* history: how a session last logged in
    savedLogin, \* history: lastLogin of what state.json holds
    kill        \* history: "no", or what became of the session's kill: "unsaved",
                \* "saved" by a Stop, "lost" because no Save followed it

svars == <<daemon, mem, disk, pending, lastLogin, savedLogin, kill>>

NoSession == [type |-> "none", pw |-> FALSE, key |-> FALSE, status |-> "offline"]
NoState   == [type |-> "none", key |-> FALSE, auto |-> FALSE]
Empty     == [n \in Names |-> NoState]

Init ==
    /\ daemon = "down"
    /\ mem = [n \in Names |-> NoSession]
    /\ disk = Empty
    /\ pending = {}
    /\ lastLogin = [n \in Names |-> "none"]
    /\ savedLogin = [n \in Names |-> "none"]
    /\ kill = [n \in Names |-> "no"]

Runs == daemon \in {"up", "stopping"}
Exists(n) == mem[n].type # "none"

-------------------------------------------------------------------------------

(* ssh.Connect: a password is offered first; a key path replaces the agent  *)
(* and the default key files.                                               *)
Offers(pw, key) == (IF pw THEN {"password"} ELSE {}) \cup {IF key THEN "key" ELSE "default"}

LoginMethod(n, pw, key) ==
    IF "password" \in Offers(pw, key) \cap Accepts[n] THEN "password"
    ELSE IF Offers(pw, key) \cap Accepts[n] # {}
         THEN CHOOSE m \in Offers(pw, key) \cap Accepts[n] : TRUE
         ELSE "none"

(* The dial of a session with the given credentials; the network may fail. *)
Dial(n, pw, key) ==
    \E m \in {LoginMethod(n, pw, key), "none"} :
        /\ mem' = [mem EXCEPT ![n] =
              [type |-> "ssh", pw |-> pw, key |-> key,
               status |-> IF m = "none" THEN "offline" ELSE "connected"]]
        /\ lastLogin' = IF m = "none" THEN lastLogin ELSE [lastLogin EXCEPT ![n] = m]

(* ConnectSSH of a new session: one whose dial fails is not kept. *)
ConnectNew(n, pw, key) ==
    /\ Runs /\ ~Exists(n) /\ LoginMethod(n, pw, key) # "none"
    /\ mem' = [mem EXCEPT ![n] =
          [type |-> "ssh", pw |-> pw, key |-> key, status |-> "connected"]]
    /\ lastLogin' = [lastLogin EXCEPT ![n] = LoginMethod(n, pw, key)]
    /\ kill' = [kill EXCEPT ![n] = "no"]
    /\ UNCHANGED <<daemon, disk, pending, savedLogin>>

ConnectLocal(n) ==
    /\ Runs /\ ~Exists(n)
    /\ mem' = [mem EXCEPT ![n] = [NoSession EXCEPT !.type = "local", !.status = "connected"]]
    /\ lastLogin' = [lastLogin EXCEPT ![n] = "none"]
    /\ kill' = [kill EXCEPT ![n] = "no"]
    /\ UNCHANGED <<daemon, disk, pending, savedLogin>>

(* Mutant of UseOffline: credentials that are not given are forgotten. *)
UseReplaces(n, pw, key) ==
    /\ Runs /\ mem[n].type = "ssh" /\ mem[n].status = "offline"
    /\ Dial(n, pw, key)
    /\ UNCHANGED <<daemon, disk, pending, savedLogin, kill>>

(* Use, or ConnectSSH, of a session that is offline: the caller's           *)
(* credentials win, otherwise the stored ones stay.                         *)
UseOffline(n, pw, key) ==
    /\ Runs /\ mem[n].type = "ssh" /\ mem[n].status = "offline"
    /\ Dial(n, pw \/ mem[n].pw, key \/ mem[n].key)
    /\ UNCHANGED <<daemon, disk, pending, savedLogin, kill>>

(* A connection breaks and the monitor's reconnect fails. *)
GoesOffline(n) ==
    /\ Runs /\ mem[n].type = "ssh" /\ mem[n].status = "connected"
    /\ mem' = [mem EXCEPT ![n].status = "offline"]
    /\ UNCHANGED <<daemon, disk, pending, lastLogin, savedLogin, kill>>

(* A kill after the Save of Stop comes too late for state.json.             *)
Kill(n) ==
    /\ Runs /\ Exists(n)
    /\ mem' = [mem EXCEPT ![n] = NoSession]
    /\ kill' = [kill EXCEPT ![n] = IF daemon = "up" THEN "unsaved" ELSE "lost"]
    /\ UNCHANGED <<daemon, disk, pending, lastLogin, savedLogin>>

(* SessionToState. *)
SessionToState(s) ==
    [type |-> s.type, key |-> s.key, auto |-> s.type = "ssh" /\ (s.key \/ ~s.pw)]

KillsAre(fate) ==
    kill' = [n \in Names |-> IF kill[n] = "unsaved" THEN fate ELSE kill[n]]

(* Mutant of Stop: an empty list of sessions is not written. *)
StopUnlessEmpty ==
    /\ daemon = "up" /\ daemon' = "stopping"
    /\ disk' = IF \E n \in Names : Exists(n)
               THEN [n \in Names |-> SessionToState(mem[n])] ELSE disk
    /\ savedLogin' = lastLogin
    /\ KillsAre("saved")
    /\ UNCHANGED <<mem, pending, lastLogin>>

(* Server.Stop: CollectState and Save. *)
Stop ==
    /\ daemon = "up" /\ daemon' = "stopping"
    /\ disk' = [n \in Names |-> SessionToState(mem[n])]
    /\ savedLogin' = lastLogin
    /\ KillsAre("saved")
    /\ UNCHANGED <<mem, pending, lastLogin>>

(* The Save fails, before or after it has truncated the file; Stop goes on. *)
StopSaveFails ==
    /\ daemon = "up" /\ daemon' = "stopping"
    /\ disk' \in {disk, Empty}
    /\ KillsAre("lost")
    /\ UNCHANGED <<mem, pending, lastLogin, savedLogin>>

Ends ==
    /\ daemon' = "down"
    /\ mem' = [n \in Names |-> NoSession]
    /\ pending' = {}

(* KillAll, the drain and the exit of the process. *)
StopEnds ==
    /\ daemon = "stopping"
    /\ Ends
    /\ UNCHANGED <<disk, lastLogin, savedLogin, kill>>

(* The process dies: a signal it cannot catch, a panic, a loss of power.    *)
(* State.json stays as it was, or is torn when the death is within Save.    *)
Dies ==
    /\ Runs
    /\ Ends
    /\ disk' = disk \/ (daemon = "up" /\ disk' = Empty)
    /\ KillsAre("lost")
    /\ UNCHANGED <<lastLogin, savedLogin>>

(* restoreState: local sessions at once, SSH sessions offline, with a       *)
(* goroutine that reconnects those that need no password.                   *)
Start ==
    /\ daemon = "down" /\ daemon' = "up"
    /\ mem' = [n \in Names |->
          [type |-> disk[n].type, pw |-> FALSE, key |-> disk[n].key,
           status |-> IF disk[n].type = "local" THEN "connected" ELSE "offline"]]
    /\ pending' = {n \in Names : disk[n].type = "ssh" /\ (disk[n].auto \/ disk[n].key)}
    /\ lastLogin' = savedLogin
    /\ UNCHANGED <<disk, savedLogin, kill>>

(* The goroutine goes by the name, and ends if that is no SSH session.      *)
AutoReconnect(n) ==
    /\ Runs /\ n \in pending /\ pending' = pending \ {n}
    /\ IF mem[n].type = "ssh" THEN Dial(n, mem[n].pw, mem[n].key)
       ELSE UNCHANGED <<mem, lastLogin>>
    /\ UNCHANGED <<daemon, disk, savedLogin, kill>>

Next ==
    \/ \E n \in Names, pw, key \in BOOLEAN : ConnectNew(n, pw, key) \/ UseOffline(n, pw, key)
    \/ \E n \in Names : ConnectLocal(n) \/ GoesOffline(n) \/ Kill(n) \/ AutoReconnect(n)
    \/ Stop \/ StopSaveFails \/ StopEnds \/ Dies \/ Start

Spec == Init /\ [][Next]_svars

-------------------------------------------------------------------------------
(* Properties. *)

(* A session that was given a key path, whose server last let it in by that *)
(* key and that a Stop has saved since, is reconnected after every later    *)
(* restart, whatever uses, failures and restarts came between.              *)
KeySessionsRetried ==
    [][daemon' = "up" /\ daemon = "down" => \A n \in Names :
          disk[n].type = "ssh" /\ savedLogin[n] = "key" => n \in pending']_svars

(* A session that was killed is not there again: not with the daemon that   *)
(* killed it and, once a Stop has saved after the kill, with no later one,  *)
(* however many of those die, fail to save or are restarted.  Daemons do    *)
(* not overlap here.  One that dies, or whose Save fails, loses the kills   *)
(* since the Save before, and Stop those between its Save and its KillAll.  *)
KilledNotRestored == \A n \in Names : kill[n] \in {"unsaved", "saved"} => ~Exists(n)

(* Not promised by the code: the same of every kill.                        *)
KillsAreFinal == \A n \in Names : kill[n] # "no" => ~Exists(n)

(* A session that last logged in by password and has no key path is not     *)
(* reconnected by a restart without the user.                               *)
PasswordOnlyNotRetried ==
    [][daemon' = "up" /\ daemon = "down" => \A n \in pending' :
          savedLogin[n] = "password" => disk[n].key]_svars

(* A session that logged in with the default key material is reconnected    *)
(* after a restart.                                                         *)
DefaultKeySessionsRetried ==
    [][daemon' = "up" /\ daemon = "down" => \A n \in Names :
          disk[n].type = "ssh" /\ savedLogin[n] = "default" => n \in pending']_svars
===============================================================================
