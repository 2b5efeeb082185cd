--------------------------- MODULE ClientOwnership ----------------------------
(***************************************************************************)
(* What the session manager promises about SSH clients, without its locks, *)
(* statuses, names and labels: the life of a client.                       *)
(*                                                                         *)
(* A client that has been dialled is either attached to one session or in  *)
(* the hands of one call (in transit), until a call that has it in hand    *)
(* closes it.  A session has at most one client, takes one only when it    *)
(* has none, and none once it has been closed.                             *)
(***************************************************************************)
CONSTANTS Clients, Sessions, None

VARIABLES
    fresh,      \* clients nobody has dialled yet
    attached,   \* the client of a session, or None
    transit,    \* clients a call must attach or close
    gone,       \* clients a call has closed for good
    dead        \* closed sessions

vars == <<fresh, attached, transit, gone, dead>>

Init ==
    /\ fresh = Clients
    /\ attached = [s \in Sessions |-> None]
    /\ transit = {} /\ gone = {} /\ dead = {}

Dial(c) ==
    /\ c \in fresh
    /\ fresh' = fresh \ {c} /\ transit' = transit \cup {c}
    /\ UNCHANGED <<attached, gone, dead>>

Attach(s, c) ==
    /\ s \notin dead /\ attached[s] = None /\ c \in transit
    /\ attached' = [attached EXCEPT ![s] = c] /\ transit' = transit \ {c}
    /\ UNCHANGED <<fresh, gone, dead>>

Detach(s) ==
    /\ attached[s] # None
    /\ transit' = transit \cup {attached[s]}
    /\ attached' = [attached EXCEPT ![s] = None]
    /\ UNCHANGED <<fresh, gone, dead>>

(* The session is closed; the call that closes it has its client in hand. *)
Retire(s) ==
    /\ dead' = dead \cup {s}
    /\ attached' = [attached EXCEPT ![s] = None]
    /\ transit' = transit \cup ({attached[s]} \ {None})
    /\ UNCHANGED <<fresh, gone>>

Close(c) ==
    /\ c \in transit
    /\ transit' = transit \ {c} /\ gone' = gone \cup {c}
    /\ UNCHANGED <<fresh, attached, dead>>

Next ==
    \/ \E c \in Clients : Dial(c) \/ Close(c) \/ (\E s \in Sessions : Attach(s, c))
    \/ \E s \in Sessions : Detach(s) \/ Retire(s)

Spec == Init /\ [][Next]_vars

-------------------------------------------------------------------------------
(* A client is in one place: no two sessions share it, it is not at once    *)
(* attached and in a call's hands, a closed one is out of reach for good,   *)
(* and a closed session has none.                                           *)
Users(c)  == {s \in Sessions : attached[s] = c}
Exclusive ==
    /\ \A c \in Clients, s1, s2 \in Sessions : s1 \in Users(c) /\ s2 \in Users(c) => s1 = s2
    /\ \A c \in fresh \cup transit \cup gone : Users(c) = {}
    /\ fresh \cap transit = {} /\ fresh \cap gone = {} /\ transit \cap gone = {}
    /\ \A s \in dead : attached[s] = None
    /\ \A c \in Clients : c \in fresh \cup transit \cup gone \/ Users(c) # {}

Types ==
    /\ fresh \subseteq Clients /\ transit \subseteq Clients /\ gone \subseteq Clients
    /\ attached \in [Sessions -> Clients \cup {None}]
    /\ dead \subseteq Sessions
===============================================================================
