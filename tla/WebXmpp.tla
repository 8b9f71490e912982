------------------------------- MODULE WebXmpp -------------------------------
(***************************************************************************)
(* The XMPP store of the web client and the connections it opens and tears *)
(* down (web/src/stores/xmpp.ts), called by signing in, logging out and    *)
(* loading the page (stores/auth.ts, App.vue).  A stopped connection goes  *)
(* on emitting events until stop() is over: several can be alive at once,  *)
(* and all write the same status, jid and error.                           *)
(*                                                                         *)
(* Of @xmpp/client (external): start() emits "connecting" at once and      *)
(* settles later, if at all; the connection drops and reconnects on its    *)
(* own; after stop() it closes, and is offline by the time stop() is over, *)
(* unless stop() throws.  VITE_ETHORA_WS is a valid url.                   *)
(***************************************************************************)
EXTENDS Naturals, FiniteSets

CONSTANTS
    Users,
    Connections,    \* bound: connections alive at one time
    None            \* no connection, no user

ASSUME NoneAssumption == None \notin Users \cup Connections

VARIABLES
    token,          \* auth store: somebody is signed in
    creds,          \* auth store and localStorage: whose chat credentials
    connection,     \* xmpp store: the current connection
    status, jid, error,     \* xmpp store: what the navbar shows
    conn            \* the connections of @xmpp/client, external

session == <<token, creds>>
shown == <<status, jid, error>>
vars == <<session, connection, shown, conn>>

-----------------------------------------------------------------------------
(* Connections *)

Status == {"offline", "connecting", "disconnect", "closing", "online"}

(* starting: start() has not settled; listened: the store's listeners are  *)
(* still there.                                                            *)
Conn ==
    [user : Users \cup {None}, listened : BOOLEAN, starting : BOOLEAN,
     phase : {"stopped", "connecting", "disconnect", "online", "stopping"}]

Unused == [user |-> None, phase |-> "stopped", listened |-> FALSE, starting |-> FALSE]

Is(c, phases) == conn[c].phase \in phases

To(c, phase) == conn' = [conn EXCEPT ![c].phase = phase]

-----------------------------------------------------------------------------
(* The store *)

(* connect(): nothing happens while there is a connection, nor without     *)
(* credentials.  start() runs up to its first event.                       *)
MutantConnect(from, user) ==
    \/ /\ user = None
       /\ connection' = from /\ UNCHANGED <<status, conn>>
    \/ /\ user # None
       /\ \E c \in Connections :
             /\ conn[c] = Unused
             /\ connection' = c
             /\ status' = "connecting"
             /\ conn' = [conn EXCEPT ![c] = [user |-> user, phase |-> "connecting",
                                             listened |-> TRUE, starting |-> TRUE]]

Connect(from, user) ==
    \/ /\ from # None \/ user = None
       /\ connection' = from /\ UNCHANGED <<status, conn>>
    \/ /\ from = None /\ user # None
       /\ \E c \in Connections :
             /\ conn[c] = Unused
             /\ connection' = c
             /\ status' = "connecting"
             /\ conn' = [conn EXCEPT ![c] = [user |-> user, phase |-> "connecting",
                                             listened |-> TRUE, starting |-> TRUE]]

(* disconnect(): the store forgets the connection, which is then stopped.  *)
MutantDisconnect ==
    /\ connection' = None /\ error' = None
    /\ UNCHANGED <<status, jid>>
    /\ IF connection = None THEN UNCHANGED conn ELSE To(connection, "stopping")

Disconnect ==
    /\ connection' = None
    /\ status' = "offline" /\ jid' = None /\ error' = None
    /\ IF connection = None THEN UNCHANGED conn ELSE To(connection, "stopping")

-----------------------------------------------------------------------------
(* Its callers *)

(* login and register: the guest pages are shown to who is signed out, and *)
(* stay when /me failed after a sign-in.  A user may have no mirror.       *)
SignIn(user) ==
    /\ token' = TRUE
    /\ creds' \in {user, None}
    /\ Connect(connection, creds')
    /\ UNCHANGED <<jid, error>>

Logout ==
    /\ token
    /\ token' = FALSE /\ creds' = None
    /\ Disconnect

(* A 401 takes the token from localStorage; the store and the connection   *)
(* have it gone with the next load of the page (api/client.ts).            *)
Reload ==
    /\ token' \in {token, FALSE}
    /\ conn' = [c \in Connections |-> Unused]
    /\ connection' = None
    /\ status' = "offline" /\ jid' = None /\ error' = None
    /\ UNCHANGED creds

(* App.onMounted *)
Mounted ==
    /\ token /\ connection = None
    /\ Connect(None, creds)
    /\ UNCHANGED <<session, jid, error>>

-----------------------------------------------------------------------------
(* Events.  The store's listeners write what they hear, whoever says it. *)

Hears(c, next) ==
    status' = IF conn[c].listened THEN next ELSE status

(* "status" and "online"; start() has succeeded. *)
Online(c) ==
    /\ Is(c, {"connecting"})
    /\ conn' = [conn EXCEPT ![c].phase = "online", ![c].starting = FALSE]
    /\ Hears(c, "online")
    /\ jid' = conn[c].user /\ error' = None
    /\ UNCHANGED <<session, connection>>

Dropped(c) ==
    /\ Is(c, {"connecting", "online"})
    /\ To(c, "disconnect")
    /\ Hears(c, "disconnect")
    /\ UNCHANGED <<session, connection, jid, error>>

Reconnect(c) ==
    /\ Is(c, {"disconnect"})
    /\ To(c, "connecting")
    /\ Hears(c, "connecting")
    /\ UNCHANGED <<session, connection, jid, error>>

Closing(c) ==
    /\ Is(c, {"stopping"})
    /\ \E next \in {"closing", "disconnect"} : Hears(c, next)
    /\ UNCHANGED <<session, connection, jid, error, conn>>

Error(c) ==
    /\ conn[c].listened
    /\ error' = conn[c].user
    /\ UNCHANGED <<session, connection, status, jid, conn>>

(* start() throws: its catch writes the error, listeners or not. *)
StartFails(c) ==
    /\ conn[c].starting
    /\ error' = conn[c].user
    /\ conn' = [conn EXCEPT ![c].starting = FALSE]
    /\ UNCHANGED <<session, connection, status, jid>>

MutantStopped(c) ==
    /\ Is(c, {"stopping"})
    /\ conn' = [conn EXCEPT ![c].phase = "stopped"]
    /\ \/ Hears(c, "offline") /\ jid' = None
       \/ UNCHANGED <<status, jid>>
    /\ UNCHANGED <<session, connection, error>>

(* stop() is over: "offline", then removeAllListeners; or it has thrown.   *)
(* What start() was waiting for may still make it throw.                   *)
Stopped(c) ==
    /\ Is(c, {"stopping"})
    /\ conn' = [conn EXCEPT ![c].phase = "stopped", ![c].listened = FALSE]
    /\ \/ Hears(c, "offline") /\ jid' = None
       \/ UNCHANGED <<status, jid>>
    /\ UNCHANGED <<session, connection, error>>

(* Nothing refers to it any more. *)
Collected(c) ==
    /\ Is(c, {"stopped"}) /\ conn[c] # Unused
    /\ conn' = [conn EXCEPT ![c] = Unused]
    /\ UNCHANGED <<session, connection, shown>>

-----------------------------------------------------------------------------

(* The page is loaded, after a first visit or a reload. *)
Init ==
    /\ token \in BOOLEAN /\ creds \in Users \cup {None}
    /\ connection = None
    /\ status = "offline" /\ jid = None /\ error = None
    /\ conn = [c \in Connections |-> Unused]

Next ==
    \/ \E user \in Users : SignIn(user)
    \/ Logout \/ Reload \/ Mounted
    \/ \E c \in Connections :
          \/ Online(c) \/ Dropped(c) \/ Reconnect(c) \/ Closing(c)
          \/ Error(c) \/ StartFails(c) \/ Stopped(c) \/ Collected(c)

Spec == Init /\ [][Next]_vars

-----------------------------------------------------------------------------
(* Properties *)

TypeOK ==
    /\ token \in BOOLEAN /\ creds \in Users \cup {None}
    /\ connection \in Connections \cup {None}
    /\ status \in Status
    /\ jid \in Users \cup {None} /\ error \in Users \cup {None}
    /\ conn \in [Connections -> Conn]
    /\ \A c \in Connections : conn[c].listened <=> ~Is(c, {"stopped"})

(* Every connection that has not been told to stop is the store's own, so  *)
(* that logging out reaches it: signing in again, after a failed /me or on *)
(* top of App.onMounted, opens no second one (connect, disconnect).        *)
NoOrphanConnection ==
    \A c \in Connections : Is(c, {"connecting", "disconnect", "online"}) => c = connection

(* A green dot and its JID are those of the current connection, although   *)
(* the ones before it may still be closing and report what happens to them *)
(* (status, jid; App.vue's navbar).                                        *)
NavbarShowsCurrent ==
    /\ status = "online" => connection # None /\ Is(connection, {"online"})
    /\ jid # None => connection # None /\ jid = conn[connection].user

-----------------------------------------------------------------------------
(* The store keeps the promise of a tab *)

Unstopped == {c \in Connections : Is(c, {"connecting", "disconnect", "online"})}

Connected == {conn[c].user : c \in Unstopped}

Tab == INSTANCE TabSession WITH
    signedIn  <- token,
    connected <- Connected

(* However many connections are still being stopped and report, there is   *)
(* one that counts: signing in again, after a failed /me or on top of      *)
(* App.onMounted, opens no second one for anybody, and logging out or      *)
(* reloading leaves none (connect, disconnect).                            *)
ImplementsTabSession == Tab!Spec

=============================================================================
