------------------------------ MODULE TabSession ------------------------------
(***************************************************************************)
(* What a tab of the web client does with its session, seen from outside:  *)
(* somebody is signed in or not, the browser keeps chat credentials, and   *)
(* there is at most one XMPP connection, opened for the credentials of a   *)
(* sign-in or a load of the page and closed by logging out.  A sign-in on  *)
(* top of a session keeps the connection there is.                         *)
(*                                                                         *)
(* Two models of the tab meet here.  WebSession has the tokens, the router *)
(* and the requests, and takes the connection for a single value; WebXmpp  *)
(* has the connections with all their events, and takes the session as     *)
(* given.  Both implement this specification.                              *)
(***************************************************************************)

CONSTANTS
    Users,
    None            \* no credentials

VARIABLES
    signedIn,       \* the auth store has a token
    creds,          \* whose chat credentials the browser keeps
    connected       \* whose connections are open or on their way: one user or none

vars == <<signedIn, creds, connected>>

Owner(c) == {c} \ {None}

Init ==
    /\ signedIn \in BOOLEAN /\ creds \in Users \cup {None}
    /\ connected = {}

(* A user may have no mirror, and then no credentials. *)
SignIn(u) ==
    /\ signedIn' = TRUE
    /\ creds' \in {u, None}
    /\ connected' = IF connected = {} THEN Owner(creds') ELSE connected

Logout ==
    /\ signedIn
    /\ signedIn' = FALSE /\ creds' = None
    /\ connected' = {}

(* The token may have been dropped meanwhile; connecting may come later. *)
Reload ==
    /\ signedIn' \in {signedIn, FALSE}
    /\ connected' \in {{}, IF signedIn' THEN Owner(creds) ELSE {}}
    /\ UNCHANGED creds

Connect ==
    /\ signedIn /\ connected = {}
    /\ connected' = Owner(creds)
    /\ UNCHANGED <<signedIn, creds>>

Next == (\E u \in Users : SignIn(u)) \/ Logout \/ Reload \/ Connect

Spec == Init /\ [][Next]_vars

=============================================================================
