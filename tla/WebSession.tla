----------------------------- MODULE WebSession -----------------------------
(***************************************************************************)
(* The session of the web client: the token in localStorage, its copy in   *)
(* the auth store, the user read from /me, the router with its guard, the  *)
(* 401 interceptor and the XMPP connection (web/src/stores/auth.ts,        *)
(* api/client.ts, router/index.ts, main.ts, App.vue).  One tab; the page   *)
(* calls the API cross-origin as .env.development sets it up, so requests  *)
(* carry the token of localStorage and no cookie.                          *)
(*                                                                         *)
(* An action is one turn of the browser's event loop: a click, the answer  *)
(* of a request with everything that awaited it, a loaded component.       *)
(* Answers come in any order.  Of vue-router (external) these are kept: a  *)
(* new navigation supersedes the one under way, which then never commits;  *)
(* a guard's redirect starts a new navigation even when its own was        *)
(* superseded; going where one is ends at once.                            *)
(***************************************************************************)
EXTENDS Naturals, FiniteSets, Functions

CONSTANTS
    Users,
    Admins,         \* those whose role is "admin"
    None,           \* no token, no user, no connection
    MaxRevocations, \* bound: times a user's tokens are revoked, all users together
    MaxInFlight     \* bound: requests in flight when the user starts another

ASSUME UsersAssumption ==
    Admins \subseteq Users /\ None \notin Users \cup [user : Users, n : Nat]

VARIABLES
    version,        \* at the server: the version a token must carry
    stored,         \* the token in localStorage
    creds,          \* whose XMPP credentials are in localStorage and the store
    token, user,    \* the auth store
    connection,     \* whose XMPP connection exists
    route,          \* the current route
    nav,            \* navigation under way and the /me requests
    signIns,        \* POST /login or /register in flight, by user
    calls           \* other requests in flight, by the token they carry

vars == <<version, stored, creds, token, user, connection, route, nav, signIns, calls>>

-----------------------------------------------------------------------------
(* Tokens and routes *)

Token == [user : Users, n : Nat]

Accepted(t) == t # None /\ t.n = version[t.user]

Guest == {"login", "register"}
Protected == {"home", "users"}      \* the chat pages are like home
Routes == Guest \cup Protected

(* A /me request and who awaits it: the guard of a navigation, which may   *)
(* have been superseded (current = FALSE), or a sign-in.  Requests alike   *)
(* in all of this are kept as one.                                         *)
Fetch == [by : Routes \cup {"sign-in"}, current : BOOLEAN, token : Token \cup {None}]

Pending == {None} \cup [to : Routes, pc : {"fetching", "loading"}]

InFlight == Cardinality(nav.fetches) + Cardinality(signIns) + Cardinality(calls)

-----------------------------------------------------------------------------
(* The router: how a navigation to a route goes on.  tok, usr and at are   *)
(* the store's token and user and the current route, hdr is localStorage's *)
(* token.                                                                  *)

MutantRedirected(to, tok, usr) ==
    CASE to \in Protected /\ tok = None -> "signin"
      [] to \in Guest /\ tok # None -> "home"
      [] to = "users" /\ tok # None /\ usr \notin Admins -> "home"
      [] OTHER -> to

Redirected(to, tok, usr) ==
    CASE to \in Protected /\ tok = None -> "login"
      [] to \in Guest /\ tok # None -> "home"
      [] to = "users" /\ tok # None /\ usr \notin Admins -> "home"
      [] OTHER -> to

Superseded(fetches) ==
    {IF f.by = "sign-in" THEN f ELSE [f EXCEPT !.current = FALSE] : f \in fetches}

Head(n, to, at) ==
    [pending |-> IF to = at THEN None ELSE [to |-> to, pc |-> "loading"],
     fetches |-> Superseded(n.fetches)]

Push(n, to, tok, usr, hdr, at) ==
    IF to # at /\ tok # None /\ usr = None
    THEN [pending |-> [to |-> to, pc |-> "fetching"],
          fetches |-> Superseded(n.fetches) \cup {[by |-> to, current |-> TRUE, token |-> hdr]}]
    ELSE Head(n, IF to = at THEN at ELSE Redirected(to, tok, usr), at)

(* The rest of the guard once /me has answered or failed. *)
Resume(n, f, tok, usr, hdr, at) ==
    LET to == Redirected(f.by, tok, usr)
    IN  IF to # f.by THEN Push(n, to, tok, usr, hdr, at)
        ELSE IF f.current /\ n.pending = [to |-> f.by, pc |-> "fetching"]
        THEN [n EXCEPT !.pending.pc = "loading"]
        ELSE n

(* An answered request is gone, unless others like it are still to come. *)
Without(n, f) == {n, [n EXCEPT !.fetches = @ \ {f}]}

-----------------------------------------------------------------------------
(* What the user does *)

Click(to) ==
    /\ InFlight < MaxInFlight
    /\ nav' = Push(nav, to, token, user, stored, route)
    /\ UNCHANGED <<version, stored, creds, token, user, connection, route, signIns, calls>>

(* App.logout, from a button the guest pages do not have. *)
MutantLeave(n) == n

Leave(n) == Push(n, "login", None, None, None, route)

Logout ==
    /\ route \notin Guest /\ token # None
    /\ connection' = None /\ creds' = None
    /\ token' = None /\ stored' = None /\ user' = None
    /\ nav' = Leave(nav)
    /\ UNCHANGED <<version, route, signIns, calls>>

Submit(u) ==
    /\ InFlight < MaxInFlight
    /\ route \in Guest
    /\ signIns' = signIns \cup {u}
    /\ UNCHANGED <<version, stored, creds, token, user, connection, route, nav, calls>>

(* A page calls the API. *)
Call ==
    /\ InFlight < MaxInFlight
    /\ route \in Protected
    /\ calls' = calls \cup {stored}
    /\ UNCHANGED <<version, stored, creds, token, user, connection, route, nav, signIns>>

(* connect() is a no-op while there is a connection, or without credentials. *)
MutantConnected(on, tok, mine) == IF on # None THEN on ELSE mine

Connected(on, tok, mine) == IF on # None \/ tok = None THEN on ELSE mine

(* The page is loaded at some address: what was in flight has no one to    *)
(* come back to, and App.onMounted connects a user that is signed in.      *)
Reload(to) ==
    /\ token' = stored /\ user' = None
    /\ route' = "start"
    /\ connection' = Connected(None, token', creds)
    /\ nav' = Push([pending |-> None, fetches |-> {}], to, token', None, stored, "start")
    /\ signIns' = {} /\ calls' = {}
    /\ UNCHANGED <<version, stored, creds>>

-----------------------------------------------------------------------------
(* Answers *)

(* applyToken and applyXmpp; a user may have no mirror and no credentials. *)
MutantApplied(t) == stored' = t /\ token' = token

Applied(t) == stored' = t /\ token' = t

AppliedXmpp(u) == creds' \in {u, None}

(* login and register; connecting is not awaited, /me is. *)

SignedIn(u) ==
    /\ u \in signIns
    /\ signIns' = signIns \ {u}
    /\ Applied([user |-> u, n |-> version[u]])
    /\ AppliedXmpp(u)
    /\ connection' = Connected(connection, token', creds')
    /\ nav' = [nav EXCEPT !.fetches =
                  @ \cup {[by |-> "sign-in", current |-> TRUE, token |-> stored']}]
    /\ UNCHANGED <<version, user, route, calls>>

(* The interceptor: the token goes from localStorage only, and the handler *)
(* of main.ts pushes login unless it is there.                             *)
Unauthorized(n) ==
    /\ stored' = None
    /\ nav' = IF route = "login" THEN n ELSE Push(n, "login", token, user, None, route)

(* A wrong password is a 401 as well; anything else only shows an error. *)
SignInFails(u) ==
    /\ u \in signIns
    /\ signIns' = signIns \ {u}
    /\ Unauthorized(nav) \/ UNCHANGED <<stored, nav>>
    /\ UNCHANGED <<version, creds, token, user, connection, route, calls>>

(* /me: the store gets the user; then the guard goes on, or the form       *)
(* navigates to home or to where the user was sent to login from.          *)
MeAnswered(f) ==
    /\ f \in nav.fetches /\ Accepted(f.token)
    /\ user' = f.token.user
    /\ \E n \in Without(nav, f) :
          IF f.by = "sign-in"
          THEN \E to \in Protected : nav' = Push(n, to, token, user', stored, route)
          ELSE nav' = Resume(n, f, token, user', stored, route)
    /\ UNCHANGED <<version, stored, creds, token, connection, route, signIns, calls>>

(* The handler's navigation comes first and supersedes the guard's. *)
MeRefused(f) ==
    /\ f \in nav.fetches /\ ~Accepted(f.token)
    /\ stored' = None
    /\ \E n \in Without(nav, f) :
          LET pushed == IF route = "login" THEN n ELSE Push(n, "login", token, user, None, route)
              self == IF route = "login" THEN f ELSE [f EXCEPT !.current = FALSE]
          IN  nav' = IF f.by = "sign-in" THEN pushed
                     ELSE Resume(pushed, self, token, user, None, route)
    /\ UNCHANGED <<version, creds, token, user, connection, route, signIns, calls>>

(* No answer, or an error of the server. *)
MeFails(f) ==
    /\ f \in nav.fetches
    /\ \E n \in Without(nav, f) :
          nav' = IF f.by = "sign-in" THEN n ELSE Resume(n, f, token, user, stored, route)
    /\ UNCHANGED <<version, stored, creds, token, user, connection, route, signIns, calls>>

CallEnds(t) ==
    /\ t \in calls
    /\ calls' = calls \ {t}
    /\ IF Accepted(t) THEN UNCHANGED <<stored, nav>> ELSE Unauthorized(nav)
    /\ UNCHANGED <<version, creds, token, user, connection, route, signIns>>

(* The component of a route has been loaded: the navigation commits. *)
Commit ==
    /\ nav.pending # None /\ nav.pending.pc = "loading"
    /\ route' = nav.pending.to
    /\ nav' = [nav EXCEPT !.pending = None]
    /\ UNCHANGED <<version, stored, creds, token, user, connection, signIns, calls>>

(* A password change, a deletion, or a token's end of life. *)
Revoke(u) ==
    /\ FoldFunction(+, 0, version) < MaxRevocations
    /\ version' = [version EXCEPT ![u] = @ + 1]
    /\ UNCHANGED <<stored, creds, token, user, connection, route, nav, signIns, calls>>

-----------------------------------------------------------------------------

(* The first visit. *)
Init ==
    /\ version = [u \in Users |-> 0]
    /\ stored = None /\ creds = None /\ token = None /\ user = None /\ connection = None
    /\ route = "start"
    /\ \E to \in Routes : nav = Push([pending |-> None, fetches |-> {}], to, None, None, None, "start")
    /\ signIns = {} /\ calls = {}

Next ==
    \/ \E to \in Routes : Click(to) \/ Reload(to)
    \/ \E u \in Users : Submit(u) \/ SignedIn(u) \/ SignInFails(u) \/ Revoke(u)
    \/ \E f \in nav.fetches : MeAnswered(f) \/ MeRefused(f) \/ MeFails(f)
    \/ \E t \in calls : CallEnds(t)
    \/ Logout \/ Call \/ Commit

Spec == Init /\ [][Next]_vars

-----------------------------------------------------------------------------
(* Properties *)

TypeOK ==
    /\ version \in [Users -> Nat]
    /\ stored \in Token \cup {None} /\ token \in Token \cup {None}
    /\ {creds, user, connection} \subseteq Users \cup {None}
    /\ route \in Routes \cup {"start"}
    /\ nav.pending \in Pending /\ nav.fetches \subseteq Fetch
    /\ signIns \subseteq Users /\ calls \subseteq Token \cup {None}

(* The page never acts as one user while its requests go out as another:   *)
(* a token in localStorage is the store's (applyToken, the interceptor).   *)
StoreMatchesStorage == stored # None => token = stored

(* Nobody is connected to the chat server who is not signed in: a logout,  *)
(* a reload after a 401, or a sign-in answered late never leaves a         *)
(* connection behind (connectXmpp, logout, App.onMounted).                 *)
ConnectionNeedsSession == connection # None => token # None

(* A page that needs a session is never opened without one, although the   *)
(* guard ran before the page's component was loaded: logging out meanwhile *)
(* must have cancelled it (router.beforeEach, App.logout).                 *)
ProtectedNeedsSession ==
    [][route' # route /\ route' \in Protected => token # None]_vars

-----------------------------------------------------------------------------
(* What the comments and the README say, and the code does not do *)

(* web/README: "A 401 clears the token and bounces to /login". *)
DroppedTokenLeadsToLogin ==
    [][stored # None /\ stored' = None =>
          route' = "login" \/ (nav'.pending # None /\ nav'.pending.to = "login")]_vars

-----------------------------------------------------------------------------
(* To the chat connection the page is a session *)

SignedInNow == token # None

ConnectedUsers == {connection} \ {None}

Tab == INSTANCE TabSession WITH
    signedIn  <- SignedInNow,
    connected <- ConnectedUsers

(* What module WebXmpp takes for granted of signing in, logging out and    *)
(* reloading is what the page does, whatever 401s, late answers and        *)
(* navigations come in between: the session that a reload finds in         *)
(* localStorage is the one the store had, or none, and nobody is connected *)
(* without one (applyToken, the interceptor, logout, App.onMounted).       *)
ImplementsTabSession == Tab!Spec

=============================================================================
