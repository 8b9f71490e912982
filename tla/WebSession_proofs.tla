------------------------- MODULE WebSession_proofs -------------------------
(***************************************************************************)
(* Proofs about WebSession for every set of users and every bound.  What   *)
(* the invariants lack is that no navigation under way leads to a page     *)
(* that needs a session once there is none (Allowed): the guard lets       *)
(* nothing through without a token, and whoever takes the token away       *)
(* starts a navigation of its own.                                         *)
(***************************************************************************)
EXTENDS WebSession, TLAPS

Nav == [pending : Pending, fetches : SUBSET Fetch]

Allowed(n, tok) == n.pending # None /\ n.pending.to \in Protected => tok # None

IInv ==
    /\ TypeOK /\ nav \in Nav
    /\ StoreMatchesStorage /\ ConnectionNeedsSession
    /\ Allowed(nav, token)

-----------------------------------------------------------------------------
(* The router *)

LEMMA RedirectedAllowed ==
    ASSUME NEW to \in Routes, NEW tok, NEW usr
    PROVE  /\ Redirected(to, tok, usr) \in Routes
           /\ Redirected(to, tok, usr) \in Protected => tok # None
BY DEF Redirected, Routes, Guest, Protected

LEMMA SupersededFetches ==
    ASSUME NEW fetches \in SUBSET Fetch
    PROVE  Superseded(fetches) \in SUBSET Fetch
BY DEF Superseded, Fetch

LEMMA HeadAllowed ==
    ASSUME NEW n \in Nav, NEW to \in Routes, NEW tok, NEW at,
           to # at /\ to \in Protected => tok # None
    PROVE  Head(n, to, at) \in Nav /\ Allowed(Head(n, to, at), tok)
<1>1. Superseded(n.fetches) \in SUBSET Fetch
  BY SupersededFetches DEF Nav
<1>2. CASE to = at
  BY <1>1, <1>2 DEF Head, Nav, Pending, Allowed
<1>3. CASE to # at
  BY <1>1, <1>3 DEF Head, Nav, Pending, Allowed
<1> QED
  BY <1>2, <1>3

LEMMA PushAllowed ==
    ASSUME NEW n \in Nav, NEW to \in Routes, NEW tok, NEW usr,
           NEW hdr \in Token \cup {None}, NEW at
    PROVE  Push(n, to, tok, usr, hdr, at) \in Nav /\ Allowed(Push(n, to, tok, usr, hdr, at), tok)
<1>1. CASE to # at /\ tok # None /\ usr = None
  <2>1. Superseded(n.fetches) \in SUBSET Fetch
    BY SupersededFetches DEF Nav
  <2>2. [by |-> to, current |-> TRUE, token |-> hdr] \in Fetch
    BY DEF Fetch
  <2>3. [to |-> to, pc |-> "fetching"] \in Pending
    BY DEF Pending
  <2>4. Push(n, to, tok, usr, hdr, at) =
            [pending |-> [to |-> to, pc |-> "fetching"],
             fetches |-> Superseded(n.fetches) \cup {[by |-> to, current |-> TRUE, token |-> hdr]}]
    BY <1>1 DEF Push
  <2>5. Push(n, to, tok, usr, hdr, at) \in Nav
    <3>1. Superseded(n.fetches) \cup {[by |-> to, current |-> TRUE, token |-> hdr]} \in SUBSET Fetch
      BY <2>1, <2>2
    <3> QED
      BY <2>3, <2>4, <3>1 DEF Nav
  <2>6. Allowed(Push(n, to, tok, usr, hdr, at), tok)
    BY <1>1 DEF Allowed
  <2> QED
    BY <2>5, <2>6
<1>2. CASE ~(to # at /\ tok # None /\ usr = None) /\ to = at
  <2>1. Push(n, to, tok, usr, hdr, at) = Head(n, to, at)
    BY <1>2 DEF Push
  <2> QED
    BY <1>2, <2>1, HeadAllowed
<1>3. CASE ~(to # at /\ tok # None /\ usr = None) /\ to # at
  <2>1. Push(n, to, tok, usr, hdr, at) = Head(n, Redirected(to, tok, usr), at)
    BY <1>3 DEF Push
  <2> QED
    BY <2>1, RedirectedAllowed, HeadAllowed
<1> QED
  BY <1>1, <1>2, <1>3

LEMMA ResumeAllowed ==
    ASSUME NEW n \in Nav, NEW f \in Fetch, f.by # "sign-in", NEW tok, NEW usr,
           NEW hdr \in Token \cup {None}, NEW at, Allowed(n, tok)
    PROVE  Resume(n, f, tok, usr, hdr, at) \in Nav /\ Allowed(Resume(n, f, tok, usr, hdr, at), tok)
<1> DEFINE to == Redirected(f.by, tok, usr)
<1>1. f.by \in Routes
  BY DEF Fetch
<1>2. to \in Routes /\ (to \in Protected => tok # None)
  BY <1>1, RedirectedAllowed
<1>3. CASE to # f.by
  <2>1. Resume(n, f, tok, usr, hdr, at) = Push(n, to, tok, usr, hdr, at)
    BY <1>3 DEF Resume
  <2> QED
    BY <1>2, <2>1, PushAllowed
<1>4. CASE to = f.by /\ f.current /\ n.pending = [to |-> f.by, pc |-> "fetching"]
  <2>1. Resume(n, f, tok, usr, hdr, at) = [n EXCEPT !.pending.pc = "loading"]
    BY <1>4 DEF Resume
  <2>2. [n.pending EXCEPT !.pc = "loading"] = [to |-> f.by, pc |-> "loading"]
    BY <1>4
  <2>3. [to |-> f.by, pc |-> "loading"] \in Pending
    BY <1>1 DEF Pending
  <2> QED
    BY <1>2, <1>4, <2>1, <2>2, <2>3 DEF Nav, Allowed
<1>5. CASE to = f.by /\ ~(f.current /\ n.pending = [to |-> f.by, pc |-> "fetching"])
  BY <1>5 DEF Resume
<1> QED
  BY <1>3, <1>4, <1>5

LEMMA WithoutAllowed ==
    ASSUME NEW n \in Nav, NEW f, NEW tok, Allowed(n, tok), NEW m \in Without(n, f)
    PROVE  m \in Nav /\ Allowed(m, tok)
BY DEF Without, Nav, Allowed

-----------------------------------------------------------------------------
(* The actions *)

LEMMA InvariantInit == Init => IInv
<1> SUFFICES ASSUME Init PROVE IInv
  OBVIOUS
<1>1. PICK to \in Routes :
         nav = Push([pending |-> None, fetches |-> {}], to, None, None, None, "start")
  BY DEF Init
<1>2. [pending |-> None, fetches |-> {}] \in Nav
  BY DEF Nav, Pending
<1>3. nav \in Nav /\ Allowed(nav, None)
  BY <1>1, <1>2, PushAllowed
<1> QED
  BY <1>3 DEF Init, IInv, TypeOK, Nav, StoreMatchesStorage, ConnectionNeedsSession

(* What a step has to show when it leaves the session itself alone, as     *)
(* clicks, requests and most answers do.                                   *)
LEMMA NavigationKeeps ==
    ASSUME IInv, UNCHANGED <<creds, token, connection>>,
           version' \in [Users -> Nat], stored' \in {stored, None},
           user' \in Users \cup {None}, route' \in Routes \cup {"start"},
           signIns' \subseteq Users, calls' \subseteq Token \cup {None},
           nav' \in Nav, Allowed(nav', token)
    PROVE  IInv'
BY UsersAssumption DEF IInv, TypeOK, Nav, StoreMatchesStorage, ConnectionNeedsSession, Allowed

LEMMA ClickKeeps ==
    ASSUME IInv, NEW to \in Routes, Click(to)
    PROVE  IInv'
<1>1. nav' \in Nav /\ Allowed(nav', token)
  BY PushAllowed DEF Click, IInv, TypeOK
<1> QED
  BY <1>1, NavigationKeeps DEF Click, IInv, TypeOK

LEMMA LogoutKeeps ==
    ASSUME IInv, Logout
    PROVE  IInv'
<1>1. nav' = Push(nav, "login", None, None, None, route)
  BY DEF Logout, Leave
<1>2. nav' \in Nav /\ Allowed(nav', None)
  BY <1>1, PushAllowed DEF IInv, Routes, Guest
<1> QED
  BY <1>2 DEF Logout, IInv, TypeOK, Nav, StoreMatchesStorage, ConnectionNeedsSession, Allowed

LEMMA ReloadKeeps ==
    ASSUME IInv, NEW to \in Routes, Reload(to)
    PROVE  IInv'
<1>1. [pending |-> None, fetches |-> {}] \in Nav
  BY DEF Nav, Pending
<1>2. nav' \in Nav /\ Allowed(nav', token')
  BY <1>1, PushAllowed DEF Reload, IInv, TypeOK
<1>3. /\ connection' \in Users \cup {None}
      /\ connection' # None => token' # None
  BY DEF Reload, Connected, IInv, TypeOK
<1> QED
  BY <1>2, <1>3 DEF Reload, IInv, TypeOK, Nav, StoreMatchesStorage, ConnectionNeedsSession

LEMMA SignedInKeeps ==
    ASSUME IInv, NEW u \in Users, SignedIn(u)
    PROVE  IInv'
<1> DEFINE f == [by |-> "sign-in", current |-> TRUE, token |-> stored']
<1>1. token' \in Token /\ stored' = token' /\ token' # None
  BY UsersAssumption DEF SignedIn, Applied, IInv, TypeOK, Token
<1>2. creds' \in Users \cup {None} /\ connection' \in Users \cup {None}
  BY DEF SignedIn, AppliedXmpp, Connected, IInv, TypeOK
<1>3. f \in Fetch
  BY <1>1 DEF Fetch
<1>4. nav' = [pending |-> nav.pending, fetches |-> nav.fetches \cup {f}]
  BY DEF SignedIn, IInv, Nav
<1>5. nav' \in Nav
  BY <1>3, <1>4 DEF IInv, Nav
<1> QED
  BY <1>1, <1>2, <1>5 DEF SignedIn, IInv, TypeOK, Nav, StoreMatchesStorage, ConnectionNeedsSession, Allowed

LEMMA UnauthorizedAllowed ==
    ASSUME IInv, NEW n \in Nav, Allowed(n, token), Unauthorized(n)
    PROVE  stored' = None /\ nav' \in Nav /\ Allowed(nav', token)
BY PushAllowed DEF Unauthorized, Routes, Guest

LEMMA AnswersKeep ==
    ASSUME IInv,
           \/ \E u \in Users : SignInFails(u)
           \/ \E t \in calls : CallEnds(t)
    PROVE  IInv'
<1>1. nav \in Nav /\ Allowed(nav, token)
  BY DEF IInv
<1>2. ASSUME NEW u \in Users, SignInFails(u)
      PROVE  IInv'
  <2>1. stored' \in {stored, None} /\ nav' \in Nav /\ Allowed(nav', token)
    BY <1>1, <1>2, UnauthorizedAllowed DEF SignInFails
  <2> QED
    BY <1>2, <2>1, NavigationKeeps DEF SignInFails, IInv, TypeOK
<1>3. ASSUME NEW t \in calls, CallEnds(t)
      PROVE  IInv'
  <2>1. stored' \in {stored, None} /\ nav' \in Nav /\ Allowed(nav', token)
    BY <1>1, <1>3, UnauthorizedAllowed DEF CallEnds
  <2> QED
    BY <1>3, <2>1, NavigationKeeps DEF CallEnds, IInv, TypeOK
<1> QED
  BY <1>2, <1>3

LEMMA MeAnsweredKeeps ==
    ASSUME IInv, NEW f \in nav.fetches, MeAnswered(f)
    PROVE  IInv'
<1>1. f \in Fetch /\ nav \in Nav /\ Allowed(nav, token)
  BY DEF IInv, Nav
<1>2. user' \in Users
  BY <1>1 DEF MeAnswered, Accepted, Fetch, Token
<1>3. PICK n \in Without(nav, f) :
         IF f.by = "sign-in"
         THEN \E to \in Protected : nav' = Push(n, to, token, user', stored, route)
         ELSE nav' = Resume(n, f, token, user', stored, route)
  BY DEF MeAnswered
<1>4. n \in Nav /\ Allowed(n, token)
  BY <1>1, WithoutAllowed
<1>5. stored \in Token \cup {None}
  BY DEF IInv, TypeOK
<1>6. nav' \in Nav /\ Allowed(nav', token)
  <2>1. CASE f.by = "sign-in"
    BY <1>3, <1>4, <1>5, <2>1, PushAllowed DEF Routes
  <2>2. CASE f.by # "sign-in"
    BY <1>1, <1>3, <1>4, <1>5, <2>2, ResumeAllowed
  <2> QED
    BY <2>1, <2>2
<1> QED
  BY <1>2, <1>6, NavigationKeeps DEF MeAnswered, IInv, TypeOK

LEMMA MeRefusedKeeps ==
    ASSUME IInv, NEW f \in nav.fetches, MeRefused(f)
    PROVE  IInv'
<1>1. f \in Fetch /\ nav \in Nav /\ Allowed(nav, token)
  BY DEF IInv, Nav
<1>2. PICK n \in Without(nav, f) :
         LET pushed == IF route = "login" THEN n ELSE Push(n, "login", token, user, None, route)
             self == IF route = "login" THEN f ELSE [f EXCEPT !.current = FALSE]
         IN  nav' = IF f.by = "sign-in" THEN pushed
                    ELSE Resume(pushed, self, token, user, None, route)
  BY DEF MeRefused
<1> DEFINE pushed == IF route = "login" THEN n ELSE Push(n, "login", token, user, None, route)
           self == IF route = "login" THEN f ELSE [f EXCEPT !.current = FALSE]
<1>3. n \in Nav /\ Allowed(n, token)
  BY <1>1, WithoutAllowed
<1>4. pushed \in Nav /\ Allowed(pushed, token)
  BY <1>3, PushAllowed DEF Routes, Guest
<1>5. self \in Fetch /\ self.by = f.by
  BY <1>1 DEF Fetch
<1>6. nav' = IF f.by = "sign-in" THEN pushed ELSE Resume(pushed, self, token, user, None, route)
  BY <1>2
<1> HIDE DEF pushed, self
<1>7. nav' \in Nav /\ Allowed(nav', token)
  BY <1>4, <1>5, <1>6, ResumeAllowed
<1> QED
  BY <1>7, NavigationKeeps DEF MeRefused, IInv, TypeOK

LEMMA MeFailsKeeps ==
    ASSUME IInv, NEW f \in nav.fetches, MeFails(f)
    PROVE  IInv'
<1>1. f \in Fetch /\ nav \in Nav /\ Allowed(nav, token)
  BY DEF IInv, Nav
<1>2. PICK n \in Without(nav, f) :
         nav' = IF f.by = "sign-in" THEN n ELSE Resume(n, f, token, user, stored, route)
  BY DEF MeFails
<1>3. n \in Nav /\ Allowed(n, token)
  BY <1>1, WithoutAllowed
<1>4. stored \in Token \cup {None}
  BY DEF IInv, TypeOK
<1>5. nav' \in Nav /\ Allowed(nav', token)
  BY <1>1, <1>2, <1>3, <1>4, ResumeAllowed
<1> QED
  BY <1>5, NavigationKeeps DEF MeFails, IInv, TypeOK

LEMMA CommitKeeps ==
    ASSUME IInv, Commit
    PROVE  IInv'
<1>1. nav' = [pending |-> None, fetches |-> nav.fetches]
  BY DEF Commit, IInv, Nav
<1>2. nav' \in Nav /\ Allowed(nav', token)
  BY <1>1 DEF IInv, Nav, Pending, Allowed
<1>3. route' \in Routes
  BY DEF Commit, IInv, Nav, Pending
<1> QED
  BY <1>2, <1>3, NavigationKeeps DEF Commit, IInv, TypeOK

(* Starting a request, and what happens at the server. *)
LEMMA OthersKeep ==
    ASSUME IInv,
           \/ Call
           \/ \E u \in Users : Submit(u) \/ Revoke(u)
    PROVE  IInv'
<1>1. nav \in Nav /\ Allowed(nav, token)
  BY DEF IInv
<1>2. CASE Call
  BY <1>1, <1>2, NavigationKeeps DEF Call, IInv, TypeOK
<1>3. ASSUME NEW u \in Users, Submit(u)
      PROVE  IInv'
  BY <1>1, <1>3, NavigationKeeps DEF Submit, IInv, TypeOK
<1>4. ASSUME NEW u \in Users, Revoke(u)
      PROVE  IInv'
  <2>1. version' \in [Users -> Nat]
    <3>1. version' = [version EXCEPT ![u] = version[u] + 1]
      BY <1>4, Zenon DEF Revoke
    <3>2. version \in [Users -> Nat]
      BY DEF IInv, TypeOK
    <3> QED
      BY <3>1, <3>2
  <2> QED
    BY <1>1, <1>4, <2>1, NavigationKeeps DEF Revoke, IInv, TypeOK
<1> QED
  BY <1>2, <1>3, <1>4

-----------------------------------------------------------------------------

(* The four parts hold together in every state.                            *)
THEOREM InvariantHolds == Spec => []IInv
<1>1. Init => IInv
  BY InvariantInit
<1>2. ASSUME IInv, [Next]_vars
      PROVE  IInv'
  <2>1. CASE UNCHANGED vars
    <3>1. version' = version /\ nav' = nav /\ UNCHANGED <<creds, token, connection, stored, user, route, signIns, calls>>
      BY <2>1 DEF vars
    <3> QED
      BY <1>2, <3>1, NavigationKeeps DEF IInv, TypeOK
  <2> QED
    BY <1>2, <2>1, ClickKeeps, LogoutKeeps, ReloadKeeps, SignedInKeeps, AnswersKeep,
       MeAnsweredKeeps, MeRefusedKeeps, MeFailsKeeps, CommitKeeps, OthersKeep DEF Next
<1> QED
  BY <1>1, <1>2, PTL DEF Spec

(* Tokens, users, routes and requests are what they are meant to be.       *)
THEOREM TypeCorrect == Spec => []TypeOK
<1>1. IInv => TypeOK
  BY DEF IInv
<1> QED
  BY <1>1, InvariantHolds, PTL

(* The page never acts as one user while its requests go out as another    *)
(* (applyToken, the interceptor of api/client.ts).                         *)
THEOREM StorageIsTheStores == Spec => []StoreMatchesStorage
<1>1. IInv => StoreMatchesStorage
  BY DEF IInv
<1> QED
  BY <1>1, InvariantHolds, PTL

(* Nobody is connected to the chat server who is not signed in             *)
(* (connectXmpp, logout, App.onMounted).                                   *)
THEOREM ConnectionsHaveSessions == Spec => []ConnectionNeedsSession
<1>1. IInv => ConnectionNeedsSession
  BY DEF IInv
<1> QED
  BY <1>1, InvariantHolds, PTL

(* A page that needs a session is never opened without one, however late   *)
(* its component or the answer its guard waited for (router.beforeEach).   *)
THEOREM PagesHaveSessions == Spec => ProtectedNeedsSession
<1>1. ASSUME IInv, [Next]_vars
      PROVE  [route' # route /\ route' \in Protected => token # None]_vars
  <2>1. CASE UNCHANGED vars
    BY <2>1 DEF vars
  <2>2. CASE Commit
    BY <1>1, <2>2 DEF Commit, IInv, Allowed
  <2>3. CASE \E to \in Routes : Reload(to)
    BY <2>3 DEF Reload, Protected
  <2>4. CASE route' = route
    BY <2>4
  <2> QED
    BY <1>1, <2>1, <2>2, <2>3, <2>4
    DEF Next, Click, Logout, Submit, Call, SignedIn, SignInFails, MeAnswered, MeRefused, MeFails,
        CallEnds, Revoke
<1> QED
  BY <1>1, InvariantHolds, PTL DEF Spec, ProtectedNeedsSession

-----------------------------------------------------------------------------
(* The session as the chat connection sees it *)

LEMMA InitialTab == Init => Tab!Init
  BY DEF Init, Tab!Init, SignedInNow, ConnectedUsers

LEMMA SignInMaps ==
    ASSUME IInv, NEW u \in Users, SignedIn(u)
    PROVE  Tab!SignIn(u)
<1> USE UsersAssumption
<1>1. token' # None /\ creds' \in {u, None}
  BY DEF SignedIn, Applied, AppliedXmpp, IInv, TypeOK
<1>2. connection' = Connected(connection, token', creds')
  BY DEF SignedIn
<1>3. ConnectedUsers' = IF ConnectedUsers = {} THEN Tab!Owner(creds') ELSE ConnectedUsers
  BY <1>1, <1>2 DEF Connected, ConnectedUsers, Tab!Owner
<1> QED
  BY <1>1, <1>3 DEF Tab!SignIn, SignedInNow

(* The token a reload finds in localStorage is the store's or none.        *)
LEMMA ReloadMaps ==
    ASSUME IInv, NEW to \in Routes, Reload(to)
    PROVE  Tab!Reload
<1>1. token' \in {token, None}
  BY DEF Reload, IInv, StoreMatchesStorage
<1>2. connection' = IF token' = None THEN None ELSE creds
  BY DEF Reload, Connected
<1>3. UNCHANGED creds
  BY DEF Reload
<1> QED
  BY <1>1, <1>2, <1>3 DEF Tab!Reload, Tab!Owner, SignedInNow, ConnectedUsers

LEMMA StepsMap ==
    ASSUME IInv, [Next]_vars
    PROVE  [Tab!Next]_(Tab!vars)
<1> USE DEF Tab!Next
<1>1. CASE \E u \in Users : SignedIn(u)
  BY <1>1, SignInMaps
<1>2. CASE \E to \in Routes : Reload(to)
  BY <1>2, ReloadMaps
<1>3. CASE Logout
  BY <1>3 DEF Logout, Tab!Logout, SignedInNow, ConnectedUsers
<1>4. CASE UNCHANGED <<token, creds, connection>>
  BY <1>4 DEF Tab!vars, SignedInNow, ConnectedUsers
<1> QED
  BY <1>1, <1>2, <1>3, <1>4
  DEF Next, vars, Click, Submit, Call, SignInFails, MeAnswered, MeRefused, MeFails, CallEnds,
      Commit, Revoke

(* The page with all its requests and navigations is, to the chat          *)
(* connection, the session that WebXmpp takes for granted: no late answer  *)
(* and no 401 signs anybody in or out but by a sign-in, a logout or a      *)
(* reload, which never wakes up as somebody else.                          *)
THEOREM PagesImplementTab == Spec => ImplementsTabSession
<1>1. IInv /\ [Next]_vars => [Tab!Next]_(Tab!vars)
  BY StepsMap
<1> QED
  BY <1>1, InitialTab, InvariantHolds, PTL DEF Spec, ImplementsTabSession, Tab!Spec

=============================================================================
