--------------------------- MODULE WebXmpp_proofs ---------------------------
(***************************************************************************)
(* Proofs about WebXmpp for every set of users and of connections.  The    *)
(* two properties rest on each other: an event can make the dot green only *)
(* when it comes from a connection that has not been stopped, and that is  *)
(* the current one.  CurrentRuns is the converse of NoOrphanConnection,    *)
(* and says that the current connection is somebody's.                     *)
(***************************************************************************)
EXTENDS WebXmpp, TLAPS

Running == {"connecting", "disconnect", "online"}

CurrentRuns == connection # None => Is(connection, Running) /\ conn[connection].user # None

IInv == TypeOK /\ NoOrphanConnection /\ CurrentRuns /\ NavbarShowsCurrent

-----------------------------------------------------------------------------

LEMMA InvariantInit == Init => IInv
<1> SUFFICES ASSUME Init PROVE IInv
  OBVIOUS
<1>1. TypeOK
  BY DEF Init, TypeOK, Conn, Unused, Status, Is
<1>2. NoOrphanConnection /\ CurrentRuns /\ NavbarShowsCurrent
  BY DEF Init, NoOrphanConnection, CurrentRuns, NavbarShowsCurrent, Unused, Is
<1> QED
  BY <1>1, <1>2 DEF IInv

(* Opening a connection, when there is none, or leaving the one there is. *)
LEMMA ConnectKeeps ==
    ASSUME IInv, NEW user \in Users \cup {None}, Connect(connection, user),
           token' \in BOOLEAN, creds' \in Users \cup {None}, UNCHANGED <<jid, error>>
    PROVE  IInv'
<1> USE NoneAssumption
<1>1. CASE UNCHANGED <<connection, status, conn>>
  BY <1>1 DEF IInv, TypeOK, NoOrphanConnection, CurrentRuns, NavbarShowsCurrent, Is
<1>2. CASE /\ connection = None /\ user # None
           /\ \E c \in Connections :
                 /\ conn[c] = Unused
                 /\ connection' = c
                 /\ status' = "connecting"
                 /\ conn' = [conn EXCEPT ![c] = [user |-> user, phase |-> "connecting",
                                                 listened |-> TRUE, starting |-> TRUE]]
  <2>1. PICK c \in Connections :
           /\ connection' = c
           /\ status' = "connecting"
           /\ conn' = [conn EXCEPT ![c] = [user |-> user, phase |-> "connecting",
                                           listened |-> TRUE, starting |-> TRUE]]
    BY <1>2
  <2>2. [user |-> user, phase |-> "connecting", listened |-> TRUE, starting |-> TRUE] \in Conn
    BY DEF Conn
  <2>3. TypeOK'
    BY <2>1, <2>2 DEF IInv, TypeOK, Status, Is
  <2>4. NoOrphanConnection' /\ CurrentRuns'
    BY <1>2, <2>1 DEF IInv, TypeOK, NoOrphanConnection, CurrentRuns, Running, Is
  <2>5. NavbarShowsCurrent'
    BY <1>2, <2>1 DEF IInv, NavbarShowsCurrent
  <2> QED
    BY <2>3, <2>4, <2>5 DEF IInv
<1> QED
  BY <1>1, <1>2 DEF Connect

(* Logging out stops the current connection and clears the navbar. *)
LEMMA DisconnectKeeps ==
    ASSUME IInv, Disconnect, token' \in BOOLEAN, creds' \in Users \cup {None}
    PROVE  IInv'
<1> USE NoneAssumption
<1>1. TypeOK'
  BY DEF IInv, TypeOK, CurrentRuns, Running, Disconnect, To, Conn, Status, Is
<1>2. NoOrphanConnection' /\ CurrentRuns' /\ NavbarShowsCurrent'
  BY DEF IInv, TypeOK, Conn, NoOrphanConnection, CurrentRuns, NavbarShowsCurrent, Disconnect, To, Is
<1> QED
  BY <1>1, <1>2 DEF IInv

(* Events of the connections, the current one or those being stopped. *)
LEMMA EventKeeps ==
    ASSUME IInv, NEW c \in Connections,
           \/ Online(c) \/ Dropped(c) \/ Reconnect(c) \/ Closing(c)
           \/ Error(c) \/ StartFails(c) \/ Stopped(c) \/ Collected(c)
    PROVE  IInv'
<1> USE NoneAssumption DEF IInv
<1>1. conn[c] \in Conn /\ (conn[c].listened <=> ~Is(c, {"stopped"}))
  BY DEF TypeOK
<1>2. CASE Online(c)
  <2>1. c = connection /\ conn[c].listened
    BY <1>1, <1>2 DEF Online, NoOrphanConnection, Is
  <2>2. TypeOK'
    BY <1>1, <1>2, <2>1 DEF Online, Hears, TypeOK, Conn, Status, session, shown, Is
  <2> QED
    BY <1>1, <1>2, <2>1, <2>2
       DEF Online, Hears, TypeOK, Conn, NoOrphanConnection, CurrentRuns, Running,
           NavbarShowsCurrent, Is
<1>3. CASE Dropped(c) \/ Reconnect(c)
  <2>1. c = connection /\ conn[c].listened
    BY <1>1, <1>3 DEF Dropped, Reconnect, NoOrphanConnection, Is
  <2>2. TypeOK'
    BY <1>1, <1>3, <2>1 DEF Dropped, Reconnect, Hears, To, TypeOK, Conn, Status, session, shown, Is
  <2> QED
    BY <1>1, <1>3, <2>1, <2>2
       DEF Dropped, Reconnect, Hears, To, TypeOK, Conn, NoOrphanConnection, CurrentRuns, Running,
           NavbarShowsCurrent, Is
<1>4. CASE Closing(c)
  <2>1. TypeOK'
    BY <1>4 DEF Closing, Hears, TypeOK, Status, session, Is
  <2>2. status' # "online"
    BY <1>1, <1>4 DEF Closing, Hears, Is
  <2> QED
    BY <1>4, <2>1, <2>2 DEF Closing, NoOrphanConnection, CurrentRuns, NavbarShowsCurrent, Is
<1>5. CASE Error(c)
  BY <1>1, <1>5 DEF Error, TypeOK, session, NoOrphanConnection, CurrentRuns, NavbarShowsCurrent, Conn, Is
<1>6. CASE StartFails(c)
  <2>1. TypeOK'
    BY <1>1, <1>6 DEF StartFails, TypeOK, Conn, session, Is
  <2> QED
    BY <1>6, <2>1
       DEF StartFails, TypeOK, Conn, NoOrphanConnection, CurrentRuns, NavbarShowsCurrent, Is
<1>7. CASE Stopped(c)
  <2>1. c # connection
    BY <1>7 DEF Stopped, CurrentRuns, Running, Is
  <2>2. TypeOK'
    BY <1>1, <1>7 DEF Stopped, Hears, TypeOK, Conn, Status, session, shown, Is
  <2>3. status' \in {status, "offline"} /\ jid' \in {jid, None}
    BY <1>7 DEF Stopped, Hears
  <2> QED
    BY <1>7, <2>1, <2>2, <2>3
       DEF Stopped, TypeOK, Conn, NoOrphanConnection, CurrentRuns, Running, NavbarShowsCurrent, Is
<1>8. CASE Collected(c)
  <2>1. c # connection
    BY <1>8 DEF Collected, CurrentRuns, Running, Is
  <2>2. TypeOK'
    BY <1>8 DEF Collected, TypeOK, Conn, Unused, session, shown, Is
  <2> QED
    BY <1>8, <2>1, <2>2
       DEF Collected, Unused, shown, TypeOK, NoOrphanConnection, CurrentRuns, Running,
           NavbarShowsCurrent, Is
<1> QED
  BY <1>2, <1>3, <1>4, <1>5, <1>6, <1>7, <1>8

LEMMA InvariantInductive ==
    ASSUME IInv, [Next]_vars
    PROVE  IInv'
<1>1. ASSUME NEW user \in Users, SignIn(user)
      PROVE  IInv'
  <2>1. creds' \in Users \cup {None} /\ token' \in BOOLEAN
    BY <1>1 DEF SignIn
  <2> QED
    BY <1>1, <2>1, ConnectKeeps DEF SignIn
<1>2. CASE Logout
  <2>1. creds' \in Users \cup {None} /\ token' \in BOOLEAN
    BY <1>2 DEF Logout
  <2> QED
    BY <1>2, <2>1, DisconnectKeeps DEF Logout
<1>3. CASE Reload
  <2>1. TypeOK'
    BY <1>3 DEF Reload, IInv, TypeOK, Conn, Unused, Status, Is
  <2> QED
    BY <1>3, <2>1
       DEF Reload, IInv, NoOrphanConnection, CurrentRuns, NavbarShowsCurrent, Unused, Is
<1>4. CASE Mounted
  BY <1>4, ConnectKeeps DEF Mounted, session, IInv, TypeOK
<1>5. CASE UNCHANGED vars
  BY <1>5
     DEF vars, session, shown, IInv, TypeOK, NoOrphanConnection, CurrentRuns,
         NavbarShowsCurrent, Is
<1> QED
  BY <1>1, <1>2, <1>3, <1>4, <1>5, EventKeeps DEF Next

-----------------------------------------------------------------------------

(* What the store shows and which connections are alive stay in step, as   *)
(* the inductive invariant says, through every event of every connection.  *)
THEOREM InvariantHolds == Spec => []IInv
  BY InvariantInit, InvariantInductive, PTL DEF Spec

(* The store and the connections always have the shapes TypeOK gives them, *)
(* and a connection is listened to until its stop is over.                 *)
THEOREM TypeCorrect == Spec => []TypeOK
<1>1. IInv => TypeOK
  BY DEF IInv
<1> QED
  BY <1>1, InvariantHolds, PTL

(* Logging out reaches every connection that nobody has stopped, whatever  *)
(* order the sign-ins, reloads and events come in (connect, disconnect).   *)
THEOREM NoConnectionIsOrphaned == Spec => []NoOrphanConnection
<1>1. IInv => NoOrphanConnection
  BY DEF IInv
<1> QED
  BY <1>1, InvariantHolds, PTL

(* However many connections are still being stopped, the navbar is green   *)
(* and names a JID for the current one only (status, jid).                 *)
THEOREM NavbarIsOfCurrent == Spec => []NavbarShowsCurrent
<1>1. IInv => NavbarShowsCurrent
  BY DEF IInv
<1> QED
  BY <1>1, InvariantHolds, PTL

-----------------------------------------------------------------------------
(* The refinement of TabSession *)

(* Only the current connection counts, before a step and after it. *)
LEMMA ConnectedIsCurrent ==
    ASSUME IInv, IInv'
    PROVE  /\ Connected = IF connection = None THEN {} ELSE {conn[connection].user}
           /\ Connected' = IF connection' = None THEN {} ELSE {conn'[connection'].user}
<1> USE NoneAssumption DEF IInv, TypeOK, NoOrphanConnection, CurrentRuns, Running, Is, Connected,
                          Unstopped
<1>1. Unstopped = IF connection = None THEN {} ELSE {connection}
  OBVIOUS
<1>2. Unstopped' = IF connection' = None THEN {} ELSE {connection'}
  OBVIOUS
<1> QED
  BY <1>1, <1>2

(* A sign-in finds a connection and keeps it, or opens one. *)
LEMMA SignInMaps ==
    ASSUME IInv, IInv', NEW user \in Users, SignIn(user)
    PROVE  Tab!SignIn(user)
<1> USE NoneAssumption
<1>1. token' = TRUE /\ creds' \in {user, None} /\ Connect(connection, creds')
  BY DEF SignIn
<1>2. CASE connection # None
  <2>1. connection' = connection /\ conn' = conn
    BY <1>1, <1>2 DEF Connect
  <2> QED
    BY <1>1, <1>2, <2>1, ConnectedIsCurrent DEF Tab!SignIn
<1>3. CASE connection = None /\ creds' = None
  <2>1. connection' = None
    BY <1>1, <1>3 DEF Connect
  <2> QED
    BY <1>1, <1>3, <2>1, ConnectedIsCurrent DEF Tab!SignIn, Tab!Owner
<1>4. CASE connection = None /\ creds' # None
  <2>1. connection' \in Connections /\ conn'[connection'].user = creds'
    BY <1>1, <1>4 DEF Connect, IInv, TypeOK
  <2> QED
    BY <1>1, <1>4, <2>1, ConnectedIsCurrent DEF Tab!SignIn, Tab!Owner
<1> QED
  BY <1>2, <1>3, <1>4

LEMMA MountedMaps ==
    ASSUME IInv, IInv', Mounted
    PROVE  Tab!Connect
<1> USE NoneAssumption
<1>1. token /\ connection = None /\ Connect(None, creds) /\ UNCHANGED <<token, creds>>
  BY DEF Mounted, session
<1>2. CASE creds = None
  <2>1. connection' = None
    BY <1>1, <1>2 DEF Connect
  <2> QED
    BY <1>1, <1>2, <2>1, ConnectedIsCurrent DEF Tab!Connect, Tab!Owner
<1>3. CASE creds # None
  <2>1. connection' \in Connections /\ conn'[connection'].user = creds
    BY <1>1, <1>3 DEF Connect, IInv, TypeOK
  <2> QED
    BY <1>1, <1>3, <2>1, ConnectedIsCurrent DEF Tab!Connect, Tab!Owner
<1> QED
  BY <1>2, <1>3

(* Whatever a connection reports, the current one stays somebody's. *)
LEMMA EventsAreInvisible ==
    ASSUME IInv, IInv', NEW c \in Connections,
           \/ Online(c) \/ Dropped(c) \/ Reconnect(c) \/ Closing(c)
           \/ Error(c) \/ StartFails(c) \/ Stopped(c) \/ Collected(c)
    PROVE  UNCHANGED Tab!vars
<1> USE NoneAssumption
<1>1. UNCHANGED <<token, creds, connection>>
  BY DEF Online, Dropped, Reconnect, Closing, Error, StartFails, Stopped, Collected, session
<1>2. connection # None => conn'[connection].user = conn[connection].user
  BY DEF Online, Dropped, Reconnect, Closing, Error, StartFails, Stopped, Collected, To, Is, IInv,
         TypeOK, CurrentRuns, Running, Conn
<1> QED
  BY <1>1, <1>2, ConnectedIsCurrent DEF Tab!vars

LEMMA InitialTab == Init => Tab!Init
  BY DEF Init, Tab!Init, Connected, Unstopped, Unused, Is

LEMMA StepsMap ==
    ASSUME IInv, IInv', [Next]_vars
    PROVE  [Tab!Next]_(Tab!vars)
<1> USE DEF Tab!Next
<1>1. CASE \E user \in Users : SignIn(user)
  BY <1>1, SignInMaps
<1>2. CASE Logout
  BY <1>2, ConnectedIsCurrent DEF Logout, Disconnect, Tab!Logout
<1>3. CASE Reload
  BY <1>3, ConnectedIsCurrent DEF Reload, Tab!Reload
<1>4. CASE Mounted
  BY <1>4, MountedMaps
<1>5. CASE UNCHANGED vars
  BY <1>5, ConnectedIsCurrent DEF vars, session, Tab!vars
<1> QED
  BY <1>1, <1>2, <1>3, <1>4, <1>5, EventsAreInvisible DEF Next

(* For every number of connections that are still being stopped, the tab   *)
(* has one connection or none: a sign-in opens no second one, a logout and *)
(* a reload leave none (connect, disconnect).                              *)
THEOREM StoreImplementsTab == Spec => ImplementsTabSession
<1>1. IInv /\ IInv' /\ [Next]_vars => [Tab!Next]_(Tab!vars)
  BY StepsMap
<1> QED
  BY <1>1, InitialTab, InvariantHolds, PTL DEF Spec, ImplementsTabSession, Tab!Spec

=============================================================================
