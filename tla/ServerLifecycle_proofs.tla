----------------------- MODULE ServerLifecycle_proofs -----------------------
(***************************************************************************)
(* Proofs about ServerLifecycle for every set of ids, servers, clients and *)
(* configurations: what servers, their requests and gochactrl do to the    *)
(* accounts are steps of Provisioning, so that what is proved there holds  *)
(* here; a server that disconnects the database owes its requests nothing. *)
(***************************************************************************)
EXTENDS ServerLifecycle, TLAPS

ProcIsFunction == proc = [p \in Store!Processes |-> proc[p]]

-----------------------------------------------------------------------------
(* The accounts *)

LEMMA SetIsFunction ==
    ASSUME NEW p, NEW state, ProcIsFunction, Store!Set(p, state)
    PROVE  ProcIsFunction'
BY DEF ProcIsFunction, Store!Set

(* Some of those that end may have had nothing to do with the accounts.    *)
LEMMA CrashIsStep ==
    ASSUME NEW ps \in SUBSET Store!Processes, ProcIsFunction, Store!Crash(ps)
    PROVE  [Store!Next]_(Store!vars) /\ ProcIsFunction'
<1>1. ProcIsFunction'
  BY DEF ProcIsFunction, Store!Crash, Store!Processes
<1>2. CASE ps \cap Store!Running = {}
  <2>1. proc' = proc
    BY <1>2 DEF ProcIsFunction, Store!Crash, Store!Running, Store!Processes
  <2> QED
    BY <1>1, <2>1 DEF Store!Crash, Store!vars, Store!stores
<1>3. CASE ps \cap Store!Running # {}
  <2> DEFINE running == ps \cap Store!Running
  <2>1. running \in (SUBSET Store!Running) \ {{}}
    BY <1>3
  <2>2. proc' = [p \in Store!Processes |-> IF p \in running THEN Store!Idle ELSE proc[p]]
    BY DEF Store!Crash, Store!Running
  <2>3. Store!Crash(running)
    BY <2>2 DEF Store!Crash
  <2> QED
    BY <1>1, <2>1, <2>3 DEF Store!Next
<1> QED
  BY <1>2, <1>3

LEMMA RegistrationIsStep ==
    ASSUME NEW p \in Servers \cup Clients, NEW cut, Registration(p, cut)
    PROVE  Store!Next
<1>1. Store!Provision(p)
  BY DEF Registration, Store!Provision
<1> QED
  BY <1>1 DEF Store!Next

LEMMA ServerIsStep ==
    ASSUME NEW s \in Servers, ProcIsFunction, Start(s) \/ Goroutine(s) \/ Stop(s)
    PROVE  [Store!Next]_(Store!vars)
<1>1. CASE UNCHANGED accounts
  BY <1>1 DEF accounts, Store!vars
<1>2. CASE Ends(s)
  <2>1. {s} \cup Hosted(s) \in SUBSET Store!Processes
    BY LifecycleAssumption DEF Hosted, Store!Processes
  <2> QED
    BY <1>2, <2>1, CrashIsStep DEF Ends
<1>3. CASE LookupSystem(s) \/ RestoreSystem(s)
  BY <1>3 DEF LookupSystem, RestoreSystem, Store!Next, Store!Start
<1>4. CASE CreateSystem(s)
  <2>1. CASE Registration(s, server[s].late)
    BY <2>1, RegistrationIsStep
  <2>2. CASE Store!CreateSystemUserFails(s) \/ \E id \in UserIds : Store!CreateSystemUser(s, id)
    BY <2>2 DEF Store!Next, Store!Provision
  <2> QED
    BY <1>4, <2>1, <2>2 DEF CreateSystem
<1> QED
  BY <1>1, <1>2, <1>3, <1>4
  DEF Start, Goroutine, Stop, Boot, GiveUp, ServeWithXmpp, ServeWithoutXmpp, Serve, Listen,
      ListenFails, Connect, Disconnected, Signal, Shutdown, Timeout, Drained, Exit, Kill

LEMMA RequestIsStep ==
    ASSUME ProcIsFunction,
           \/ \E s \in Servers, c \in Http, id \in UserIds : Accept(s, c, id)
           \/ \E c \in Http : Handle(c) \/ Abort(c)
    PROVE  [Store!Next]_(Store!vars)
<1>1. ASSUME NEW s \in Servers, NEW c \in Http, NEW id \in UserIds, Accept(s, c, id)
      PROVE  Store!Next
  BY <1>1, LifecycleAssumption DEF Accept, Store!Next
<1>2. ASSUME NEW c \in Http, Handle(c)
      PROVE  Store!Next
  BY <1>2, LifecycleAssumption, RegistrationIsStep DEF Handle
<1>3. ASSUME NEW c \in Http, Abort(c)
      PROVE  [Store!Next]_(Store!vars)
  <2>1. {c} \in SUBSET Store!Processes
    BY LifecycleAssumption DEF Store!Processes
  <2> QED
    BY <1>3, <2>1, CrashIsStep DEF Abort
<1> QED
  BY <1>1, <1>2, <1>3

LEMMA GochactrlIsStep ==
    ASSUME NEW c \in Clients \ Http, ProcIsFunction, Gochactrl(c)
    PROVE  [Store!Next]_(Store!vars)
<1>1. CASE Registration(c, FALSE)
  BY <1>1, RegistrationIsStep
<1>2. CASE Store!InitSystemUser(c) \/ Store!Remove(c) \/ \E id \in UserIds : Store!Register(c, id)
  BY <1>2 DEF Store!Next
<1>3. CASE Store!CreateSystemUserFails(c) \/ \E id \in UserIds : Store!CreateSystemUser(c, id)
  BY <1>3 DEF Store!Next, Store!Provision
<1>4. CASE Store!Crash({c})
  <2>1. {c} \in SUBSET Store!Processes
    BY DEF Store!Processes
  <2> QED
    BY <1>4, <2>1, CrashIsStep
<1> QED
  BY <1>1, <1>2, <1>3, <1>4 DEF Gochactrl

LEMMA StepIsStep ==
    ASSUME ProcIsFunction, [Next]_vars
    PROVE  [Store!Next]_(Store!vars)
<1>1. CASE UNCHANGED vars
  BY <1>1 DEF vars, accounts, Store!vars
<1>2. ASSUME NEW id \in UserIds, Administrator(id)
      PROVE  Store!Next
  BY <1>2 DEF Administrator, Store!Next
<1> QED
  BY <1>1, <1>2, ServerIsStep, RequestIsStep, GochactrlIsStep DEF Next

LEMMA ProcStaysFunction ==
    ASSUME ProcIsFunction, [Store!Next]_(Store!vars)
    PROVE  ProcIsFunction'
<1>1. ASSUME NEW p, Store!Provision(p)
      PROVE  ProcIsFunction'
  BY <1>1, SetIsFunction
  DEF Store!Provision, Store!MirrorUser, Store!MirrorUserFails, Store!SaveChatCredentials,
      Store!CreateSystemUserFails, Store!CreateSystemUser, Store!Insert
<1>2. ASSUME NEW p, Store!Start(p)
      PROVE  ProcIsFunction'
  <2>1. CASE Store!EnsureSystemUser(p) \/ Store!ServerStops(p)
    BY <2>1, SetIsFunction DEF Store!EnsureSystemUser, Store!ServerStops
  <2>2. CASE Store!RestoreSystemUser(p)
    BY <2>2, SetIsFunction DEF Store!RestoreSystemUser
  <2> QED
    BY <1>2, <2>1, <2>2 DEF Store!Start
<1>3. ASSUME NEW p, Store!Remove(p)
      PROVE  ProcIsFunction'
  BY <1>3, SetIsFunction
  DEF Store!Remove, Store!DeleteUser, Store!DeleteChatCredentials, Store!DeleteMirror,
      Store!DeleteMirrorFails, Store!LookupToPurge
<1>4. ASSUME NEW p, Store!Wipe(p)
      PROVE  ProcIsFunction'
  BY <1>4, SetIsFunction
  DEF Store!Wipe, Store!AllUserIDs, Store!FindSystem, Store!FindSpared, Store!WipeUsers,
      Store!WipeCredentials, Store!DeleteMirrors
<1>5. ASSUME NEW p, Store!InitSystemUser(p) \/ \E id \in UserIds : Store!Register(p, id)
      PROVE  ProcIsFunction'
  BY <1>5, SetIsFunction DEF Store!InitSystemUser, Store!Register, Store!Insert
<1>6. ASSUME NEW ps, Store!Crash(ps)
      PROVE  ProcIsFunction'
  BY <1>6 DEF ProcIsFunction, Store!Crash, Store!Processes
<1>7. ASSUME NEW id, Store!SoftDelete(id) \/ Store!Restore(id)
      PROVE  ProcIsFunction'
  BY <1>7 DEF ProcIsFunction, Store!SoftDelete, Store!Restore
<1>8. CASE UNCHANGED Store!vars
  BY <1>8 DEF ProcIsFunction, Store!vars
<1> QED
  BY <1>1, <1>2, <1>3, <1>4, <1>5, <1>6, <1>7, <1>8 DEF Store!Next

(* Servers with their requests, gochactrl and administrators only take     *)
(* steps of Provisioning, so what holds there holds with them around.      *)
THEOREM Implements == Spec => ImplementsProvisioning
<1>1. Init => Store!Init /\ ProcIsFunction
  BY DEF Init, Store!Init, ProcIsFunction, Store!Processes
<1>2. ProcIsFunction /\ [Next]_vars => ProcIsFunction' /\ [Store!Next]_(Store!vars)
  BY StepIsStep, ProcStaysFunction
<1> QED
  BY <1>1, <1>2, PTL DEF Spec, ImplementsProvisioning, Store!Spec

-----------------------------------------------------------------------------
(* The stop *)

(* Nothing is accepted once main has left its select.                      *)
DrainSound ==
    /\ server \in [Servers -> Server]
    /\ host \in [Http -> Servers \cup {None}]
    /\ \A s \in Servers : server[s].listener = "open" => Phase(s, {"serving"})
    /\ DrainsBeforeDisconnect

(* What a change of one server's state has to show; requests may end with  *)
(* it.                                                                     *)
LEMMA SetKeeps ==
    ASSUME DrainSound, NEW s \in Servers, NEW state \in Server, Set(s, state),
           host' \in [Http -> Servers \cup {None}],
           \A c \in Http : host'[c] \in {host[c], None},
           state.listener = "open" => state.phase = "serving",
           state.phase = "closing" => state.late \/ Hosted(s) = {}
    PROVE  DrainSound'
<1>1. server' \in [Servers -> Server]
  BY DEF DrainSound, Set
<1>2. \A t \in Servers : server'[t] = IF t = s THEN state ELSE server[t]
  BY DEF DrainSound, Set
<1>3. \A t \in Servers : Hosted(t)' \subseteq Hosted(t)
  BY LifecycleAssumption DEF Hosted
<1>4. \A t \in Servers : server'[t].listener = "open" => Phase(t, {"serving"})'
  BY <1>2 DEF DrainSound, Phase
<1>5. DrainsBeforeDisconnect'
  BY <1>2, <1>3 DEF DrainSound, DrainsBeforeDisconnect, Phase
<1> QED
  BY <1>1, <1>4, <1>5 DEF DrainSound

LEMMA EndsKeeps ==
    ASSUME DrainSound, NEW s \in Servers, Ends(s)
    PROVE  DrainSound'
<1>1. Down \in Server /\ Down.listener = "none" /\ Down.phase = "down"
  BY DEF Down, Server
<1>2. /\ host' \in [Http -> Servers \cup {None}]
      /\ \A c \in Http : host'[c] \in {host[c], None}
  BY DEF Ends, DrainSound
<1> QED
  BY <1>1, <1>2, SetKeeps DEF Ends

LEMMA StartKeeps ==
    ASSUME DrainSound, NEW s \in Servers, Start(s)
    PROVE  DrainSound'
<1>1. /\ server[s] \in Server
      /\ server[s].listener = "open" => server[s].phase = "serving"
  BY DEF DrainSound, Phase
<1>2. /\ host \in [Http -> Servers \cup {None}]
      /\ \A c \in Http : host[c] \in {host[c], None}
  BY DEF DrainSound
<1>3. CASE Boot(s)
  <2> DEFINE state == [Down EXCEPT !.phase = "ensuring"]
  <2>1. state \in Server /\ state.listener = "none" /\ state.phase = "ensuring"
    BY DEF Down, Server
  <2>2. Set(s, state) /\ host' = host
    BY <1>3 DEF Boot
  <2> QED
    BY <1>2, <2>1, <2>2, SetKeeps
<1>4. ASSUME Phase(s, {"ensuring"}), AfterEnsuring(s), host' = host
      PROVE  DrainSound'
  <2> DEFINE starting == [server[s] EXCEPT !.phase = "starting", !.late = FALSE]
  <2>1. /\ starting \in Server /\ starting.phase = "starting"
        /\ starting.listener = server[s].listener
    BY <1>1 DEF Server
  <2>2. Down \in Server /\ Down.listener = "none" /\ Down.phase = "down"
    BY DEF Down, Server
  <2>3. Set(s, Down) \/ Set(s, starting) \/ Set(s, server[s])
    BY <1>4 DEF AfterEnsuring
  <2>4. server[s].phase = "ensuring"
    BY <1>4 DEF Phase
  <2> HIDE DEF starting
  <2> QED
    BY <1>1, <1>2, <1>4, <2>1, <2>2, <2>3, <2>4, SetKeeps
<1>5. ASSUME NEW xmpp \in {"off", "connecting"}, Serve(s, xmpp)
      PROVE  DrainSound'
  <2> DEFINE state ==
        [server[s] EXCEPT !.phase = "serving", !.listener = "due", !.xmpp = xmpp]
  <2>1. state \in Server /\ state.listener = "due" /\ state.phase = "serving"
    BY <1>1 DEF Server
  <2>2. Set(s, state) /\ host' = host
    BY <1>5 DEF Serve
  <2> HIDE DEF state
  <2> QED
    BY <1>2, <2>1, <2>2, SetKeeps
<1> QED
  BY <1>3, <1>4, <1>5, EndsKeeps
  DEF Start, LookupSystem, RestoreSystem, CreateSystem, GiveUp, ServeWithXmpp, ServeWithoutXmpp

(* The steps of a server that serves, and the orderly stop.                *)
LEMMA RunKeeps ==
    ASSUME DrainSound, NEW s \in Servers, Goroutine(s) \/ Stop(s)
    PROVE  DrainSound'
<1>1. /\ server[s] \in Server
      /\ server[s].listener = "open" => server[s].phase = "serving"
      /\ server[s].phase = "closing" => server[s].late \/ Hosted(s) = {}
  BY DEF DrainSound, DrainsBeforeDisconnect, Phase
<1>2. /\ host \in [Http -> Servers \cup {None}]
      /\ \A c \in Http : host[c] \in {host[c], None}
  BY DEF DrainSound
<1>3. CASE Listen(s)
  <2> DEFINE state == [server[s] EXCEPT
                         !.listener = IF Phase(s, {"serving"}) THEN "open" ELSE "closed"]
  <2>1. /\ state \in Server /\ state.phase = server[s].phase /\ state.late = server[s].late
        /\ state.listener = "open" => server[s].phase = "serving"
    BY <1>1 DEF Server, Phase
  <2>2. Set(s, state) /\ host' = host
    BY <1>3 DEF Listen
  <2> HIDE DEF state
  <2> QED
    BY <1>1, <1>2, <2>1, <2>2, SetKeeps
<1>4. ASSUME NEW xmpp \in {"off", "connecting", "online"},
             Set(s, [server[s] EXCEPT !.xmpp = xmpp]), host' = host
      PROVE  DrainSound'
  <2> DEFINE state == [server[s] EXCEPT !.xmpp = xmpp]
  <2>1. /\ state \in Server /\ state.phase = server[s].phase /\ state.late = server[s].late
        /\ state.listener = server[s].listener
    BY <1>1 DEF Server
  <2>2. Set(s, state)
    BY <1>4
  <2> HIDE DEF state
  <2> QED
    BY <1>1, <1>2, <1>4, <2>1, <2>2, SetKeeps
<1>5. CASE Signal(s) \/ Timeout(s)
  <2>1. PICK f \in {"told", "late"} :
           Set(s, IF f = "told" THEN [server[s] EXCEPT !.told = TRUE]
                  ELSE [server[s] EXCEPT !.late = TRUE])
    BY <1>5 DEF Signal, Timeout
  <2> DEFINE told == [server[s] EXCEPT !.told = TRUE]
             late == [server[s] EXCEPT !.late = TRUE]
  <2>2. /\ told \in Server /\ told.phase = server[s].phase /\ told.late = server[s].late
        /\ told.listener = server[s].listener
    BY <1>1 DEF Server
  <2>3. /\ late \in Server /\ late.phase = server[s].phase
        /\ late.listener = server[s].listener
    BY <1>1 DEF Server
  <2>4. server[s].phase # "closing" /\ host' = host
    BY <1>5 DEF Signal, Timeout, Phase
  <2>5. Set(s, told) \/ Set(s, late)
    BY <2>1
  <2> HIDE DEF told, late
  <2> QED
    BY <1>1, <1>2, <2>2, <2>3, <2>4, <2>5, SetKeeps
<1>6. CASE Shutdown(s)
  <2> DEFINE state == [server[s] EXCEPT !.phase = "draining",
                         !.listener = IF @ = "open" THEN "closed" ELSE @]
  <2>1. state \in Server /\ state.phase = "draining" /\ state.listener # "open"
    BY <1>1 DEF Server
  <2>2. Set(s, state) /\ host' = host
    BY <1>6 DEF Shutdown
  <2> HIDE DEF state
  <2> QED
    BY <1>2, <2>1, <2>2, SetKeeps
<1>7. CASE Drained(s)
  <2> DEFINE state == [server[s] EXCEPT !.phase = "closing"]
  <2>1. /\ state \in Server /\ state.phase = "closing" /\ state.late = server[s].late
        /\ state.listener = server[s].listener
    BY <1>1 DEF Server
  <2>2. Set(s, state) /\ host' = host
    BY <1>7 DEF Drained
  <2>3. server[s].phase = "draining" /\ (server[s].late \/ Hosted(s) = {})
    BY <1>7 DEF Drained, Phase
  <2> HIDE DEF state
  <2> QED
    BY <1>1, <1>2, <2>1, <2>2, <2>3, SetKeeps
<1> QED
  BY <1>3, <1>4, <1>5, <1>6, <1>7, EndsKeeps
  DEF Goroutine, Stop, ListenFails, Connect, Disconnected, Exit, Kill

LEMMA RequestKeeps ==
    ASSUME DrainSound,
           \/ \E s \in Servers, c \in Http, id \in UserIds : Accept(s, c, id)
           \/ \E c \in Http : Handle(c) \/ Abort(c)
    PROVE  DrainSound'
<1>1. ASSUME NEW s \in Servers, NEW c \in Http, NEW id \in UserIds, Accept(s, c, id)
      PROVE  DrainSound'
  <2>1. host' = [host EXCEPT ![c] = s] /\ server' = server /\ server[s].phase = "serving"
    BY <1>1 DEF Accept, DrainSound, Phase
  <2>2. \A t \in Servers : t # s => Hosted(t)' \subseteq Hosted(t)
    BY <2>1 DEF Hosted, DrainSound
  <2> QED
    BY <2>1, <2>2 DEF DrainSound, DrainsBeforeDisconnect, Phase
<1>2. ASSUME NEW c \in Http, Handle(c) \/ Abort(c)
      PROVE  DrainSound'
  <2>1. server' = server /\ host' \in {host, [host EXCEPT ![c] = None]}
    BY <1>2 DEF Handle, Abort, DrainSound
  <2>2. /\ host' \in [Http -> Servers \cup {None}]
        /\ \A t \in Servers : Hosted(t)' \subseteq Hosted(t)
    BY <2>1, LifecycleAssumption DEF Hosted, DrainSound
  <2> QED
    BY <2>1, <2>2 DEF DrainSound, DrainsBeforeDisconnect, Phase
<1> QED
  BY <1>1, <1>2

(* The database is not taken away from a request within the grace period,  *)
(* even when the signal came before the listener had started (main).       *)
THEOREM DrainsFirst == Spec => []DrainsBeforeDisconnect
<1>1. Init => DrainSound
  BY DEF Init, DrainSound, DrainsBeforeDisconnect, Phase, Down, Server
<1>2. ASSUME DrainSound, [Next]_vars
      PROVE  DrainSound'
  <2>1. CASE UNCHANGED <<server, host>>
    BY <1>2, <2>1 DEF DrainSound, DrainsBeforeDisconnect, Phase, Hosted
  <2>2. CASE \E s \in Servers : Start(s) \/ Goroutine(s) \/ Stop(s)
    BY <1>2, <2>2, StartKeeps, RunKeeps
  <2> QED
    BY <1>2, <2>1, <2>2, RequestKeeps DEF Next, vars, Gochactrl, Administrator
<1>3. DrainSound => DrainsBeforeDisconnect
  BY DEF DrainSound
<1> QED
  BY <1>1, <1>2, <1>3, PTL DEF Spec

-----------------------------------------------------------------------------
(* What Provisioning_proofs proves, of real servers *)

Proved == INSTANCE Provisioning_proofs

(* Proved and Store are the same specification over the same variables.    *)
LEMMA SameInit == Store!Init => Proved!Init
BY DEF Store!Init, Store!Processes, Store!Idle, Proved!Init, Proved!Processes, Proved!Idle

LEMMA SameNext == Store!Next => Proved!Next
BY DEF
      Store!Processes, Store!Idle, Store!Set, Store!Done, Store!SystemIds, Store!Keep,
      Store!InFlight, Store!NewAccount, Store!EmailFree, Store!Insert, Store!Register,
      Store!MirrorUser, Store!MirrorUserFails, Store!SaveChatCredentials, Store!EnsureSystemUser,
      Store!InitSystemUser, Store!CreateSystemUser, Store!CreateSystemUserFails,
      Store!RestoreSystemUser, Store!ServerStops, Store!SoftDelete, Store!Restore,
      Store!LookupToPurge, Store!DeleteUser, Store!Unlinked, Store!DeleteChatCredentials,
      Store!DeleteMirror, Store!DeleteMirrorFails, Store!AllUserIDs, Store!FindSystem,
      Store!FindSpared, Store!WipeUsers, Store!WipeCredentials, Store!Targets, Store!DeleteMirrors,
      Store!Crash, Store!Running, Store!Provision, Store!Start, Store!Remove, Store!Wipe,
      Store!Next, Store!vars, Store!stores,
      Proved!Processes, Proved!Idle, Proved!Set, Proved!Done, Proved!SystemIds, Proved!Keep,
      Proved!InFlight, Proved!NewAccount, Proved!EmailFree, Proved!Insert, Proved!Register,
      Proved!MirrorUser, Proved!MirrorUserFails, Proved!SaveChatCredentials,
      Proved!EnsureSystemUser, Proved!InitSystemUser, Proved!CreateSystemUser,
      Proved!CreateSystemUserFails, Proved!RestoreSystemUser, Proved!ServerStops,
      Proved!SoftDelete, Proved!Restore, Proved!LookupToPurge, Proved!DeleteUser, Proved!Unlinked,
      Proved!DeleteChatCredentials, Proved!DeleteMirror, Proved!DeleteMirrorFails,
      Proved!AllUserIDs, Proved!FindSystem, Proved!FindSpared, Proved!WipeUsers,
      Proved!WipeCredentials, Proved!Targets, Proved!DeleteMirrors, Proved!Crash, Proved!Running,
      Proved!Provision, Proved!Start, Proved!Remove, Proved!Wipe, Proved!Next, Proved!vars,
      Proved!stores

LEMMA RunsProvisioning == Spec => Proved!Spec
<1>1. UNCHANGED Store!vars => UNCHANGED Proved!vars
  BY DEF Store!vars, Proved!vars
<1>2. [Store!Next]_(Store!vars) => [Proved!Next]_(Proved!vars)
  BY <1>1, SameNext
<1> QED
  BY <1>2, SameInit, Implements, PTL DEF ImplementsProvisioning, Store!Spec, Proved!Spec

LEMMA StoreTypeCorrect == Spec => []Store!TypeOK
<1>1. Proved!TypeOK => Store!TypeOK
  BY DEF Proved!TypeOK, Proved!Account, Proved!Processes, Proved!Process, Proved!Idle,
         Store!TypeOK, Store!Account, Store!Processes, Store!Process, Store!Idle
<1>2. Spec => []Proved!TypeOK
  BY RunsProvisioning, LifecycleAssumption, Proved!TypeCorrect
<1> QED
  BY <1>1, <1>2, PTL

(* However servers start, are killed and meet init-system, there is one    *)
(* system account at most (EnsureSystemUser, main).                        *)
THEOREM ServersKeepOneSystemAccount == Spec => []Store!OneSystemAccount
<1>1. Proved!OneSystemAccount => Store!OneSystemAccount
  BY DEF Proved!OneSystemAccount, Proved!SystemIds, Proved!Cardinality,
         Store!OneSystemAccount, Store!SystemIds, Store!Cardinality
<1>2. Spec => []Proved!OneSystemAccount
  BY RunsProvisioning, LifecycleAssumption, Proved!OneSystemAccountEver
<1> QED
  BY <1>1, <1>2, PTL

(* A hard deletion that ran to its end has left nothing behind, whichever  *)
(* requests died with their servers meanwhile (HardDeleteUser).            *)
THEOREM PurgesLeaveNothingBehind == Spec => []Store!SettledPurgeLeavesNothing
<1>1. Proved!SettledPurgeLeavesNothing => Store!SettledPurgeLeavesNothing
  BY DEF Proved!SettledPurgeLeavesNothing, Store!SettledPurgeLeavesNothing
<1>2. Spec => []Proved!SettledPurgeLeavesNothing
  BY RunsProvisioning, LifecycleAssumption, Proved!SettledPurgesLeaveNothing
<1> QED
  BY <1>1, <1>2, PTL

(* No account loses its mirror while it exists, whatever servers and their *)
(* requests do (HardDeleteUser, EnsureSystemUser).                         *)
THEOREM MirrorsOutliveAccountsOfServers == Spec => Store!MirrorOutlivesAccount
<1>1. Proved!MirrorOutlivesAccount => Store!MirrorOutlivesAccount
  BY DEF Proved!MirrorOutlivesAccount, Proved!vars, Store!MirrorOutlivesAccount, Store!vars
<1>2. Spec => Proved!MirrorOutlivesAccount
  BY RunsProvisioning, LifecycleAssumption, Proved!MirrorsOutliveAccounts
<1> QED
  BY <1>1, <1>2

-----------------------------------------------------------------------------
(* The type invariant *)

(* What every process does in the accounts, and where it runs: main is     *)
(* past EnsureSystemUser while its process is ready, and a registration    *)
(* over HTTP is hosted while it is under way.                              *)
HostsMatch == \A c \in Http : host[c] = None <=> proc[c] = Idle

PhasesMatch ==
    \A s \in Servers :
        Phase(s, {"starting", "serving", "draining", "closing"})
            <=> proc[s] # Idle /\ proc[s].pc = "ready"

Past == {"starting", "serving", "draining", "closing"}

LifecycleType ==
    /\ config \in Configs
    /\ server \in [Servers -> Server]
    /\ host \in [Http -> Servers \cup {None}]
    /\ HostsMatch
    /\ PhasesMatch

LEMMA TypeParts == TypeOK <=> Store!TypeOK /\ LifecycleType
BY DEF TypeOK, LifecycleType, HostsMatch, PhasesMatch

LEMMA ProcAt ==
    ASSUME ProcIsFunction, NEW p \in Store!Processes, NEW q, Store!Set(p, q)
    PROVE  \A r \in Store!Processes : proc'[r] = IF r = p THEN q ELSE proc[r]
BY DEF ProcIsFunction, Store!Set

(* A step of one server, alone or with its process in the accounts.        *)
LEMMA ServerTypeStep ==
    ASSUME ProcIsFunction, LifecycleType, NEW s \in Servers, NEW state \in Server, NEW q,
           Set(s, state), Store!Set(s, q), UNCHANGED <<config, host>>,
           state.phase \in Past <=> q # Idle /\ q.pc = "ready"
    PROVE  LifecycleType'
<1>1. server' \in [Servers -> Server]
  BY DEF LifecycleType, Set
<1>2. \A t \in Servers : server'[t] = IF t = s THEN state ELSE server[t]
  BY DEF LifecycleType, Set
<1>3. \A r \in Store!Processes : proc'[r] = IF r = s THEN q ELSE proc[r]
  BY ProcAt DEF Store!Processes
<1>4. Servers \subseteq Store!Processes /\ Http \subseteq Store!Processes /\ s \notin Http
  BY LifecycleAssumption DEF Store!Processes
<1>5. HostsMatch'
  BY <1>3, <1>4 DEF LifecycleType, HostsMatch, Idle, Store!Idle
<1>6. PhasesMatch'
  <2> SUFFICES ASSUME NEW t \in Servers
               PROVE  server'[t].phase \in Past <=> proc'[t] # Idle /\ proc'[t].pc = "ready"
    BY DEF PhasesMatch, Phase, Past, Idle, Store!Idle
  <2> QED
    BY <1>2, <1>3, <1>4 DEF LifecycleType, PhasesMatch, Phase, Past
<1> QED
  BY <1>1, <1>5, <1>6 DEF LifecycleType

LEMMA ServerAloneStep ==
    ASSUME ProcIsFunction, LifecycleType, NEW s \in Servers, NEW state \in Server,
           Set(s, state), UNCHANGED <<proc, config, host>>,
           state.phase \in Past <=> server[s].phase \in Past
    PROVE  LifecycleType'
<1>1. Store!Set(s, proc[s])
  BY DEF ProcIsFunction, Store!Set, Store!Processes
<1>2. state.phase \in Past <=> proc[s] # Idle /\ proc[s].pc = "ready"
  BY DEF LifecycleType, PhasesMatch, Phase, Past
<1> QED
  BY <1>1, <1>2, ServerTypeStep

LEMMA EndsType ==
    ASSUME ProcIsFunction, LifecycleType, NEW s \in Servers, Ends(s)
    PROVE  LifecycleType'
<1>1. Down \in Server /\ Down.phase = "down"
  BY DEF Down, Server
<1>2. /\ server' \in [Servers -> Server]
      /\ \A t \in Servers : server'[t] = IF t = s THEN Down ELSE server[t]
  BY <1>1 DEF LifecycleType, Ends, Set
<1>3. /\ host' \in [Http -> Servers \cup {None}]
      /\ \A c \in Http : host'[c] = IF host[c] = s THEN None ELSE host[c]
  BY DEF LifecycleType, Ends
<1>4. \A r \in Store!Processes : proc'[r] = IF r \in {s} \cup Hosted(s) THEN Idle ELSE proc[r]
  BY DEF Ends, Store!Crash, Idle
<1>5. Servers \subseteq Store!Processes /\ Http \subseteq Store!Processes /\ Servers \cap Http = {}
  BY LifecycleAssumption DEF Store!Processes
<1>6. HostsMatch'
  BY <1>3, <1>4, <1>5, LifecycleAssumption DEF LifecycleType, HostsMatch, Hosted, Idle, Store!Idle
<1>7. PhasesMatch'
  <2> SUFFICES ASSUME NEW t \in Servers
               PROVE  server'[t].phase \in Past <=> proc'[t] # Idle /\ proc'[t].pc = "ready"
    BY DEF PhasesMatch, Phase, Past, Idle, Store!Idle
  <2>1. t \notin Hosted(s)
    BY <1>5 DEF Hosted
  <2> QED
    BY <1>1, <1>2, <1>4, <1>5, <2>1 DEF LifecycleType, PhasesMatch, Phase, Past
<1>8. config' = config
  BY DEF Ends
<1> QED
  BY <1>2, <1>3, <1>6, <1>7, <1>8 DEF LifecycleType

(* A step of a registration over HTTP, or of gochactrl.                    *)
LEMMA ClientTypeStep ==
    ASSUME ProcIsFunction, LifecycleType, NEW c \in Clients, NEW q, Store!Set(c, q),
           UNCHANGED <<config, server>>,
           host' \in [Http -> Servers \cup {None}],
           \A d \in Http : d # c => host'[d] = host[d],
           c \in Http => (host'[c] = None <=> q = Idle)
    PROVE  LifecycleType'
<1>1. \A r \in Store!Processes : proc'[r] = IF r = c THEN q ELSE proc[r]
  BY ProcAt DEF Store!Processes
<1>2. Servers \subseteq Store!Processes /\ Http \subseteq Store!Processes /\ c \notin Servers
  BY LifecycleAssumption DEF Store!Processes
<1>3. HostsMatch'
  BY <1>1, <1>2 DEF LifecycleType, HostsMatch, Idle, Store!Idle
<1>4. PhasesMatch'
  BY <1>1, <1>2 DEF LifecycleType, PhasesMatch, Phase, Idle, Store!Idle
<1> QED
  BY <1>3, <1>4 DEF LifecycleType

(* Calls change the state of the process that makes them, and no other's.  *)
LEMMA RegistrationSets ==
    ASSUME NEW p, NEW cut, Registration(p, cut)
    PROVE  \E q : Store!Set(p, q)
BY DEF Registration, Store!MirrorUser, Store!MirrorUserFails, Store!SaveChatCredentials

LEMMA CrashSets ==
    ASSUME ProcIsFunction, NEW p \in Store!Processes, Store!Crash({p})
    PROVE  Store!Set(p, Idle)
BY DEF ProcIsFunction, Store!Crash, Store!Set, Store!Processes, Idle

LEMMA EnsuringType ==
    ASSUME ProcIsFunction, LifecycleType, NEW s \in Servers, NEW q, Store!Set(s, q),
           Phase(s, {"ensuring"}), AfterEnsuring(s), UNCHANGED <<config, host>>
    PROVE  LifecycleType'
<1>1. server[s] \in Server /\ server[s].phase = "ensuring"
  BY DEF LifecycleType, Phase
<1>2. proc'[s] = q
  BY ProcAt DEF Store!Processes
<1> DEFINE starting == [server[s] EXCEPT !.phase = "starting", !.late = FALSE]
<1>3. starting \in Server /\ starting.phase = "starting"
  BY <1>1 DEF Server
<1>4. Down \in Server /\ Down.phase = "down"
  BY DEF Down, Server
<1>5. CASE q = Idle
  <2>1. Set(s, Down)
    BY <1>2, <1>5 DEF AfterEnsuring
  <2> QED
    BY <1>4, <1>5, <2>1, ServerTypeStep DEF Past
<1>6. CASE q # Idle /\ q.pc = "ready"
  <2>1. Set(s, starting)
    BY <1>2, <1>6 DEF AfterEnsuring
  <2> HIDE DEF starting
  <2> QED
    BY <1>3, <1>6, <2>1, ServerTypeStep DEF Past
<1>7. CASE q # Idle /\ q.pc # "ready"
  <2>1. Set(s, server[s])
    BY <1>2, <1>7 DEF AfterEnsuring
  <2> QED
    BY <1>1, <1>7, <2>1, ServerTypeStep DEF Past
<1> QED
  BY <1>5, <1>6, <1>7

LEMMA StartType ==
    ASSUME ProcIsFunction, LifecycleType, NEW s \in Servers, Start(s)
    PROVE  LifecycleType'
<1>1. server[s] \in Server
  BY DEF LifecycleType
<1>2. CASE Boot(s)
  <2> DEFINE state == [Down EXCEPT !.phase = "ensuring"]
  <2>1. state \in Server /\ state.phase = "ensuring"
    BY DEF Down, Server
  <2>2. Set(s, state) /\ UNCHANGED <<proc, config, host>> /\ server[s].phase = "down"
    BY <1>2 DEF Boot, accounts, Phase
  <2> HIDE DEF state
  <2> QED
    BY <2>1, <2>2, ServerAloneStep DEF Past
<1>3. CASE LookupSystem(s) \/ RestoreSystem(s)
  <2>1. \E q : Store!Set(s, q)
    BY <1>3 DEF LookupSystem, RestoreSystem, Store!EnsureSystemUser, Store!RestoreSystemUser
  <2> QED
    BY <1>3, <2>1, EnsuringType DEF LookupSystem, RestoreSystem
<1>4. CASE CreateSystem(s)
  <2>1. \E q : Store!Set(s, q)
    BY <1>4, RegistrationSets
    DEF CreateSystem, Store!CreateSystemUserFails, Store!CreateSystemUser, Store!Insert
  <2> QED
    BY <1>4, <2>1, EnsuringType DEF CreateSystem
<1>5. ASSUME NEW xmpp \in {"off", "connecting"}, Phase(s, {"starting"}), Serve(s, xmpp)
      PROVE  LifecycleType'
  <2> DEFINE state ==
        [server[s] EXCEPT !.phase = "serving", !.listener = "due", !.xmpp = xmpp]
  <2>1. state \in Server /\ state.phase = "serving"
    BY <1>1 DEF Server
  <2>2. Set(s, state) /\ UNCHANGED <<proc, config, host>> /\ server[s].phase = "starting"
    BY <1>5 DEF Serve, accounts, Phase
  <2> HIDE DEF state
  <2> QED
    BY <2>1, <2>2, ServerAloneStep DEF Past
<1> QED
  BY <1>2, <1>3, <1>4, <1>5, EndsType DEF Start, GiveUp, ServeWithXmpp, ServeWithoutXmpp

LEMMA RunType ==
    ASSUME ProcIsFunction, LifecycleType, NEW s \in Servers, Goroutine(s) \/ Stop(s)
    PROVE  LifecycleType'
<1>1. server[s] \in Server
  BY DEF LifecycleType
<1>2. ASSUME NEW state \in Server, Set(s, state), UNCHANGED <<accounts, config, host>>,
             state.phase = server[s].phase \/ {state.phase, server[s].phase} \subseteq Past
      PROVE  LifecycleType'
  BY <1>2, ServerAloneStep DEF accounts
<1>3. CASE Listen(s)
  <2>1. \A l \in {"open", "closed"} : /\ [server[s] EXCEPT !.listener = l] \in Server
                                      /\ [server[s] EXCEPT !.listener = l].phase = server[s].phase
    BY <1>1 DEF Server
  <2> QED
    BY <1>2, <1>3, <2>1 DEF Listen
<1>4. CASE Connect(s) \/ Disconnected(s)
  <2>1. PICK xmpp \in {"off", "connecting", "online"} : Set(s, [server[s] EXCEPT !.xmpp = xmpp])
    BY <1>4 DEF Connect, Disconnected
  <2>2. /\ [server[s] EXCEPT !.xmpp = xmpp] \in Server
        /\ [server[s] EXCEPT !.xmpp = xmpp].phase = server[s].phase
    BY <1>1 DEF Server
  <2> QED
    BY <1>2, <1>4, <2>1, <2>2 DEF Connect, Disconnected
<1>5. CASE Signal(s) \/ Timeout(s)
  <2>1. /\ [server[s] EXCEPT !.told = TRUE] \in Server
        /\ [server[s] EXCEPT !.late = TRUE] \in Server
        /\ [server[s] EXCEPT !.told = TRUE].phase = server[s].phase
        /\ [server[s] EXCEPT !.late = TRUE].phase = server[s].phase
    BY <1>1 DEF Server
  <2> QED
    BY <1>2, <1>5, <2>1 DEF Signal, Timeout
<1>6. CASE Shutdown(s)
  <2> DEFINE state == [server[s] EXCEPT !.phase = "draining",
                         !.listener = IF @ = "open" THEN "closed" ELSE @]
  <2>1. state \in Server /\ state.phase = "draining"
    BY <1>1 DEF Server
  <2>2. Set(s, state) /\ UNCHANGED <<accounts, config, host>> /\ server[s].phase = "serving"
    BY <1>6 DEF Shutdown, Phase
  <2> HIDE DEF state
  <2> QED
    BY <1>2, <2>1, <2>2 DEF Past
<1>7. CASE Drained(s)
  <2> DEFINE state == [server[s] EXCEPT !.phase = "closing"]
  <2>1. state \in Server /\ state.phase = "closing"
    BY <1>1 DEF Server
  <2>2. Set(s, state) /\ UNCHANGED <<accounts, config, host>> /\ server[s].phase = "draining"
    BY <1>7 DEF Drained, Phase
  <2> HIDE DEF state
  <2> QED
    BY <1>2, <2>1, <2>2 DEF Past
<1> QED
  BY <1>3, <1>4, <1>5, <1>6, <1>7, EndsType DEF Goroutine, Stop, ListenFails, Exit, Kill

LEMMA ClientType ==
    ASSUME ProcIsFunction, LifecycleType,
           \/ \E s \in Servers, c \in Http, id \in UserIds : Accept(s, c, id)
           \/ \E c \in Http : Handle(c) \/ Abort(c)
           \/ \E c \in Clients \ Http : Gochactrl(c)
    PROVE  LifecycleType'
<1>1. /\ host \in [Http -> Servers \cup {None}]
      /\ Http \subseteq Clients /\ Clients \subseteq Store!Processes
  BY LifecycleAssumption DEF LifecycleType, Store!Processes
<1>2. ASSUME NEW s \in Servers, NEW c \in Http, NEW id \in UserIds, Accept(s, c, id)
      PROVE  LifecycleType'
  <2>1. Store!Set(c, [pc |-> "mirroring", id |-> id])
    BY <1>2 DEF Accept, Store!Register, Store!Insert
  <2>2. [pc |-> "mirroring", id |-> id] # Idle
    BY DEF Idle, Store!Idle
  <2>3. host' = [host EXCEPT ![c] = s] /\ UNCHANGED <<config, server>> /\ s # None
    BY <1>2, LifecycleAssumption DEF Accept
  <2> QED
    BY <1>1, <2>1, <2>2, <2>3, ClientTypeStep
<1>3. ASSUME NEW c \in Http, Handle(c)
      PROVE  LifecycleType'
  <2>1. PICK q : Store!Set(c, q)
    BY <1>3, RegistrationSets DEF Handle
  <2>2. proc'[c] = q
    BY <1>1, <2>1, ProcAt
  <2>3. /\ host' = [host EXCEPT ![c] = IF q = Idle THEN None ELSE @] /\ host[c] # None
        /\ UNCHANGED <<config, server>>
    BY <1>3, <2>2 DEF Handle
  <2> QED
    BY <1>1, <2>1, <2>3, ClientTypeStep
<1>4. ASSUME NEW c \in Http, Abort(c)
      PROVE  LifecycleType'
  <2>1. Store!Set(c, Idle)
    BY <1>1, <1>4, CrashSets DEF Abort
  <2>2. host' = [host EXCEPT ![c] = None] /\ UNCHANGED <<config, server>>
    BY <1>4 DEF Abort
  <2> QED
    BY <1>1, <2>1, <2>2, ClientTypeStep
<1>5. ASSUME NEW c \in Clients \ Http, Gochactrl(c)
      PROVE  LifecycleType'
  <2>1. PICK q : Store!Set(c, q)
    BY <1>1, <1>5, RegistrationSets, CrashSets
    DEF Gochactrl, Store!InitSystemUser, Store!Remove, Store!DeleteUser, Store!LookupToPurge,
        Store!DeleteChatCredentials, Store!DeleteMirror, Store!DeleteMirrorFails,
        Store!CreateSystemUserFails, Store!CreateSystemUser, Store!Register, Store!Insert
  <2>2. UNCHANGED <<config, server, host>>
    BY <1>5 DEF Gochactrl
  <2> QED
    BY <1>1, <2>1, <2>2, ClientTypeStep
<1> QED
  BY <1>2, <1>3, <1>4, <1>5

(* Every process is where main, or the request that runs it, says.         *)
THEOREM TypeCorrect == Spec => []TypeOK
<1>1. Init => LifecycleType /\ ProcIsFunction
  <2> SUFFICES ASSUME Init PROVE LifecycleType /\ ProcIsFunction
    OBVIOUS
  <2>1. proc = [p \in Store!Processes |-> Idle]
    BY DEF Init, Store!Init, Idle
  <2>2. Down \in Server /\ Down.phase = "down"
    BY DEF Down, Server
  <2>3. HostsMatch /\ PhasesMatch
    BY <2>1, <2>2, LifecycleAssumption DEF Init, HostsMatch, PhasesMatch, Phase, Store!Processes
  <2> QED
    BY <2>1, <2>2, <2>3 DEF Init, LifecycleType, ProcIsFunction
<1>2. ASSUME LifecycleType, ProcIsFunction, [Next]_vars
      PROVE  LifecycleType' /\ ProcIsFunction'
  <2>1. ProcIsFunction'
    BY <1>2, StepIsStep, ProcStaysFunction
  <2>2. ASSUME UNCHANGED <<proc, config, server, host>>
        PROVE  LifecycleType'
    BY <1>2, <2>2 DEF LifecycleType, HostsMatch, PhasesMatch, Phase, Idle, Store!Idle
  <2>3. ASSUME NEW s \in Servers, Start(s) \/ Goroutine(s) \/ Stop(s)
        PROVE  LifecycleType'
    BY <1>2, <2>3, StartType, RunType
  <2>4. ASSUME NEW id \in UserIds, Administrator(id)
        PROVE  UNCHANGED <<proc, config, server, host>>
    BY <2>4 DEF Administrator, Store!SoftDelete, Store!Restore
  <2>5. ASSUME \/ \E s \in Servers, c \in Http, id \in UserIds : Accept(s, c, id)
               \/ \E c \in Http : Handle(c) \/ Abort(c)
               \/ \E c \in Clients \ Http : Gochactrl(c)
        PROVE  LifecycleType'
    BY <1>2, <2>5, ClientType
  <2>6. vars' = vars => UNCHANGED <<proc, config, server, host>>
    BY DEF vars, accounts
  <2> QED
    BY <1>2, <2>1, <2>2, <2>3, <2>4, <2>5, <2>6 DEF Next
<1> QED
  BY <1>1, <1>2, StoreTypeCorrect, TypeParts, PTL DEF Spec

=============================================================================
