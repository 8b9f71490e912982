--------------------------- MODULE ServerLifecycle ---------------------------
(***************************************************************************)
(* The life of a server process (main.go, internal/xmppclient): the start  *)
(* with its budget of five seconds, the system account, the XMPP           *)
(* connection, the listener with the registrations it serves, and the      *)
(* orderly stop.  It is composed with Provisioning, whose accounts the     *)
(* servers, the requests they serve and gochactrl share.                   *)
(*                                                                         *)
(* Every error before the server listens ends the process; a signal before *)
(* NotifyContext, an exit of the listener goroutine and a kill look the    *)
(* same from outside.  Of the libraries (external): Shutdown closes the    *)
(* listener and waits for the requests, a listener that comes after it     *)
(* closes at once; the XMPP client keeps trying or gives up for good.      *)
(***************************************************************************)
EXTENDS Naturals, FiniteSets

CONSTANTS
    UserIds, Servers, Clients,  \* see Provisioning
    Http,                       \* registrations over HTTP; other clients are gochactrl
    None,                       \* no server
    Configs                     \* what main may make of the configuration

(* mirroring: the platform's key and secret are set (chatBackend); xmpp:   *)
(* the websocket url is set and has a host.                                *)
Config == [mirroring : BOOLEAN, xmpp : BOOLEAN]

ASSUME LifecycleAssumption ==
    /\ Servers \cap Clients = {}
    /\ Http \subseteq Clients
    /\ None \notin Servers
    /\ Configs \subseteq Config

VARIABLES
    docs, issued, creds, mirror, erased, proc,  \* see Provisioning
    config,     \* one of Configs, for servers and gochactrl
    server,     \* main and its goroutines, for each server
    host        \* the server a registration runs in

accounts == <<docs, issued, creds, mirror, erased, proc>>
vars == <<accounts, config, server, host>>

Store == INSTANCE Provisioning

Idle == Store!Idle

-----------------------------------------------------------------------------
(* Servers *)

(* late: the deadline of the phase has passed, five seconds for the start, *)
(* ten for the stop; told: the signal has arrived (ctx is done).           *)
Server ==
    [phase : {"down", "ensuring", "starting", "serving", "draining", "closing"},
     late : BOOLEAN, told : BOOLEAN,
     listener : {"none", "due", "open", "closed"},
     xmpp : {"off", "connecting", "online"}]

Down == [phase |-> "down", late |-> FALSE, told |-> FALSE, listener |-> "none", xmpp |-> "off"]

Phase(s, phases) == server[s].phase \in phases

Set(s, state) == server' = [server EXCEPT ![s] = state]

Hosted(s) == {c \in Http : host[c] = s}

(* The process ends, and with it what ran in it. *)
Ends(s) ==
    /\ Set(s, Down)
    /\ Store!Crash({s} \cup Hosted(s))
    /\ host' = [c \in Http |-> IF host[c] = s THEN None ELSE host[c]]
    /\ UNCHANGED config

-----------------------------------------------------------------------------
(* The start *)

(* Configuration, connection, ping and indexes leave nothing behind. *)
Boot(s) ==
    /\ Phase(s, {"down"})
    /\ Set(s, [Down EXCEPT !.phase = "ensuring"])
    /\ UNCHANGED <<accounts, config, host>>

(* A registration goes on; with its context cut, calls only fail. *)
Registration(p, cut) ==
    \/ ~cut /\ config.mirroring /\ Store!MirrorUser(p)
    \/ Store!MirrorUserFails(p) /\ (config.mirroring \/ mirror' = mirror)
    \/ Store!SaveChatCredentials(p) /\ (~cut \/ creds' = creds)

(* What main does when a step of EnsureSystemUser is over: an error, which *)
(* leaves no process, is os.Exit(1).                                       *)
MutantAfterEnsuring(s) ==
    Set(s, IF proc'[s] = Idle \/ proc'[s].pc = "ready"
           THEN [server[s] EXCEPT !.phase = "starting", !.late = FALSE]
           ELSE server[s])

AfterEnsuring(s) ==
    Set(s, CASE proc'[s] = Idle -> Down
             [] proc'[s] # Idle /\ proc'[s].pc = "ready" ->
                   [server[s] EXCEPT !.phase = "starting", !.late = FALSE]
             [] OTHER -> server[s])

LookupSystem(s) ==
    /\ Phase(s, {"ensuring"}) /\ ~server[s].late
    /\ Store!EnsureSystemUser(s)
    /\ AfterEnsuring(s)
    /\ UNCHANGED <<config, host>>

RestoreSystem(s) ==
    /\ Phase(s, {"ensuring"}) /\ ~server[s].late
    /\ Store!RestoreSystemUser(s)
    /\ AfterEnsuring(s)
    /\ UNCHANGED <<config, host>>

MutantCreateSystem(s) ==
    /\ Phase(s, {"ensuring"})
    /\ \/ Registration(s, server[s].late)
       \/ /\ proc[s].pc = "creating" /\ ~Store!EmailFree(TRUE)
          /\ \E id \in Store!SystemIds : Store!Set(s, [pc |-> "ready", id |-> id])
          /\ UNCHANGED <<docs, issued, creds, mirror, erased>>
       \/ /\ ~server[s].late
          /\ \E id \in UserIds : Store!CreateSystemUser(s, id)
    /\ AfterEnsuring(s)
    /\ UNCHANGED <<config, host>>

CreateSystem(s) ==
    /\ Phase(s, {"ensuring"})
    /\ \/ Registration(s, server[s].late)
       \/ /\ ~server[s].late
          /\ Store!CreateSystemUserFails(s) \/ \E id \in UserIds : Store!CreateSystemUser(s, id)
    /\ AfterEnsuring(s)
    /\ UNCHANGED <<config, host>>

(* mongoCtx is over: the next call to the database fails, os.Exit(1). *)
GiveUp(s) ==
    /\ Phase(s, {"ensuring"}) /\ server[s].late
    /\ proc[s].pc \notin {"mirroring", "saving"}
    /\ Ends(s)

Timeout(s) ==
    /\ Phase(s, {"ensuring", "draining"}) /\ ~server[s].late
    /\ Set(s, [server[s] EXCEPT !.late = TRUE])
    /\ UNCHANGED <<accounts, config, host>>

(* NotifyContext has been called: a signal cancels ctx, a second one is    *)
(* swallowed.                                                              *)
Signal(s) ==
    /\ Phase(s, {"starting", "serving"}) /\ ~server[s].told
    /\ Set(s, [server[s] EXCEPT !.told = TRUE])
    /\ UNCHANGED <<accounts, config, host>>

(* startSystemXMPP, then the listener goroutine is started.  Without       *)
(* credentials, or when they could not be read, it goes without XMPP.      *)
Serve(s, xmpp) ==
    /\ Set(s, [server[s] EXCEPT !.phase = "serving", !.listener = "due", !.xmpp = xmpp])
    /\ UNCHANGED <<accounts, config, host>>

ServeWithXmpp(s) ==
    /\ Phase(s, {"starting"}) /\ ~server[s].told
    /\ config.xmpp /\ proc[s].id \in creds
    /\ Serve(s, "connecting")

ServeWithoutXmpp(s) == Phase(s, {"starting"}) /\ Serve(s, "off")

-----------------------------------------------------------------------------
(* Goroutines *)

(* ListenAndServe; after Shutdown it returns ErrServerClosed at once. *)
MutantListen(s) ==
    /\ server[s].listener = "due"
    /\ Set(s, [server[s] EXCEPT !.listener = "open"])
    /\ UNCHANGED <<accounts, config, host>>

Listen(s) ==
    /\ server[s].listener = "due"
    /\ Set(s, [server[s] EXCEPT !.listener = IF Phase(s, {"serving"}) THEN "open" ELSE "closed"])
    /\ UNCHANGED <<accounts, config, host>>

(* Any other error is os.Exit(1): no shutdown, no deferred call. *)
ListenFails(s) ==
    /\ Phase(s, {"serving"}) /\ server[s].listener \in {"due", "open"}
    /\ Ends(s)

Connect(s) ==
    /\ server[s].xmpp = "connecting"
    /\ Set(s, [server[s] EXCEPT !.xmpp = "online"])
    /\ UNCHANGED <<accounts, config, host>>

(* The connection drops, or the client gives up and Run returns. *)
Disconnected(s) ==
    /\ server[s].xmpp # "off"
    /\ \E xmpp \in {"connecting", "off"} :
          /\ xmpp # server[s].xmpp
          /\ Set(s, [server[s] EXCEPT !.xmpp = xmpp])
    /\ UNCHANGED <<accounts, config, host>>

-----------------------------------------------------------------------------
(* Registrations over HTTP *)

Accept(s, c, id) ==
    /\ server[s].listener = "open"
    /\ Store!Register(c, id)
    /\ host' = [host EXCEPT ![c] = s]
    /\ UNCHANGED <<config, server>>

(* Its calls work until main disconnects the database. *)
Handle(c) ==
    /\ host[c] # None
    /\ Registration(c, Phase(host[c], {"closing"}))
    /\ host' = [host EXCEPT ![c] = IF proc'[c] = Idle THEN None ELSE @]
    /\ UNCHANGED <<config, server>>

(* The client is gone, or middleware.Timeout has cancelled the context. *)
Abort(c) ==
    /\ host[c] # None
    /\ Store!Crash({c})
    /\ host' = [host EXCEPT ![c] = None]
    /\ UNCHANGED <<config, server>>

-----------------------------------------------------------------------------
(* The stop *)

Shutdown(s) ==
    /\ Phase(s, {"serving"}) /\ server[s].told
    /\ Set(s, [server[s] EXCEPT !.phase = "draining",
                                !.listener = IF @ = "open" THEN "closed" ELSE @])
    /\ UNCHANGED <<accounts, config, host>>

(* Shutdown returns: nothing runs any more, or shutdownCtx is over. *)
MutantDrained(s) ==
    /\ Phase(s, {"draining"}) /\ Hosted(s) = {}
    /\ Set(s, [server[s] EXCEPT !.phase = "closing"])
    /\ UNCHANGED <<accounts, config, host>>

Drained(s) ==
    /\ Phase(s, {"draining"}) /\ (server[s].late \/ Hosted(s) = {})
    /\ Set(s, [server[s] EXCEPT !.phase = "closing"])
    /\ UNCHANGED <<accounts, config, host>>

(* The deferred Disconnect, and main returns. *)
Exit(s) == Phase(s, {"closing"}) /\ Ends(s)

(* A signal that finds no handler, a panic, the machine. *)
Kill(s) == ~Phase(s, {"down"}) /\ Ends(s)

-----------------------------------------------------------------------------

Init ==
    /\ Store!Init
    /\ config \in Configs
    /\ server = [s \in Servers |-> Down]
    /\ host = [c \in Http |-> None]

Start(s) ==
    \/ Boot(s) \/ LookupSystem(s) \/ RestoreSystem(s) \/ CreateSystem(s) \/ GiveUp(s)
    \/ ServeWithXmpp(s) \/ ServeWithoutXmpp(s)

Goroutine(s) == Listen(s) \/ ListenFails(s) \/ Connect(s) \/ Disconnected(s)

Stop(s) == Signal(s) \/ Shutdown(s) \/ Timeout(s) \/ Drained(s) \/ Exit(s) \/ Kill(s)

(* delete-all is left to Provisioning: to a server it is deletions. *)
Gochactrl(c) ==
    /\ \/ Registration(c, FALSE) \/ Store!InitSystemUser(c)
       \/ Store!Remove(c) \/ Store!CreateSystemUserFails(c)
       \/ \E id \in UserIds : Store!Register(c, id) \/ Store!CreateSystemUser(c, id)
       \/ proc[c] # Idle /\ Store!Crash({c})
    /\ UNCHANGED <<config, server, host>>

Administrator(id) ==
    /\ Store!SoftDelete(id) \/ Store!Restore(id)
    /\ UNCHANGED <<config, server, host>>

Next ==
    \/ \E s \in Servers : Start(s) \/ Goroutine(s) \/ Stop(s)
    \/ \E s \in Servers, c \in Http, id \in UserIds : Accept(s, c, id)
    \/ \E c \in Http : Handle(c) \/ Abort(c)
    \/ \E c \in Clients \ Http : Gochactrl(c)
    \/ \E id \in UserIds : Administrator(id)

(* A server that is down is started again, what main waits for comes, and  *)
(* no mishap hits every start at the same place.  Nothing is assumed of    *)
(* requests, signals, administrators or the platform.                      *)
Fairness ==
    \A s \in Servers :
        /\ WF_vars(Boot(s)) /\ WF_vars(CreateSystem(s)) /\ WF_vars(GiveUp(s))
        /\ WF_vars(ServeWithoutXmpp(s))
        /\ WF_vars(Shutdown(s)) /\ WF_vars(Timeout(s)) /\ WF_vars(Drained(s)) /\ WF_vars(Exit(s))
        /\ SF_vars(LookupSystem(s)) /\ SF_vars(RestoreSystem(s))
        /\ SF_vars(ServeWithXmpp(s)) /\ SF_vars(Connect(s))

Spec == Init /\ [][Next]_vars /\ Fairness

-----------------------------------------------------------------------------
(* Properties *)

TypeOK ==
    /\ Store!TypeOK
    /\ config \in Configs
    /\ server \in [Servers -> Server]
    /\ host \in [Http -> Servers \cup {None}]
    /\ \A c \in Http : host[c] = None <=> proc[c] = Idle
    /\ \A s \in Servers : Phase(s, {"starting", "serving", "draining", "closing"}) <=> proc[s] # Idle /\ proc[s].pc = "ready"

(* The database is not taken away from a request: when main disconnects,   *)
(* all that were accepted are over, or have used up the grace period, even *)
(* when the signal came before the listener goroutine had run (main,       *)
(* deferred Disconnect).                                                   *)
DrainsBeforeDisconnect ==
    \A s \in Servers : Phase(s, {"closing"}) => server[s].late \/ Hosted(s) = {}

(* A server that was told to stop does, whatever its requests and its XMPP *)
(* goroutine are doing (main, shutdownTimeout).                            *)
StopsWhenTold ==
    \A s \in Servers : server[s].told ~> Phase(s, {"down"})

(* A soft-deleted system account is back, or gone for good, some time      *)
(* after a server is stopped: its next start restores the account, or a    *)
(* later one when that start is cut short (EnsureSystemUser).              *)
SystemComesBack ==
    \A s \in Servers, id \in UserIds :
        (server[s].told /\ id \in DOMAIN docs /\ docs[id].system /\ docs[id].deleted)
        ~> (id \notin DOMAIN docs \/ ~docs[id].deleted)

(* With real processes around them the steps of Register, EnsureSystemUser *)
(* and gochactrl are steps of Provisioning, so its invariants hold here.   *)
ImplementsProvisioning == Store!Spec

-----------------------------------------------------------------------------
(* What the README says, and the code does not do: "The system account     *)
(* then connects to the Ethora XMPP server ... and stays connected" - a    *)
(* server that is started and serves again and again, for a system account *)
(* that is on the platform, is connected again and again.                  *)
SystemOnPlatform ==
    \E id \in DOMAIN docs \cap mirror : docs[id].system /\ ~docs[id].deleted

SystemConnects ==
    \A s \in Servers :
        /\ config.mirroring /\ config.xmpp
        /\ []<>Phase(s, {"starting"}) /\ []<>Phase(s, {"serving"})
        /\ <>[]SystemOnPlatform
        => []<>(server[s].xmpp = "online")

=============================================================================
