---------------------------- MODULE Provisioning ----------------------------
(***************************************************************************)
(* One account in three places: the document in the users collection, the  *)
(* XMPP credentials in their own collection, and the mirrored account on   *)
(* the chat platform (Ethora).  Nothing spans the three: registration,     *)
(* hard deletion and delete-all visit them one after the other, and so     *)
(* does the upkeep of the system account by a starting server and by       *)
(* gochactrl init-system (internal/users/service.go and storage.go).       *)
(*                                                                         *)
(* Each database or platform call is an action.  A call to the platform    *)
(* may fail, with or without effect, and any process may stop between two  *)
(* calls: a crash, a cancelled context, gochactrl's five-second timeout.   *)
(* Mirroring disabled is a platform whose calls all fail without effect.   *)
(***************************************************************************)
EXTENDS Naturals, FiniteSets

CONSTANTS
    UserIds,        \* document ids; MongoDB never generates one twice
    Servers,        \* server processes, starting up
    Clients         \* HTTP registrations and gochactrl invocations

ASSUME ProcessesAssumption == Servers \cap Clients = {}

VARIABLES
    docs,           \* the users collection: id -> document
    issued,         \* ids handed out so far
    creds,          \* ids with a document in the chat credentials collection
    mirror,         \* ids with an account on the chat platform
    erased,         \* hard deletions that ran to their end, for properties only
    proc            \* what each process has read so far and does next

stores == <<docs, creds, mirror>>
vars == <<docs, issued, creds, mirror, erased, proc>>

Processes == Servers \cup Clients

-----------------------------------------------------------------------------
(* Documents and process records *)

Account == [system : BOOLEAN, deleted : BOOLEAN]

Idle == [pc |-> "idle"]

Process ==
    {Idle}
    \cup [pc : {"creating"}]
    \cup [pc : {"restoring", "ready", "mirroring", "saving"}, id : UserIds]
    \cup [pc : {"purging", "unlinking", "unmirroring"}, id : UserIds, settled : BOOLEAN]
    \cup [pc : {"listed"}, ids : SUBSET UserIds]
    \cup [pc : {"excluding"}, ids : SUBSET UserIds, sys : SUBSET UserIds]
    \cup [pc : {"wiping users", "wiping credentials", "unmirroring all"},
          ids : SUBSET UserIds, sys : SUBSET UserIds, spared : SUBSET UserIds]

Set(p, state) == proc' = [proc EXCEPT ![p] = state]

(* A server that has its system account serves; a client is done. *)
MutantDone(p, id) == [pc |-> "ready", id |-> id]

Done(p, id) == IF p \in Servers THEN [pc |-> "ready", id |-> id] ELSE Idle

(* AnyUserByEmail(SystemEmail): soft-deleted counts as found. *)
MutantSystemIds == {id \in DOMAIN docs : docs[id].system /\ ~docs[id].deleted}

SystemIds == {id \in DOMAIN docs : docs[id].system}

Keep(ids) == [id \in DOMAIN docs \cap ids |-> docs[id]]

(* Some registration of the account has not finished. *)
InFlight(id) == \E p \in Processes : proc[p].pc \in {"mirroring", "saving"} /\ proc[p].id = id

-----------------------------------------------------------------------------
(* Register: insert, mirror, store the credentials *)

NewAccount(system) == [system |-> system, deleted |-> FALSE]

(* The unique index on email is what keeps two starters apart. *)
MutantEmailFree(system) == TRUE

EmailFree(system) == system => SystemIds = {}

Insert(p, id, system) ==
    /\ id \notin issued
    /\ EmailFree(system)
    /\ issued' = issued \cup {id}
    /\ docs' = [i \in DOMAIN docs \cup {id} |-> IF i = id THEN NewAccount(system) ELSE docs[i]]
    /\ Set(p, [pc |-> "mirroring", id |-> id])
    /\ UNCHANGED <<creds, mirror, erased>>

Register(p, id) == proc[p] = Idle /\ Insert(p, id, FALSE)

(* The platform made the account; it may report no credentials for it. *)
MirrorUser(p) ==
    /\ proc[p].pc = "mirroring"
    /\ mirror' = mirror \cup {proc[p].id}
    /\ \/ Set(p, [pc |-> "saving", id |-> proc[p].id])
       \/ Set(p, Done(p, proc[p].id))
    /\ UNCHANGED <<docs, issued, creds, erased>>

(* An error, or an answer that was lost: registration succeeds regardless. *)
MirrorUserFails(p) ==
    /\ proc[p].pc = "mirroring"
    /\ mirror' \in {mirror, mirror \cup {proc[p].id}}
    /\ Set(p, Done(p, proc[p].id))
    /\ UNCHANGED <<docs, issued, creds, erased>>

(* An upsert; it may fail, and registration succeeds regardless. *)
SaveChatCredentials(p) ==
    /\ proc[p].pc = "saving"
    /\ creds' \in {creds, creds \cup {proc[p].id}}
    /\ Set(p, Done(p, proc[p].id))
    /\ UNCHANGED <<docs, issued, mirror, erased>>

-----------------------------------------------------------------------------
(* The system account: EnsureSystemUser at startup, InitSystemUser *)

(* What a starting server does about the account it has looked up. *)
EnsureSystemUser(p) ==
    /\ proc[p] = Idle
    /\ IF SystemIds = {} THEN Set(p, [pc |-> "creating"])
       ELSE \E id \in SystemIds :
               Set(p, [pc |-> IF docs[id].deleted THEN "restoring" ELSE "ready", id |-> id])
    /\ UNCHANGED <<stores, issued, erased>>

(* init-system reports ErrSystemExists and stops when it finds one. *)
InitSystemUser(p) ==
    /\ proc[p] = Idle
    /\ SystemIds = {}
    /\ Set(p, [pc |-> "creating"])
    /\ UNCHANGED <<stores, issued, erased>>

CreateSystemUser(p, id) == proc[p].pc = "creating" /\ Insert(p, id, TRUE)

(* Somebody else made the account since the lookup: ErrEmailTaken. *)
CreateSystemUserFails(p) ==
    /\ proc[p].pc = "creating"
    /\ ~EmailFree(TRUE)
    /\ Set(p, Idle)
    /\ UNCHANGED <<stores, issued, erased>>

(* Not found, or not deleted any more, stops the server. *)
RestoreSystemUser(p) ==
    /\ proc[p].pc = "restoring"
    /\ LET id == proc[p].id
       IN  IF id \in DOMAIN docs /\ docs[id].deleted
           THEN docs' = [docs EXCEPT ![id].deleted = FALSE] /\ Set(p, [pc |-> "ready", id |-> id])
           ELSE docs' = docs /\ Set(p, Idle)
    /\ UNCHANGED <<issued, creds, mirror, erased>>

ServerStops(p) ==
    /\ proc[p].pc = "ready"
    /\ Set(p, Idle)
    /\ UNCHANGED <<stores, issued, erased>>

-----------------------------------------------------------------------------
(* Administrators' soft delete and restore: one write, nothing else. *)
SoftDelete(id) ==
    /\ id \in DOMAIN docs /\ ~docs[id].deleted
    /\ docs' = [docs EXCEPT ![id].deleted = TRUE]
    /\ UNCHANGED <<issued, creds, mirror, erased, proc>>

Restore(id) ==
    /\ id \in DOMAIN docs /\ docs[id].deleted
    /\ docs' = [docs EXCEPT ![id].deleted = FALSE]
    /\ UNCHANGED <<issued, creds, mirror, erased, proc>>

-----------------------------------------------------------------------------
(* gochactrl delete --hard: document, credentials, mirror *)

LookupToPurge(p, id) ==
    /\ proc[p] = Idle
    /\ id \in DOMAIN docs
    /\ Set(p, [pc |-> "purging", id |-> id, settled |-> ~InFlight(id)])
    /\ UNCHANGED <<stores, issued, erased>>

(* DeletedCount 0 ends the command: somebody else deleted the document. *)
DeleteUser(p) ==
    /\ proc[p].pc = "purging"
    /\ docs' = Keep(UserIds \ {proc[p].id})
    /\ Set(p, IF proc[p].id \in DOMAIN docs THEN [proc[p] EXCEPT !.pc = "unlinking"] ELSE Idle)
    /\ UNCHANGED <<issued, creds, mirror, erased>>

MutantUnlinked(id) == creds

Unlinked(id) == creds \ {id}

DeleteChatCredentials(p) ==
    /\ proc[p].pc = "unlinking"
    /\ creds' = Unlinked(proc[p].id)
    /\ Set(p, [proc[p] EXCEPT !.pc = "unmirroring"])
    /\ UNCHANGED <<docs, issued, mirror, erased>>

DeleteMirror(p) ==
    /\ proc[p].pc = "unmirroring"
    /\ mirror' = mirror \ {proc[p].id}
    /\ erased' = erased \cup {[id |-> proc[p].id, settled |-> proc[p].settled]}
    /\ Set(p, Idle)
    /\ UNCHANGED <<docs, issued, creds>>

(* Logged and forgotten. *)
DeleteMirrorFails(p) ==
    /\ proc[p].pc = "unmirroring"
    /\ mirror' \in {mirror, mirror \ {proc[p].id}}
    /\ Set(p, Idle)
    /\ UNCHANGED <<docs, issued, creds, erased>>

-----------------------------------------------------------------------------
(* gochactrl delete-all *)

AllUserIDs(p) ==
    /\ proc[p] = Idle
    /\ Set(p, [pc |-> "listed", ids |-> DOMAIN docs])
    /\ UNCHANGED <<stores, issued, erased>>

(* The service looks the system account up for the mirrors' sake ... *)
FindSystem(p) ==
    /\ proc[p].pc = "listed"
    /\ Set(p, [pc |-> "excluding", ids |-> proc[p].ids, sys |-> SystemIds])
    /\ UNCHANGED <<stores, issued, erased>>

(* ... and Storage.DeleteAllUsers does so again for the two collections. *)
FindSpared(p) ==
    /\ proc[p].pc = "excluding"
    /\ Set(p, [pc |-> "wiping users", ids |-> proc[p].ids, sys |-> proc[p].sys,
               spared |-> SystemIds])
    /\ UNCHANGED <<stores, issued, erased>>

WipeUsers(p) ==
    /\ proc[p].pc = "wiping users"
    /\ docs' = Keep(proc[p].spared)
    /\ Set(p, [proc[p] EXCEPT !.pc = "wiping credentials"])
    /\ UNCHANGED <<issued, creds, mirror, erased>>

WipeCredentials(p) ==
    /\ proc[p].pc = "wiping credentials"
    /\ creds' = creds \cap proc[p].spared
    /\ Set(p, [proc[p] EXCEPT !.pc = "unmirroring all"])
    /\ UNCHANGED <<docs, issued, mirror, erased>>

MutantTargets(ids, sys) == ids

Targets(ids, sys) == ids \ sys

(* The platform may delete some of the accounts only. *)
DeleteMirrors(p) ==
    /\ proc[p].pc = "unmirroring all"
    /\ \E gone \in SUBSET Targets(proc[p].ids, proc[p].sys) : mirror' = mirror \ gone
    /\ Set(p, Idle)
    /\ UNCHANGED <<docs, issued, creds, erased>>

-----------------------------------------------------------------------------

(* Processes that are no more, a server together with the requests it      *)
(* serves: what they were to do next is never done.                        *)
Crash(ps) ==
    /\ proc' = [p \in Processes |-> IF p \in ps THEN Idle ELSE proc[p]]
    /\ UNCHANGED <<stores, issued, erased>>

Running == {p \in Processes : proc[p] # Idle}

Init ==
    /\ docs = [i \in {} |-> i]
    /\ issued = {} /\ creds = {} /\ mirror = {} /\ erased = {}
    /\ proc = [p \in Processes |-> Idle]

Provision(p) ==
    \/ MirrorUser(p) \/ MirrorUserFails(p) \/ SaveChatCredentials(p)
    \/ CreateSystemUserFails(p)
    \/ \E id \in UserIds : CreateSystemUser(p, id)

Start(p) == EnsureSystemUser(p) \/ RestoreSystemUser(p) \/ ServerStops(p)

Remove(p) ==
    \/ DeleteUser(p) \/ DeleteChatCredentials(p) \/ DeleteMirror(p) \/ DeleteMirrorFails(p)
    \/ \E id \in UserIds : LookupToPurge(p, id)

Wipe(p) ==
    \/ AllUserIDs(p) \/ FindSystem(p) \/ FindSpared(p)
    \/ WipeUsers(p) \/ WipeCredentials(p) \/ DeleteMirrors(p)

Next ==
    \/ \E p \in Servers : Start(p) \/ Provision(p)
    \/ \E p \in Clients :
          \/ Provision(p) \/ Remove(p) \/ Wipe(p) \/ InitSystemUser(p)
          \/ \E id \in UserIds : Register(p, id)
    \/ \E ps \in (SUBSET Running) \ {{}} : Crash(ps)
    \/ \E id \in UserIds : SoftDelete(id) \/ Restore(id)

Spec == Init /\ [][Next]_vars

-----------------------------------------------------------------------------
(* Properties *)

TypeOK ==
    /\ issued \subseteq UserIds
    /\ DOMAIN docs \cup creds \cup mirror \subseteq issued
    /\ docs \in [DOMAIN docs -> Account]
    /\ erased \subseteq [id : UserIds, settled : BOOLEAN]
    /\ proc \in [Processes -> Process]
    /\ \A p \in Clients : proc[p].pc \notin {"restoring", "ready"}

(* Servers and init-system that start at once never leave two system       *)
(* accounts (EnsureSystemUser, InitSystemUser, createSystemUser).          *)
OneSystemAccount == Cardinality(SystemIds) <= 1

(* A hard deletion that ran to its end leaves neither credentials nor      *)
(* mirror behind, provided the account's registration was over when it     *)
(* began (HardDeleteUser, Storage.DeleteUser).                             *)
SettledPurgeLeavesNothing ==
    \A e \in erased : e.settled => e.id \notin DOMAIN docs \cup creds \cup mirror

(* No account loses its mirror while it exists, soft-deleted or alive; in  *)
(* particular delete-all never touches the mirror of a system account that *)
(* survives it, whatever is created and deleted between its two lookups    *)
(* (HardDeleteUser, DeleteAllUsers).                                       *)
MirrorOutlivesAccount ==
    [][\A id \in DOMAIN docs' : id \in mirror => id \in mirror']_vars

(* The system account that delete-all found when it looked first survives  *)
(* it together with its credentials, soft-deleted or alive                 *)
(* (Storage.DeleteAllUsers).                                               *)
SystemOutlivesWipe ==
    [][\A p \in Clients :
         proc[p].pc \in {"wiping users", "wiping credentials"} /\ proc'[p] # proc[p] =>
            \A id \in proc[p].sys \cap DOMAIN docs :
                id \in DOMAIN docs' /\ (id \in creds => id \in creds')]_vars

=============================================================================
