------------------------- MODULE Provisioning_proofs -------------------------
(***************************************************************************)
(* Proofs about Provisioning for every set of ids, servers and clients.    *)
(*                                                                         *)
(* A process acts on what it has read some calls ago, so the invariant     *)
(* says of every process what is still true of that (ProcessSound), and of *)
(* every finished purge what stays true (ErasedSound).  Both outlive the   *)
(* steps of the others because the stores only change as Advance says: an  *)
(* id that was issued is never inserted again, no document changes its     *)
(* system flag, no registration starts over, and credentials and mirrors   *)
(* come from registrations in flight only.                                 *)
(***************************************************************************)
EXTENDS Provisioning, FiniteSetTheorems, TLAPS

Registering == {"mirroring", "saving"}
Purging == {"purging", "unlinking", "unmirroring"}
Wiping == {"wiping users", "wiping credentials", "unmirroring all"}

ProcessSound(p) ==
    /\ proc[p].pc \in Registering \cup Purging => proc[p].id \in issued
    /\ proc[p].pc \in Purging => (proc[p].settled => ~InFlight(proc[p].id))
    /\ proc[p].pc \in {"unlinking", "unmirroring"} => proc[p].id \notin DOMAIN docs
    /\ proc[p].pc = "unmirroring" => (proc[p].settled => proc[p].id \notin creds)
    /\ proc[p].pc \in {"listed", "excluding"} \cup Wiping => proc[p].ids \subseteq issued
    /\ proc[p].pc \in {"excluding"} \cup Wiping =>
          /\ proc[p].sys \subseteq issued
          /\ \A id \in proc[p].sys \cap DOMAIN docs : docs[id].system
          /\ \A id \in proc[p].ids \cap DOMAIN docs : docs[id].system => id \in proc[p].sys
    /\ proc[p].pc \in Wiping =>
          /\ proc[p].sys \cap DOMAIN docs \subseteq proc[p].spared
          /\ proc[p].spared \cap proc[p].ids \subseteq proc[p].sys
    /\ proc[p].pc \in {"wiping credentials", "unmirroring all"} =>
          proc[p].ids \cap DOMAIN docs \subseteq proc[p].spared

PurgeSound(e) ==
    /\ e.id \in issued
    /\ e.settled => ~InFlight(e.id) /\ e.id \notin DOMAIN docs \cup creds \cup mirror

OneSystemId == \A i, j \in SystemIds : i = j

IInv ==
    /\ TypeOK
    /\ \A p \in Processes : ProcessSound(p)
    /\ \A e \in erased : PurgeSound(e)
    /\ OneSystemId

-----------------------------------------------------------------------------
(* Processes *)

LEMMA ProcessForms ==
    ASSUME NEW q \in Process
    PROVE  /\ q.pc \in {"restoring", "ready"} \cup Registering => q.id \in UserIds
           /\ q.pc \in Purging =>
                 /\ q.id \in UserIds /\ q.settled \in BOOLEAN
                 /\ \A pc \in Purging :
                       LET r == [q EXCEPT !.pc = pc]
                       IN  r \in Process /\ r.pc = pc /\ r.id = q.id /\ r.settled = q.settled
           /\ q.pc \in {"listed", "excluding"} \cup Wiping => q.ids \in SUBSET UserIds
           /\ q.pc \in {"excluding"} \cup Wiping => q.sys \in SUBSET UserIds
           /\ q.pc \in Wiping =>
                 /\ q.spared \in SUBSET UserIds
                 /\ \A pc \in Wiping :
                       LET r == [q EXCEPT !.pc = pc]
                       IN  /\ r \in Process /\ r.pc = pc
                           /\ r.ids = q.ids /\ r.sys = q.sys /\ r.spared = q.spared
<1> USE DEF Registering, Purging, Wiping
<1>1. CASE q = Idle
  BY <1>1 DEF Idle
<1>2. CASE q \in [pc : {"creating"}]
  BY <1>2
<1>3. CASE q \in [pc : {"restoring", "ready", "mirroring", "saving"}, id : UserIds]
  BY <1>3
<1>4. CASE q \in [pc : {"purging", "unlinking", "unmirroring"}, id : UserIds, settled : BOOLEAN]
  BY <1>4 DEF Process
<1>5. CASE q \in [pc : {"listed"}, ids : SUBSET UserIds]
  BY <1>5
<1>6. CASE q \in [pc : {"excluding"}, ids : SUBSET UserIds, sys : SUBSET UserIds]
  BY <1>6
<1>7. CASE q \in [pc : {"wiping users", "wiping credentials", "unmirroring all"},
                  ids : SUBSET UserIds, sys : SUBSET UserIds, spared : SUBSET UserIds]
  BY <1>7 DEF Process
<1> QED
  BY <1>1, <1>2, <1>3, <1>4, <1>5, <1>6, <1>7 DEF Process

LEMMA DoneIsProcess ==
    ASSUME NEW p \in Processes, NEW id \in UserIds
    PROVE  /\ Done(p, id) \in Process
           /\ p \in Clients => Done(p, id).pc \notin {"restoring", "ready"}
           /\ Done(p, id).pc \in {"ready", "idle"}
  BY ProcessesAssumption DEF Done, Idle, Process, Processes

-----------------------------------------------------------------------------
(* Type correctness *)

(* A step of one process. *)
LEMMA TypeStep ==
    ASSUME TypeOK, NEW p \in Processes, NEW r \in Process, Set(p, r),
           p \in Clients => r.pc \notin {"restoring", "ready"},
           issued' \subseteq UserIds,
           DOMAIN docs' \subseteq issued', creds' \subseteq issued', mirror' \subseteq issued',
           docs' \in [DOMAIN docs' -> Account],
           erased' \subseteq [id : UserIds, settled : BOOLEAN]
    PROVE  TypeOK'
  BY DEF TypeOK, Set, Processes

LEMMA InsertTypes ==
    ASSUME TypeOK, NEW p \in Processes, NEW id \in UserIds, NEW system \in BOOLEAN,
           Insert(p, id, system)
    PROVE  TypeOK'
<1>1. [pc |-> "mirroring", id |-> id] \in Process
  BY DEF Process
<1>2. NewAccount(system) \in Account
  BY DEF NewAccount, Account
<1>3. /\ issued' = issued \cup {id} /\ DOMAIN docs' = DOMAIN docs \cup {id}
      /\ creds' = creds /\ mirror' = mirror /\ erased' = erased
  BY DEF Insert
<1>4. docs' \in [DOMAIN docs' -> Account]
  BY <1>2, <1>3 DEF Insert, TypeOK
<1> QED
  BY <1>1, <1>3, <1>4, TypeStep DEF Insert, TypeOK

LEMMA RegistrationTypes ==
    ASSUME TypeOK, NEW p \in Processes,
           MirrorUser(p) \/ MirrorUserFails(p) \/ SaveChatCredentials(p), proc[p].id \in issued
    PROVE  TypeOK'
<1>1. proc[p].id \in UserIds
  BY DEF TypeOK
<1>2. [pc |-> "saving", id |-> proc[p].id] \in Process
  BY <1>1 DEF Process
<1>3. \E r \in Process : Set(p, r) /\ (p \in Clients => r.pc \notin {"restoring", "ready"})
  BY <1>1, <1>2, DoneIsProcess DEF MirrorUser, MirrorUserFails, SaveChatCredentials
<1>4. creds' \subseteq issued' /\ mirror' \subseteq issued'
  BY DEF MirrorUser, MirrorUserFails, SaveChatCredentials, TypeOK
<1>5. UNCHANGED <<docs, issued, erased>>
  BY DEF MirrorUser, MirrorUserFails, SaveChatCredentials
<1> QED
  BY <1>3, <1>4, <1>5, TypeStep DEF TypeOK

LEMMA SystemTypes ==
    ASSUME TypeOK, NEW p \in Processes,
           \/ CreateSystemUserFails(p) \/ InitSystemUser(p)
           \/ p \in Servers /\ (EnsureSystemUser(p) \/ RestoreSystemUser(p) \/ ServerStops(p))
    PROVE  TypeOK'
<1>1. p \in Servers => p \notin Clients
  BY ProcessesAssumption
<1>2. Idle \in Process /\ Idle.pc = "idle" /\ [pc |-> "creating"] \in Process
  BY DEF Idle, Process
<1>3. CASE CreateSystemUserFails(p) \/ InitSystemUser(p) \/ ServerStops(p)
  BY <1>2, <1>3, TypeStep DEF CreateSystemUserFails, InitSystemUser, ServerStops, stores, TypeOK
<1>4. CASE p \in Servers /\ EnsureSystemUser(p)
  <2>1. \E r \in Process : Set(p, r)
    <3>1. \A id \in UserIds : /\ [pc |-> "restoring", id |-> id] \in Process
                              /\ [pc |-> "ready", id |-> id] \in Process
      BY DEF Process
    <3>2. SystemIds \subseteq UserIds
      BY DEF SystemIds, TypeOK
    <3> QED
      BY <1>2, <1>4, <3>1, <3>2 DEF EnsureSystemUser
  <2> QED
    BY <1>1, <1>4, <2>1, TypeStep DEF EnsureSystemUser, stores, TypeOK
<1>5. CASE p \in Servers /\ RestoreSystemUser(p)
  <2>1. proc[p].id \in UserIds
    BY <1>5, ProcessForms DEF RestoreSystemUser, TypeOK
  <2>2. [pc |-> "ready", id |-> proc[p].id] \in Process
    BY <2>1 DEF Process
  <2>3. \E r \in Process : Set(p, r)
    BY <1>2, <1>5, <2>2 DEF RestoreSystemUser
  <2>4. DOMAIN docs' = DOMAIN docs /\ docs' \in [DOMAIN docs' -> Account]
    BY <1>5 DEF RestoreSystemUser, TypeOK, Account
  <2> QED
    BY <1>1, <1>5, <2>3, <2>4, TypeStep DEF RestoreSystemUser, TypeOK
<1> QED
  BY <1>3, <1>4, <1>5

LEMMA RestrictTypes ==
    ASSUME TypeOK, NEW ids
    PROVE  /\ DOMAIN Keep(ids) = DOMAIN docs \cap ids
           /\ Keep(ids) \in [DOMAIN Keep(ids) -> Account]
           /\ \A id \in DOMAIN Keep(ids) : Keep(ids)[id] = docs[id]
  BY DEF Keep, TypeOK

LEMMA RemoveTypes ==
    ASSUME TypeOK, NEW p \in Processes, Remove(p)
    PROVE  TypeOK'
<1>1. Idle \in Process /\ Idle.pc = "idle"
  BY DEF Idle, Process
<1>2. ASSUME NEW id \in UserIds, LookupToPurge(p, id)
      PROVE  TypeOK'
  <2>1. [pc |-> "purging", id |-> id, settled |-> ~InFlight(id)] \in Process
    BY DEF Process
  <2> QED
    BY <1>2, <2>1, TypeStep DEF LookupToPurge, stores, TypeOK
<1>3. ASSUME proc[p].pc \in Purging
      PROVE  /\ proc[p].id \in UserIds /\ proc[p].settled \in BOOLEAN
             /\ \A pc \in Purging : /\ [proc[p] EXCEPT !.pc = pc] \in Process
                                    /\ [proc[p] EXCEPT !.pc = pc].pc = pc
  BY <1>3, ProcessForms DEF TypeOK
<1>4. CASE DeleteUser(p)
  <2>1. \E r \in Process : Set(p, r) /\ r.pc \in {"unlinking", "idle"}
    BY <1>1, <1>3, <1>4 DEF DeleteUser, Purging
  <2> QED
    BY <1>4, <2>1, RestrictTypes, TypeStep DEF DeleteUser, TypeOK
<1>5. CASE DeleteChatCredentials(p)
  <2>1. \E r \in Process : Set(p, r) /\ r.pc = "unmirroring"
    BY <1>3, <1>5 DEF DeleteChatCredentials, Purging
  <2> QED
    BY <1>5, <2>1, TypeStep DEF DeleteChatCredentials, Unlinked, TypeOK
<1>6. CASE DeleteMirror(p)
  <2>1. [id |-> proc[p].id, settled |-> proc[p].settled] \in [id : UserIds, settled : BOOLEAN]
    BY <1>3, <1>6 DEF DeleteMirror, Purging
  <2> QED
    BY <1>1, <1>6, <2>1, TypeStep DEF DeleteMirror, TypeOK
<1>7. CASE DeleteMirrorFails(p)
  BY <1>1, <1>7, TypeStep DEF DeleteMirrorFails, TypeOK
<1> QED
  BY <1>2, <1>4, <1>5, <1>6, <1>7 DEF Remove

LEMMA WipeTypes ==
    ASSUME TypeOK, NEW p \in Processes, Wipe(p)
    PROVE  TypeOK'
<1>1. DOMAIN docs \in SUBSET UserIds /\ SystemIds \in SUBSET UserIds
  BY DEF TypeOK, SystemIds
<1>2. Idle \in Process /\ Idle.pc = "idle"
  BY DEF Idle, Process
<1>3. CASE AllUserIDs(p)
  <2>1. [pc |-> "listed", ids |-> DOMAIN docs] \in Process
    BY <1>1 DEF Process
  <2> QED
    BY <1>3, <2>1, TypeStep DEF AllUserIDs, stores, TypeOK
<1>4. CASE FindSystem(p)
  <2>1. proc[p].ids \in SUBSET UserIds
    BY <1>4, ProcessForms DEF FindSystem, TypeOK
  <2>2. [pc |-> "excluding", ids |-> proc[p].ids, sys |-> SystemIds] \in Process
    BY <1>1, <2>1 DEF Process
  <2> QED
    BY <1>4, <2>2, TypeStep DEF FindSystem, stores, TypeOK
<1>5. CASE FindSpared(p)
  <2>1. proc[p].ids \in SUBSET UserIds /\ proc[p].sys \in SUBSET UserIds
    BY <1>5, ProcessForms DEF FindSpared, TypeOK
  <2>2. [pc |-> "wiping users", ids |-> proc[p].ids, sys |-> proc[p].sys,
         spared |-> SystemIds] \in Process
    BY <1>1, <2>1 DEF Process
  <2> QED
    BY <1>5, <2>2, TypeStep DEF FindSpared, stores, TypeOK
<1>6. ASSUME proc[p].pc \in Wiping
      PROVE  \A pc \in Wiping : /\ [proc[p] EXCEPT !.pc = pc] \in Process
                                /\ [proc[p] EXCEPT !.pc = pc].pc = pc
  BY <1>6, ProcessForms DEF TypeOK
<1>7. CASE WipeUsers(p)
  <2>1. \E r \in Process : Set(p, r) /\ r.pc = "wiping credentials"
    BY <1>6, <1>7 DEF WipeUsers, Wiping
  <2> QED
    BY <1>7, <2>1, RestrictTypes, TypeStep DEF WipeUsers, TypeOK
<1>8. CASE WipeCredentials(p)
  <2>1. \E r \in Process : Set(p, r) /\ r.pc = "unmirroring all"
    BY <1>6, <1>8 DEF WipeCredentials, Wiping
  <2> QED
    BY <1>8, <2>1, TypeStep DEF WipeCredentials, TypeOK
<1>9. CASE DeleteMirrors(p)
  BY <1>2, <1>9, TypeStep DEF DeleteMirrors, TypeOK
<1> QED
  BY <1>3, <1>4, <1>5, <1>7, <1>8, <1>9 DEF Wipe

LEMMA EnvironmentTypes ==
    ASSUME TypeOK,
           \/ \E ps \in SUBSET Running : Crash(ps)
           \/ \E id \in UserIds : SoftDelete(id) \/ Restore(id)
    PROVE  TypeOK'
<1>1. ASSUME NEW ps \in SUBSET Running, Crash(ps)
      PROVE  TypeOK'
  BY <1>1 DEF Crash, stores, TypeOK, Idle, Process, Processes
<1>2. ASSUME NEW id \in UserIds, SoftDelete(id) \/ Restore(id)
      PROVE  TypeOK'
  <2>1. DOMAIN docs' = DOMAIN docs /\ docs' \in [DOMAIN docs' -> Account]
    <3>1. \E b \in BOOLEAN : docs' = [docs EXCEPT ![id].deleted = b]
      BY <1>2 DEF SoftDelete, Restore
    <3> QED
      BY <3>1 DEF TypeOK, Account
  <2>2. UNCHANGED <<issued, creds, mirror, erased, proc>>
    BY <1>2 DEF SoftDelete, Restore
  <2>3. DOMAIN docs' \cup creds' \cup mirror' \subseteq issued'
    BY <2>1, <2>2 DEF TypeOK
  <2>4. proc' \in [Processes -> Process] /\ \A p \in Clients : proc'[p].pc \notin {"restoring", "ready"}
    BY <2>2 DEF TypeOK
  <2>5. issued' \subseteq UserIds /\ erased' \subseteq [id : UserIds, settled : BOOLEAN]
    BY <2>2 DEF TypeOK
  <2> QED
    BY <2>1, <2>3, <2>4, <2>5 DEF TypeOK
<1> QED
  BY <1>1, <1>2

LEMMA TypeInductive ==
    ASSUME IInv, [Next]_vars
    PROVE  TypeOK'
<1> USE DEF IInv
<1>1. ASSUME NEW p \in Processes, Provision(p)
      PROVE  TypeOK'
  <2>1. proc[p].pc \in Registering => proc[p].id \in issued
    BY DEF ProcessSound
  <2>2. CASE MirrorUser(p) \/ MirrorUserFails(p) \/ SaveChatCredentials(p)
    BY <2>1, <2>2, RegistrationTypes
       DEF MirrorUser, MirrorUserFails, SaveChatCredentials, Registering
  <2> QED
    BY <1>1, <2>2, SystemTypes, InsertTypes DEF Provision, CreateSystemUser
<1>2. ASSUME NEW p \in Servers, Start(p)
      PROVE  TypeOK'
  BY <1>2, SystemTypes DEF Start, Processes
<1>3. ASSUME NEW p \in Clients, Remove(p) \/ Wipe(p) \/ InitSystemUser(p)
      PROVE  TypeOK'
  BY <1>3, SystemTypes, RemoveTypes, WipeTypes DEF Processes
<1>4. ASSUME NEW p \in Clients, NEW id \in UserIds, Register(p, id)
      PROVE  TypeOK'
  BY <1>4, InsertTypes DEF Register, Processes
<1>5. CASE UNCHANGED vars
  BY <1>5 DEF vars, TypeOK
<1> QED
  BY <1>1, <1>2, <1>3, <1>4, <1>5, EnvironmentTypes DEF Next, Processes

-----------------------------------------------------------------------------
(* What every step does to the stores *)

Advance ==
    /\ issued \subseteq issued'
    /\ \A id \in issued \cap DOMAIN docs' :
          id \in DOMAIN docs /\ docs'[id].system = docs[id].system
    /\ \A id \in issued :
          /\ InFlight(id)' => InFlight(id)
          /\ id \in creds' => id \in creds \/ InFlight(id)
          /\ id \in mirror' => id \in mirror \/ InFlight(id)

(* A registration begins with a new id, and goes on with the one it has. *)
LEMMA FlightsKept ==
    ASSUME TypeOK, NEW p \in Processes, NEW r, Set(p, r),
           r.pc \in Registering =>
              r.id \notin issued \/ (proc[p].pc \in Registering /\ proc[p].id = r.id)
    PROVE  \A id \in issued : InFlight(id)' => InFlight(id)
  BY DEF InFlight, Set, Registering, TypeOK

LEMMA ProcessStays ==
    ASSUME Advance, NEW p \in Processes, ProcessSound(p), proc'[p] = proc[p]
    PROVE  ProcessSound(p)'
<1> USE DEF Advance, Registering, Purging, Wiping
<1>1. /\ proc[p].pc \in Registering \cup Purging => proc[p].id \in issued'
      /\ proc[p].pc \in Purging => (proc[p].settled => ~InFlight(proc[p].id))'
      /\ proc[p].pc \in {"unlinking", "unmirroring"} => proc[p].id \notin DOMAIN docs'
      /\ proc[p].pc = "unmirroring" => (proc[p].settled => proc[p].id \notin creds)'
  BY DEF ProcessSound
<1>2. /\ proc[p].pc \in {"listed", "excluding"} \cup Wiping => proc[p].ids \subseteq issued'
      /\ proc[p].pc \in {"excluding"} \cup Wiping =>
            /\ proc[p].sys \subseteq issued'
            /\ \A id \in proc[p].sys \cap DOMAIN docs' : docs'[id].system
            /\ \A id \in proc[p].ids \cap DOMAIN docs' : docs'[id].system => id \in proc[p].sys
  BY DEF ProcessSound
<1>3. /\ proc[p].pc \in Wiping =>
            /\ proc[p].sys \cap DOMAIN docs' \subseteq proc[p].spared
            /\ proc[p].spared \cap proc[p].ids \subseteq proc[p].sys
      /\ proc[p].pc \in {"wiping credentials", "unmirroring all"} =>
            proc[p].ids \cap DOMAIN docs' \subseteq proc[p].spared
  BY DEF ProcessSound
<1> QED
  BY <1>1, <1>2, <1>3 DEF ProcessSound

LEMMA PurgeStays ==
    ASSUME Advance, NEW e, PurgeSound(e)
    PROVE  PurgeSound(e)'
  BY DEF Advance, PurgeSound

LEMMA OneSystemStays ==
    ASSUME TypeOK, Advance, DOMAIN docs' \subseteq issued, OneSystemId
    PROVE  OneSystemId'
  BY DEF Advance, OneSystemId, SystemIds

(* What is left to show of a step of one process. *)
LEMMA StepKeeps ==
    ASSUME IInv, TypeOK', NEW p \in Processes, NEW r, Set(p, r), Advance,
           ProcessSound(p)', OneSystemId', \A e \in erased' \ erased : PurgeSound(e)'
    PROVE  IInv'
<1>1. ASSUME NEW q \in Processes
      PROVE  ProcessSound(q)'
  <2>1. CASE q = p
    BY <2>1
  <2>2. CASE q # p
    BY <2>2, ProcessStays DEF IInv, Set, TypeOK
  <2> QED
    BY <2>1, <2>2
<1>2. \A e \in erased' : PurgeSound(e)'
  BY PurgeStays DEF IInv
<1> QED
  BY <1>1, <1>2 DEF IInv

(* Processes that have read nothing yet that matters. *)
LEMMA FreshSound ==
    ASSUME NEW p \in Processes, proc'[p].pc \in {"idle", "creating", "restoring", "ready"}
    PROVE  ProcessSound(p)'
  BY DEF ProcessSound, Registering, Purging, Wiping

-----------------------------------------------------------------------------
(* Registration and the system account *)

LEMMA InsertKeeps ==
    ASSUME IInv, TypeOK', NEW p \in Processes, NEW id \in UserIds, NEW system \in BOOLEAN,
           Insert(p, id, system)
    PROVE  IInv'
<1> DEFINE r == [pc |-> "mirroring", id |-> id]
<1>1. Set(p, r) /\ proc'[p] = r
  BY DEF Insert, Set, IInv, TypeOK
<1>2. \A i \in issued : InFlight(i)' => InFlight(i)
  BY <1>1, FlightsKept DEF Insert, IInv
<1>3. Advance
  BY <1>2 DEF Advance, Insert
<1>4. ProcessSound(p)'
  BY <1>1 DEF Insert, ProcessSound, Registering, Purging, Wiping
<1>5. OneSystemId'
  BY DEF Insert, NewAccount, EmailFree, SystemIds, OneSystemId, IInv
<1>6. erased' = erased
  BY DEF Insert
<1> QED
  BY <1>1, <1>3, <1>4, <1>5, <1>6, StepKeeps

LEMMA RegistrationKeeps ==
    ASSUME IInv, TypeOK', NEW p \in Processes,
           MirrorUser(p) \/ MirrorUserFails(p) \/ SaveChatCredentials(p)
    PROVE  IInv'
<1> DEFINE s == [pc |-> "saving", id |-> proc[p].id]
<1>1. proc[p].pc \in Registering /\ proc[p].id \in issued /\ InFlight(proc[p].id)
  BY DEF MirrorUser, MirrorUserFails, SaveChatCredentials, Registering, InFlight, IInv, ProcessSound
<1>2. proc[p].id \in UserIds
  BY <1>1 DEF IInv, TypeOK
<1>3. PICK r : Set(p, r) /\ (r = s \/ r.pc \in {"ready", "idle"})
  BY <1>2, DoneIsProcess DEF MirrorUser, MirrorUserFails, SaveChatCredentials
<1>4. proc'[p] = r
  BY <1>3 DEF Set, IInv, TypeOK
<1>5. UNCHANGED <<docs, issued, erased>>
  BY DEF MirrorUser, MirrorUserFails, SaveChatCredentials
<1>6. \A id \in issued : InFlight(id)' => InFlight(id)
  BY <1>1, <1>3, FlightsKept DEF IInv, Registering
<1>7. creds' \subseteq creds \cup {proc[p].id} /\ mirror' \subseteq mirror \cup {proc[p].id}
  BY DEF MirrorUser, MirrorUserFails, SaveChatCredentials
<1>8. Advance
  BY <1>1, <1>5, <1>6, <1>7 DEF Advance, IInv, TypeOK
<1>9. ProcessSound(p)'
  <2>1. CASE r = s
    BY <1>1, <1>4, <1>5, <2>1 DEF ProcessSound, Registering, Purging, Wiping
  <2>2. CASE r.pc \in {"ready", "idle"}
    BY <1>4, <2>2, FreshSound
  <2> QED
    BY <1>3, <2>1, <2>2
<1>10. OneSystemId'
  BY <1>5, <1>8, OneSystemStays DEF IInv, TypeOK
<1> QED
  BY <1>3, <1>5, <1>8, <1>9, <1>10, StepKeeps

(* Steps that change no store but a document's deleted flag. *)
LEMMA SystemKeeps ==
    ASSUME IInv, TypeOK', NEW p \in Processes,
           \/ CreateSystemUserFails(p) \/ InitSystemUser(p) \/ EnsureSystemUser(p)
           \/ RestoreSystemUser(p) \/ ServerStops(p)
    PROVE  IInv'
<1>1. \A r : Set(p, r) => proc'[p] = r
  BY DEF Set, IInv, TypeOK
<1>2. Set(p, proc'[p]) /\ proc'[p].pc \in {"idle", "creating", "restoring", "ready"}
  <2>1. CASE CreateSystemUserFails(p) \/ InitSystemUser(p) \/ ServerStops(p)
    <3>1. Set(p, Idle) \/ Set(p, [pc |-> "creating"])
      BY <2>1 DEF CreateSystemUserFails, InitSystemUser, ServerStops
    <3> QED
      BY <1>1, <3>1 DEF Idle
  <2>2. CASE EnsureSystemUser(p)
    <3>1. CASE SystemIds = {}
      BY <1>1, <2>2, <3>1 DEF EnsureSystemUser
    <3>2. CASE SystemIds # {}
      <4>1. PICK id \in SystemIds :
               Set(p, [pc |-> IF docs[id].deleted THEN "restoring" ELSE "ready", id |-> id])
        BY <2>2, <3>2 DEF EnsureSystemUser
      <4>2. proc'[p] = [pc |-> IF docs[id].deleted THEN "restoring" ELSE "ready", id |-> id]
        BY <1>1, <4>1
      <4> QED
        BY <4>1, <4>2
    <3> QED
      BY <3>1, <3>2
  <2>3. CASE RestoreSystemUser(p)
    <3>1. \/ Set(p, [pc |-> "ready", id |-> proc[p].id])
          \/ Set(p, Idle)
      BY <2>3 DEF RestoreSystemUser
    <3> QED
      BY <1>1, <3>1 DEF Idle
  <2> QED
    BY <2>1, <2>2, <2>3
<1>3. UNCHANGED <<issued, creds, mirror, erased>>
  BY DEF CreateSystemUserFails, InitSystemUser, EnsureSystemUser, RestoreSystemUser, ServerStops, stores
<1>4. /\ DOMAIN docs' = DOMAIN docs
      /\ \A id \in DOMAIN docs : docs'[id].system = docs[id].system
  BY DEF CreateSystemUserFails, InitSystemUser, EnsureSystemUser, RestoreSystemUser, ServerStops,
         stores, IInv, TypeOK, Account
<1>5. Advance
  BY <1>2, <1>3, <1>4, FlightsKept DEF Advance, IInv, Registering
<1>6. OneSystemId'
  BY <1>4, <1>5, OneSystemStays DEF IInv, TypeOK
<1> QED
  BY <1>2, <1>3, <1>5, <1>6, FreshSound, StepKeeps

-----------------------------------------------------------------------------
(* gochactrl delete --hard *)

LEMMA RemoveKeeps ==
    ASSUME IInv, TypeOK', NEW p \in Processes, Remove(p)
    PROVE  IInv'
<1> USE DEF Purging, Registering
<1>1. proc[p] \in Process /\ ProcessSound(p) /\ OneSystemId /\ TypeOK
  BY DEF IInv, TypeOK
<1>2. \A r : Set(p, r) => proc'[p] = r
  BY <1>1 DEF Set, TypeOK
<1>3. Idle.pc = "idle"
  BY DEF Idle
<1>4. ASSUME NEW id \in UserIds, LookupToPurge(p, id)
      PROVE  IInv'
  <2> DEFINE r == [pc |-> "purging", id |-> id, settled |-> ~InFlight(id)]
  <2>1. Set(p, r) /\ UNCHANGED <<docs, issued, creds, mirror, erased>> /\ id \in issued
    BY <1>1, <1>4 DEF LookupToPurge, stores, TypeOK
  <2>2. Advance
    BY <1>1, <2>1, FlightsKept DEF Advance
  <2>3. ProcessSound(p)'
    <3>1. proc'[p] = [pc |-> "purging", id |-> id, settled |-> ~InFlight(id)]
      BY <1>2, <2>1
    <3>2. proc'[p].pc = "purging" /\ proc'[p].id = id
      BY <3>1
    <3>3. proc'[p].settled => ~InFlight(id)
      <4>1. CASE InFlight(id)
        <5>1. proc'[p] = [pc |-> "purging", id |-> id, settled |-> FALSE]
          BY <3>1, <4>1, Zenon
        <5> QED
          BY <5>1
      <4> QED
        BY <4>1
    <3> QED
      BY <2>1, <2>2, <3>2, <3>3 DEF ProcessSound, Wiping, Advance
  <2>4. OneSystemId'
    BY <1>1, <2>1, <2>2, OneSystemStays DEF TypeOK
  <2> QED
    BY <2>1, <2>2, <2>3, <2>4, StepKeeps
<1>5. CASE DeleteUser(p)
  <2> DEFINE r == IF proc[p].id \in DOMAIN docs THEN [proc[p] EXCEPT !.pc = "unlinking"] ELSE Idle
  <2>1. /\ Set(p, r) /\ UNCHANGED <<issued, creds, mirror, erased>>
        /\ DOMAIN docs' = DOMAIN docs \cap (UserIds \ {proc[p].id})
        /\ \A id \in DOMAIN docs' : docs'[id] = docs[id]
        /\ proc[p].pc = "purging"
    BY <1>1, <1>5, RestrictTypes DEF DeleteUser
  <2>2. \/ r = Idle
        \/ r.pc = "unlinking" /\ r.id = proc[p].id /\ r.settled = proc[p].settled
    BY <1>1, <2>1, ProcessForms
  <2>3. Advance
    BY <1>1, <1>3, <2>1, <2>2, FlightsKept DEF Advance
  <2>4. ProcessSound(p)'
    <3>1. CASE r = Idle
      BY <1>2, <1>3, <2>1, <3>1, FreshSound
    <3>2. CASE r.pc = "unlinking" /\ r.id = proc[p].id /\ r.settled = proc[p].settled
      BY <1>1, <1>2, <2>1, <2>3, <3>2 DEF ProcessSound, Wiping, Advance
    <3> QED
      BY <2>2, <3>1, <3>2
  <2>5. OneSystemId'
    BY <1>1, <2>1, <2>3, OneSystemStays DEF TypeOK
  <2> QED
    BY <2>1, <2>3, <2>4, <2>5, StepKeeps
<1>6. CASE DeleteChatCredentials(p)
  <2> DEFINE r == [proc[p] EXCEPT !.pc = "unmirroring"]
  <2>1. /\ Set(p, r) /\ UNCHANGED <<docs, issued, mirror, erased>>
        /\ creds' = creds \ {proc[p].id} /\ proc[p].pc = "unlinking"
    BY <1>6 DEF DeleteChatCredentials, Unlinked
  <2>2. r.pc = "unmirroring" /\ r.id = proc[p].id /\ r.settled = proc[p].settled
    BY <1>1, <2>1, ProcessForms
  <2>3. Advance
    BY <1>1, <2>1, <2>2, FlightsKept DEF Advance
  <2>4. ProcessSound(p)'
    BY <1>1, <1>2, <2>1, <2>2, <2>3 DEF ProcessSound, Wiping, Advance
  <2>5. OneSystemId'
    BY <1>1, <2>1, <2>3, OneSystemStays DEF TypeOK
  <2> QED
    BY <2>1, <2>3, <2>4, <2>5, StepKeeps
<1>7. CASE DeleteMirror(p) \/ DeleteMirrorFails(p)
  <2> DEFINE e == [id |-> proc[p].id, settled |-> proc[p].settled]
  <2>1. /\ Set(p, Idle) /\ UNCHANGED <<docs, issued, creds>> /\ proc[p].pc = "unmirroring"
        /\ mirror' \subseteq mirror
        /\ erased' = erased \/ (erased' = erased \cup {e} /\ mirror' = mirror \ {proc[p].id})
    BY <1>7 DEF DeleteMirror, DeleteMirrorFails
  <2>2. Advance
    BY <1>1, <1>3, <2>1, FlightsKept DEF Advance
  <2>3. ProcessSound(p)'
    BY <1>2, <1>3, <2>1, FreshSound
  <2>4. OneSystemId'
    BY <1>1, <2>1, <2>2, OneSystemStays DEF TypeOK
  <2>5. \A f \in erased' \ erased : PurgeSound(f)'
    BY <1>1, <2>1, <2>2 DEF PurgeSound, ProcessSound, Advance
  <2> QED
    BY <2>1, <2>2, <2>3, <2>4, <2>5, StepKeeps
<1> QED
  BY <1>4, <1>5, <1>6, <1>7 DEF Remove

-----------------------------------------------------------------------------
(* gochactrl delete-all *)

LEMMA WipeKeeps ==
    ASSUME IInv, TypeOK', NEW p \in Processes, Wipe(p)
    PROVE  IInv'
<1> USE DEF Wiping
<1>1. proc[p] \in Process /\ ProcessSound(p) /\ OneSystemId /\ TypeOK
  BY DEF IInv, TypeOK
<1>2. \A r : Set(p, r) => proc'[p] = r
  BY <1>1 DEF Set, TypeOK
<1>3. Idle.pc = "idle"
  BY DEF Idle
<1>4. CASE AllUserIDs(p)
  <2> DEFINE r == [pc |-> "listed", ids |-> DOMAIN docs]
  <2>1. Set(p, r) /\ UNCHANGED <<docs, issued, creds, mirror, erased>>
    BY <1>4 DEF AllUserIDs, stores
  <2>2. Advance
    BY <1>1, <2>1, FlightsKept DEF Advance, Registering
  <2>3. ProcessSound(p)'
    <3>1. proc'[p].pc = "listed" /\ proc'[p].ids = DOMAIN docs
      BY <1>2, <2>1
    <3> QED
      BY <1>1, <2>1, <3>1 DEF ProcessSound, Registering, Purging, TypeOK
  <2>4. OneSystemId'
    BY <1>1, <2>1, <2>2, OneSystemStays DEF TypeOK
  <2> QED
    BY <2>1, <2>2, <2>3, <2>4, StepKeeps
<1>5. CASE FindSystem(p)
  <2> DEFINE r == [pc |-> "excluding", ids |-> proc[p].ids, sys |-> SystemIds]
  <2>1. /\ Set(p, r) /\ UNCHANGED <<docs, issued, creds, mirror, erased>>
        /\ proc[p].pc = "listed"
    BY <1>5 DEF FindSystem, stores
  <2>2. Advance
    BY <1>1, <2>1, FlightsKept DEF Advance, Registering
  <2>3. ProcessSound(p)'
    <3>1. /\ proc'[p].pc = "excluding" /\ proc'[p].ids = proc[p].ids
          /\ proc'[p].sys = SystemIds
      BY <1>2, <2>1
    <3> QED
      BY <1>1, <2>1, <3>1 DEF ProcessSound, Registering, Purging, SystemIds, TypeOK
  <2>4. OneSystemId'
    BY <1>1, <2>1, <2>2, OneSystemStays DEF TypeOK
  <2> QED
    BY <2>1, <2>2, <2>3, <2>4, StepKeeps
<1>6. CASE FindSpared(p)
  <2> DEFINE r == [pc |-> "wiping users", ids |-> proc[p].ids, sys |-> proc[p].sys,
                   spared |-> SystemIds]
  <2>1. /\ Set(p, r) /\ UNCHANGED <<docs, issued, creds, mirror, erased>>
        /\ proc[p].pc = "excluding"
    BY <1>6 DEF FindSpared, stores
  <2>2. Advance
    BY <1>1, <2>1, FlightsKept DEF Advance, Registering
  <2>3. ProcessSound(p)'
    <3>1. proc'[p] = r
      BY <1>2, <2>1
    <3>2. /\ proc'[p].pc = "wiping users" /\ proc'[p].ids = proc[p].ids
          /\ proc'[p].sys = proc[p].sys /\ proc'[p].spared = SystemIds
      <4> DEFINE ids == proc[p].ids
                 sys == proc[p].sys
                 q == proc'[p]
      <4>1. q = [pc |-> "wiping users", ids |-> ids, sys |-> sys, spared |-> SystemIds]
        BY <3>1
      <4> HIDE DEF ids, sys, q
      <4>2. q.pc = "wiping users" /\ q.ids = ids /\ q.sys = sys /\ q.spared = SystemIds
        BY <4>1
      <4> QED
        BY <4>2 DEF ids, sys, q
    <3>3. /\ proc[p].ids \subseteq issued /\ proc[p].sys \subseteq issued
          /\ \A id \in proc[p].sys \cap DOMAIN docs : docs[id].system
          /\ \A id \in proc[p].ids \cap DOMAIN docs : docs[id].system => id \in proc[p].sys
      BY <1>1, <2>1 DEF ProcessSound
    <3>4. /\ proc[p].sys \cap DOMAIN docs \subseteq SystemIds
          /\ SystemIds \cap proc[p].ids \subseteq proc[p].sys
      BY <3>3 DEF SystemIds
    <3>5. UNCHANGED <<docs, issued, creds>>
      BY <2>1
    <3> QED
      BY <3>2, <3>3, <3>4, <3>5 DEF ProcessSound, Registering, Purging
  <2>4. OneSystemId'
    BY <1>1, <2>1, <2>2, OneSystemStays DEF TypeOK
  <2> QED
    BY <2>1, <2>2, <2>3, <2>4, StepKeeps
<1>7. CASE WipeUsers(p)
  <2> DEFINE r == [proc[p] EXCEPT !.pc = "wiping credentials"]
  <2>1. /\ Set(p, r) /\ UNCHANGED <<issued, creds, mirror, erased>>
        /\ DOMAIN docs' = DOMAIN docs \cap proc[p].spared
        /\ \A id \in DOMAIN docs' : docs'[id] = docs[id]
        /\ proc[p].pc = "wiping users"
    BY <1>1, <1>7, RestrictTypes DEF WipeUsers
  <2>2. /\ r.pc = "wiping credentials" /\ r.ids = proc[p].ids /\ r.sys = proc[p].sys
        /\ r.spared = proc[p].spared
    BY <1>1, <2>1, ProcessForms
  <2>3. Advance
    BY <1>1, <2>1, <2>2, FlightsKept DEF Advance, Registering
  <2>4. ProcessSound(p)'
    BY <1>1, <1>2, <2>1, <2>2 DEF ProcessSound, Registering, Purging
  <2>5. OneSystemId'
    BY <1>1, <2>1, <2>3, OneSystemStays DEF TypeOK
  <2> QED
    BY <2>1, <2>3, <2>4, <2>5, StepKeeps
<1>8. CASE WipeCredentials(p)
  <2> DEFINE r == [proc[p] EXCEPT !.pc = "unmirroring all"]
  <2>1. /\ Set(p, r) /\ UNCHANGED <<docs, issued, mirror, erased>> /\ creds' \subseteq creds
        /\ proc[p].pc = "wiping credentials"
    BY <1>8 DEF WipeCredentials
  <2>2. /\ r.pc = "unmirroring all" /\ r.ids = proc[p].ids /\ r.sys = proc[p].sys
        /\ r.spared = proc[p].spared
    BY <1>1, <2>1, ProcessForms
  <2>3. Advance
    BY <1>1, <2>1, <2>2, FlightsKept DEF Advance, Registering
  <2>4. ProcessSound(p)'
    BY <1>1, <1>2, <2>1, <2>2 DEF ProcessSound, Registering, Purging
  <2>5. OneSystemId'
    BY <1>1, <2>1, <2>3, OneSystemStays DEF TypeOK
  <2> QED
    BY <2>1, <2>3, <2>4, <2>5, StepKeeps
<1>9. CASE DeleteMirrors(p)
  <2>1. Set(p, Idle) /\ UNCHANGED <<docs, issued, creds, erased>> /\ mirror' \subseteq mirror
    BY <1>9 DEF DeleteMirrors
  <2>2. Advance
    BY <1>1, <1>3, <2>1, FlightsKept DEF Advance, Registering
  <2>3. ProcessSound(p)'
    BY <1>2, <1>3, <2>1, FreshSound
  <2>4. OneSystemId'
    BY <1>1, <2>1, <2>2, OneSystemStays DEF TypeOK
  <2> QED
    BY <2>1, <2>2, <2>3, <2>4, StepKeeps
<1> QED
  BY <1>4, <1>5, <1>6, <1>7, <1>8, <1>9 DEF Wipe

-----------------------------------------------------------------------------
(* Crashes and administrators *)

LEMMA CrashKeeps ==
    ASSUME IInv, TypeOK', NEW ps \in SUBSET Running, Crash(ps)
    PROVE  IInv'
<1>1. /\ UNCHANGED <<docs, issued, creds, mirror, erased>>
      /\ \A q \in Processes : proc'[q] = IF q \in ps THEN Idle ELSE proc[q]
  BY DEF Crash, stores
<1>2. Idle.pc = "idle"
  BY DEF Idle
<1>3. \A id \in issued : InFlight(id)' => InFlight(id)
  BY <1>1, <1>2 DEF InFlight
<1>4. Advance
  BY <1>1, <1>3 DEF Advance
<1>5. ASSUME NEW q \in Processes
      PROVE  ProcessSound(q)'
  <2>1. CASE q \in ps
    BY <1>1, <1>2, <2>1, FreshSound
  <2>2. CASE q \notin ps
    BY <1>1, <1>4, <2>2, ProcessStays DEF IInv
  <2> QED
    BY <2>1, <2>2
<1>6. \A e \in erased' : PurgeSound(e)'
  BY <1>1, <1>4, PurgeStays DEF IInv
<1>7. OneSystemId'
  BY <1>1, <1>4, OneSystemStays DEF IInv, TypeOK
<1> QED
  BY <1>5, <1>6, <1>7 DEF IInv

LEMMA AdministrationKeeps ==
    ASSUME IInv, TypeOK', NEW id \in UserIds, SoftDelete(id) \/ Restore(id)
    PROVE  IInv'
<1>1. /\ UNCHANGED <<issued, creds, mirror, erased, proc>>
      /\ DOMAIN docs' = DOMAIN docs
      /\ \A i \in DOMAIN docs : docs'[i].system = docs[i].system
  BY DEF SoftDelete, Restore, IInv, TypeOK, Account
<1>2. \A i \in issued : InFlight(i)' => InFlight(i)
  BY <1>1 DEF InFlight
<1>3. Advance
  BY <1>1, <1>2 DEF Advance, IInv, TypeOK
<1>4. \A q \in Processes : ProcessSound(q)'
  BY <1>1, <1>3, ProcessStays DEF IInv
<1>5. \A e \in erased' : PurgeSound(e)'
  BY <1>1, <1>3, PurgeStays DEF IInv
<1>6. OneSystemId'
  BY <1>1, <1>3, OneSystemStays DEF IInv, TypeOK
<1> QED
  BY <1>4, <1>5, <1>6 DEF IInv

LEMMA StutterKeeps ==
    ASSUME IInv, UNCHANGED vars
    PROVE  IInv'
<1>1. Advance
  BY DEF vars, Advance, InFlight, IInv, TypeOK
<1>2. \A q \in Processes : ProcessSound(q)'
  BY <1>1, ProcessStays DEF vars, IInv
<1>3. \A e \in erased' : PurgeSound(e)'
  BY <1>1, PurgeStays DEF vars, IInv
<1>4. OneSystemId'
  BY <1>1, OneSystemStays DEF vars, IInv, TypeOK
<1>5. TypeOK'
  BY DEF vars, IInv, TypeOK
<1> QED
  BY <1>2, <1>3, <1>4, <1>5 DEF IInv

-----------------------------------------------------------------------------
(* The invariant *)

LEMMA InvariantInitially ==
    ASSUME Init
    PROVE  IInv
<1>1. Idle \in Process /\ Idle.pc = "idle"
  BY DEF Idle, Process
<1>2. TypeOK
  BY <1>1 DEF Init, TypeOK, Processes
<1>3. \A p \in Processes : ProcessSound(p)
  BY <1>1 DEF Init, ProcessSound, Registering, Purging, Wiping
<1>4. erased = {} /\ SystemIds = {}
  BY DEF Init, SystemIds
<1> QED
  BY <1>2, <1>3, <1>4 DEF IInv, OneSystemId

LEMMA InvariantInductive ==
    ASSUME IInv, [Next]_vars
    PROVE  IInv'
<1>1. TypeOK'
  BY TypeInductive
<1>2. ASSUME NEW p \in Processes, Provision(p)
      PROVE  IInv'
  <2>1. CASE \E id \in UserIds : CreateSystemUser(p, id)
    BY <1>1, <2>1, InsertKeeps DEF CreateSystemUser
  <2> QED
    BY <1>1, <1>2, <2>1, RegistrationKeeps, SystemKeeps DEF Provision
<1>3. ASSUME NEW p \in Servers, Start(p)
      PROVE  IInv'
  BY <1>1, <1>3, SystemKeeps DEF Start, Processes
<1>4. ASSUME NEW p \in Clients, Remove(p) \/ Wipe(p) \/ InitSystemUser(p)
      PROVE  IInv'
  BY <1>1, <1>4, RemoveKeeps, WipeKeeps, SystemKeeps DEF Processes
<1>5. ASSUME NEW p \in Clients, NEW id \in UserIds, Register(p, id)
      PROVE  IInv'
  BY <1>1, <1>5, InsertKeeps DEF Register, Processes
<1> QED
  BY <1>1, <1>2, <1>3, <1>4, <1>5, CrashKeeps, AdministrationKeeps, StutterKeeps DEF Next, Processes

(* What every process still does agrees with the stores, whatever the      *)
(* others have done since it read them; finished purges stay clean; and    *)
(* there is one system account.                                            *)
THEOREM InvariantHolds == Spec => []IInv
<1>1. Init => IInv
  BY InvariantInitially
<1>2. IInv /\ [Next]_vars => IInv'
  BY InvariantInductive
<1> QED
  BY <1>1, <1>2, PTL DEF Spec

(* The stores and the processes are always of their types; credentials and *)
(* mirrors only ever belong to ids that were issued.                       *)
THEOREM TypeCorrect == Spec => []TypeOK
<1>1. IInv => TypeOK
  BY DEF IInv
<1> QED
  BY <1>1, InvariantHolds, PTL

(* However many servers and init-systems start at once, and whichever of   *)
(* them crash, there are never two system accounts (createSystemUser).     *)
THEOREM OneSystemAccountEver == Spec => []OneSystemAccount
<1>1. ASSUME IInv
      PROVE  OneSystemAccount
  <2>1. CASE SystemIds = {}
    BY <2>1, FS_EmptySet DEF OneSystemAccount
  <2>2. CASE SystemIds # {}
    <3>1. PICK id \in SystemIds : SystemIds = {id}
      BY <1>1, <2>2 DEF IInv, OneSystemId
    <3> QED
      BY <3>1, FS_Singleton DEF OneSystemAccount
  <2> QED
    BY <2>1, <2>2
<1> QED
  BY <1>1, InvariantHolds, PTL

(* A hard deletion that ran to its end leaves nothing of an account whose  *)
(* registration was over, and nothing of it ever comes back                *)
(* (HardDeleteUser).                                                       *)
THEOREM SettledPurgesLeaveNothing == Spec => []SettledPurgeLeavesNothing
<1>1. IInv => SettledPurgeLeavesNothing
  BY DEF IInv, PurgeSound, SettledPurgeLeavesNothing
<1> QED
  BY <1>1, InvariantHolds, PTL

-----------------------------------------------------------------------------
(* What no step does *)

MirrorsKept == \A id \in DOMAIN docs' : id \in mirror => id \in mirror'

LEMMA MirrorStep ==
    ASSUME IInv, [Next]_vars
    PROVE  MirrorsKept
<1>1. ASSUME NEW p \in Processes, Provision(p) \/ Start(p) \/ InitSystemUser(p)
      PROVE  mirror \subseteq mirror'
  BY <1>1 DEF Provision, Start, InitSystemUser, MirrorUser, MirrorUserFails, SaveChatCredentials,
              CreateSystemUser, Insert, CreateSystemUserFails, EnsureSystemUser,
              RestoreSystemUser, ServerStops, stores
<1>2. ASSUME NEW p \in Clients, NEW id \in UserIds, Register(p, id)
      PROVE  mirror \subseteq mirror'
  BY <1>2 DEF Register, Insert
<1>3. ASSUME NEW p \in Clients, Remove(p)
      PROVE  MirrorsKept
  <2>1. CASE DeleteMirror(p) \/ DeleteMirrorFails(p)
    <3>1. proc[p].pc = "unmirroring" /\ docs' = docs /\ mirror \ {proc[p].id} \subseteq mirror'
      BY <2>1 DEF DeleteMirror, DeleteMirrorFails
    <3>2. proc[p].id \notin DOMAIN docs
      BY <3>1 DEF IInv, ProcessSound, Processes
    <3> QED
      BY <3>1, <3>2 DEF MirrorsKept
  <2>2. CASE mirror' = mirror
    BY <2>2 DEF MirrorsKept
  <2> QED
    BY <1>3, <2>1, <2>2 DEF Remove, LookupToPurge, DeleteUser, DeleteChatCredentials, stores
<1>4. ASSUME NEW p \in Clients, Wipe(p)
      PROVE  MirrorsKept
  <2>1. CASE DeleteMirrors(p)
    <3>1. proc[p].pc = "unmirroring all" /\ docs' = docs
      BY <2>1 DEF DeleteMirrors
    <3>2. mirror \ (proc[p].ids \ proc[p].sys) \subseteq mirror'
      BY <2>1 DEF DeleteMirrors, Targets
    <3>3. ProcessSound(p)
      BY DEF IInv, Processes
    <3>4. /\ proc[p].ids \cap DOMAIN docs \subseteq proc[p].spared
          /\ proc[p].spared \cap proc[p].ids \subseteq proc[p].sys
      BY <3>1, <3>3 DEF ProcessSound, Wiping
    <3> QED
      BY <3>1, <3>2, <3>4 DEF MirrorsKept
  <2>2. CASE mirror' = mirror
    BY <2>2 DEF MirrorsKept
  <2> QED
    BY <1>4, <2>1, <2>2 DEF Wipe, AllUserIDs, FindSystem, FindSpared, WipeUsers, WipeCredentials, stores
<1>5. CASE \/ \E ps \in SUBSET Running : Crash(ps)
           \/ \E id \in UserIds : SoftDelete(id) \/ Restore(id)
           \/ UNCHANGED vars
  BY <1>5 DEF Crash, SoftDelete, Restore, vars, stores, MirrorsKept
<1> QED
  BY <1>1, <1>2, <1>3, <1>4, <1>5 DEF Next, Processes, MirrorsKept

(* Whatever runs at once, no step takes the mirror of an account that      *)
(* exists; a delete-all that waited between its lookups does not either    *)
(* (HardDeleteUser, DeleteAllUsers).                                       *)
THEOREM MirrorsOutliveAccounts == Spec => MirrorOutlivesAccount
<1>1. IInv /\ [Next]_vars => [\A id \in DOMAIN docs' : id \in mirror => id \in mirror']_vars
  BY MirrorStep DEF MirrorsKept
<1> QED
  BY <1>1, InvariantHolds, PTL DEF Spec, MirrorOutlivesAccount

WipeSpares(p) ==
    proc[p].pc \in {"wiping users", "wiping credentials"} /\ proc'[p] # proc[p] =>
        \A id \in proc[p].sys \cap DOMAIN docs :
            id \in DOMAIN docs' /\ (id \in creds => id \in creds')

LEMMA WipeStep ==
    ASSUME IInv, [Next]_vars, NEW p \in Clients
    PROVE  WipeSpares(p)
<1> SUFFICES ASSUME proc[p].pc \in {"wiping users", "wiping credentials"}, proc'[p] # proc[p]
             PROVE  \A id \in proc[p].sys \cap DOMAIN docs :
                       id \in DOMAIN docs' /\ (id \in creds => id \in creds')
  BY DEF WipeSpares
<1>1. proc[p].sys \cap DOMAIN docs \subseteq proc[p].spared
  BY DEF IInv, ProcessSound, Wiping, Processes
<1>2. CASE WipeUsers(p)
  BY <1>1, <1>2, RestrictTypes DEF WipeUsers, IInv
<1>3. CASE WipeCredentials(p)
  BY <1>1, <1>3 DEF WipeCredentials
<1>4. CASE \E ps \in SUBSET Running : Crash(ps)
  BY <1>4 DEF Crash, stores
<1>5. p \in Processes /\ proc[p] # Idle
  <2>1. Idle.pc = "idle"
    BY DEF Idle
  <2> QED
    BY <2>1 DEF Processes
<1>6. ASSUME NEW q \in Processes, q # p, NEW r, Set(q, r)
      PROVE  FALSE
  BY <1>5, <1>6 DEF Set, IInv, TypeOK
<1>7. ASSUME NEW q \in Processes, q # p
      PROVE  ~(Provision(q) \/ Start(q) \/ Remove(q) \/ Wipe(q) \/ InitSystemUser(q)
               \/ \E id \in UserIds : Register(q, id))
  <2>1. ~(Provision(q) \/ \E id \in UserIds : Register(q, id))
    BY <1>6, <1>7 DEF Provision, Register, MirrorUser, MirrorUserFails, SaveChatCredentials,
                      CreateSystemUserFails, CreateSystemUser, Insert
  <2>2. ~(Start(q) \/ InitSystemUser(q))
    BY <1>6, <1>7 DEF Start, InitSystemUser, EnsureSystemUser, RestoreSystemUser, ServerStops
  <2>3. ~Remove(q)
    BY <1>6, <1>7 DEF Remove, LookupToPurge, DeleteUser, DeleteChatCredentials, DeleteMirror,
                      DeleteMirrorFails
  <2>4. ~Wipe(q)
    BY <1>6, <1>7 DEF Wipe, AllUserIDs, FindSystem, FindSpared, WipeUsers, WipeCredentials,
                      DeleteMirrors
  <2> QED
    BY <2>1, <2>2, <2>3, <2>4
<1>8. ~(Provision(p) \/ InitSystemUser(p) \/ Remove(p) \/ \E id \in UserIds : Register(p, id))
  BY <1>5 DEF Provision, InitSystemUser, Remove, Register, MirrorUser, MirrorUserFails,
              SaveChatCredentials, CreateSystemUserFails, CreateSystemUser, LookupToPurge,
              DeleteUser, DeleteChatCredentials, DeleteMirror, DeleteMirrorFails
<1>9. Wipe(p) => WipeUsers(p) \/ WipeCredentials(p)
  BY <1>5 DEF Wipe, AllUserIDs, FindSystem, FindSpared, DeleteMirrors
<1>10. ~(\E id \in UserIds : SoftDelete(id) \/ Restore(id)) /\ ~UNCHANGED vars
  BY DEF SoftDelete, Restore, vars
<1> QED
  BY <1>2, <1>3, <1>4, <1>7, <1>8, <1>9, <1>10, ProcessesAssumption DEF Next, Processes

(* The system account that a delete-all found first survives it, with its  *)
(* credentials, whatever is restored, created or deleted meanwhile         *)
(* (Storage.DeleteAllUsers).                                               *)
THEOREM SystemSurvivesWipes == Spec => SystemOutlivesWipe
<1>1. IInv /\ [Next]_vars =>
        [\A p \in Clients :
            proc[p].pc \in {"wiping users", "wiping credentials"} /\ proc'[p] # proc[p] =>
                \A id \in proc[p].sys \cap DOMAIN docs :
                    id \in DOMAIN docs' /\ (id \in creds => id \in creds')]_vars
  BY WipeStep DEF WipeSpares
<1> QED
  BY <1>1, InvariantHolds, PTL DEF Spec, SystemOutlivesWipe

=============================================================================
