------------------------- MODULE EthoraMirror_proofs -------------------------
(***************************************************************************)
(* Proof that deletions on the platform report what they leave behind, for *)
(* every set of ids and any number of deletions at once.                   *)
(*                                                                         *)
(* UnreportedIsGone speaks of deletions that are over; while the fallback  *)
(* runs, an account that was there at the start may also be one still to   *)
(* be tried (Accounted).  That no one else undoes it is Tracked: what was  *)
(* mirrored before the call began is never mirrored again.                 *)
(***************************************************************************)
EXTENDS EthoraMirror, FiniteSetTheorems, TLAPS

Falling == {"each", "returned"}

Accounted(c) ==
    c.pc \in Falling => c.ids \cap c.known \cap accounts \subseteq c.todo \cup c.failed

Tracked(c) == c.pc \in {"batch"} \cup Falling => c.known \subseteq mirrored

IInv == TypeOK /\ \A d \in Deleters : Accounted(call[d]) /\ Tracked(call[d])

-----------------------------------------------------------------------------
(* The records of deletions *)

LEMMA CallForms ==
    ASSUME NEW c \in Call
    PROVE  /\ c.pc \in {"idle", "batch", "each", "returned"}
           /\ c.pc \in {"batch", "each", "returned"} => c.ids \in SUBSET Ids /\ c.known \in SUBSET Ids
           /\ c.pc \in Falling => c.todo \in SUBSET Ids /\ c.failed \in SUBSET Ids
<1> USE DEF Falling
<1>1. CASE c = Idle
  BY <1>1 DEF Idle
<1>2. CASE c \in [pc : {"batch"}, ids : SUBSET Ids, known : SUBSET Ids]
  BY <1>2
<1>3. CASE c \in [pc : {"each", "returned"}, ids : SUBSET Ids, known : SUBSET Ids,
                  todo : SUBSET Ids, failed : SUBSET Ids]
  BY <1>3
<1> QED
  BY <1>1, <1>2, <1>3 DEF Call

(* What the fallback goes on with. *)
LEMMA EachForms ==
    ASSUME NEW c, NEW todo \in SUBSET Ids, NEW failed \in SUBSET Ids,
           c.ids \in SUBSET Ids, c.known \in SUBSET Ids
    PROVE  LET e == Each(c, todo, failed)
           IN  /\ e \in Call /\ e.pc \in Falling
               /\ e.pc = "returned" <=> todo = {}
               /\ e.ids = c.ids /\ e.known = c.known /\ e.todo = todo /\ e.failed = failed
<1> DEFINE pc == IF todo = {} THEN "returned" ELSE "each"
           ids == c.ids
           known == c.known
           e == [pc |-> pc, ids |-> ids, known |-> known, todo |-> todo, failed |-> failed]
<1>1. pc \in Falling /\ (pc = "returned" <=> todo = {}) /\ pc \in {"each", "returned"}
  BY DEF Falling
<1>2. ids \in SUBSET Ids /\ known \in SUBSET Ids
  OBVIOUS
<1>3. Each(c, todo, failed) = e
  BY DEF Each
<1> HIDE DEF pc, ids, known
<1>4. /\ e.pc = pc /\ e.ids = ids /\ e.known = known
      /\ e.todo = todo /\ e.failed = failed
  OBVIOUS
<1>5. e \in Call
  BY <1>1, <1>2 DEF Call
<1> HIDE DEF e
<1> QED
  BY <1>1, <1>3, <1>4, <1>5 DEF ids, known

(* A step of one deletion, on accounts that only it takes away. *)
LEMMA StepKeeps ==
    ASSUME IInv, NEW d \in Deleters, NEW c \in Call, Set(d, c),
           accounts' \subseteq accounts, mirrored' = mirrored,
           c.pc \in Falling =>
              /\ c.todo \cup c.failed \subseteq c.ids
              /\ c.pc = "returned" <=> c.todo = {}
              /\ c.ids \cap c.known \cap accounts' \subseteq c.todo \cup c.failed,
           c.pc \in {"batch"} \cup Falling => c.known \subseteq mirrored
    PROVE  IInv'
<1>1. call' \in [Deleters -> Call] /\ call'[d] = c
  BY DEF Set, IInv, TypeOK
<1>2. \A b \in Deleters : b # d => call'[b] = call[b]
  BY DEF Set, IInv, TypeOK
<1>3. TypeOK'
  <2>1. \A b \in Deleters : call'[b].pc \in {"each", "returned"} =>
           /\ call'[b].todo \cup call'[b].failed \subseteq call'[b].ids
           /\ call'[b].pc = "returned" <=> call'[b].todo = {}
    BY <1>1, <1>2 DEF IInv, TypeOK, Falling
  <2> QED
    BY <1>1, <2>1 DEF IInv, TypeOK
<1>4. ASSUME NEW b \in Deleters
      PROVE  Accounted(call[b])' /\ Tracked(call[b])'
  <2>1. CASE b = d
    BY <1>1, <2>1 DEF Accounted, Tracked
  <2>2. CASE b # d
    BY <1>2, <2>2 DEF IInv, Accounted, Tracked
  <2> QED
    BY <2>1, <2>2
<1> QED
  BY <1>3, <1>4 DEF IInv

-----------------------------------------------------------------------------
(* The actions *)

LEMMA MirrorKeeps ==
    ASSUME IInv, NEW id \in Ids, MirrorUser(id)
    PROVE  IInv'
<1>1. TypeOK'
  BY DEF MirrorUser, IInv, TypeOK
<1>2. ASSUME NEW d \in Deleters
      PROVE  Accounted(call[d])' /\ Tracked(call[d])'
  BY DEF MirrorUser, IInv, Accounted, Tracked, Falling
<1> QED
  BY <1>1, <1>2 DEF IInv

LEMMA BeginKeeps ==
    ASSUME IInv, NEW d \in Deleters,
           \/ \E ids \in SUBSET Ids : DeleteUsers(d, ids)
           \/ \E id \in Ids : DeleteUser(d, id)
    PROVE  IInv'
<1>0. mirrored \in SUBSET Ids
  BY DEF IInv, TypeOK
<1>1. ASSUME NEW ids \in SUBSET Ids, DeleteUsers(d, ids)
      PROVE  IInv'
  <2> DEFINE c == [pc |-> "batch", ids |-> ids, known |-> mirrored]
  <2>1. c \in Call /\ c.pc = "batch" /\ c.known = mirrored
    BY <1>0 DEF Call
  <2>2. Set(d, c) /\ UNCHANGED <<accounts, mirrored>>
    BY <1>1 DEF DeleteUsers
  <2> HIDE DEF c
  <2> QED
    BY <2>1, <2>2, StepKeeps DEF Falling
<1>2. ASSUME NEW id \in Ids, DeleteUser(d, id)
      PROVE  IInv'
  <2> DEFINE q == [ids |-> {id}, known |-> mirrored]
             c == Each(q, {id}, {})
  <2>1. q.ids = {id} /\ q.known = mirrored
    OBVIOUS
  <2>2. Set(d, c) /\ UNCHANGED <<accounts, mirrored>>
    BY <1>2 DEF DeleteUser
  <2> HIDE DEF q
  <2>3. /\ c \in Call /\ c.pc \in Falling /\ (c.pc = "returned" <=> {id} = {})
        /\ c.ids = q.ids /\ c.known = q.known /\ c.todo = {id} /\ c.failed = {}
    BY <1>0, <2>1, EachForms
  <2> HIDE DEF c
  <2> QED
    BY <2>1, <2>2, <2>3, StepKeeps
<1> QED
  BY <1>1, <1>2

LEMMA BatchKeeps ==
    ASSUME IInv, NEW d \in Deleters, Batch(d)
    PROVE  IInv'
<1> DEFINE c == call[d]
<1>1. /\ c \in Call /\ c.pc = "batch" /\ c.ids \in SUBSET Ids /\ c.known \in SUBSET Ids
      /\ c.known \subseteq mirrored
  BY CallForms DEF Batch, IInv, TypeOK, Tracked
<1>2. mirrored' = mirrored
  BY DEF Batch
<1> HIDE DEF c
<1>3. ASSUME NEW todo \in SUBSET c.ids, Set(d, Each(c, todo, {})), accounts' \subseteq accounts,
             c.ids \cap c.known \cap accounts' \subseteq todo
      PROVE  IInv'
  <2> DEFINE e == Each(c, todo, {})
  <2>1. /\ e \in Call /\ e.pc \in Falling /\ (e.pc = "returned" <=> todo = {})
        /\ e.ids = c.ids /\ e.known = c.known /\ e.todo = todo /\ e.failed = {}
    BY <1>1, EachForms
  <2>2. Set(d, e)
    BY <1>3
  <2> HIDE DEF e
  <2> QED
    BY <1>1, <1>2, <1>3, <2>1, <2>2, StepKeeps
<1>4. CASE Deletes(c.ids) /\ Set(d, Each(c, {}, {}))
  BY <1>3, <1>4 DEF Deletes
<1>5. CASE NotFound(c.ids) /\ Set(d, Each(c, IF Settles404(c.ids) THEN {} ELSE c.ids, {}))
  <2>1. CASE Settles404(c.ids)
    <3>1. IsFiniteSet(c.ids)
      BY <1>1, IdsAssumption, FS_Subset
    <3>2. \E id : c.ids = {id}
      BY <2>1, <3>1, FS_Singleton DEF Settles404
    <3>3. c.ids \cap accounts = {}
      BY <1>5, <3>2 DEF NotFound
    <3> QED
      BY <1>3, <1>5, <2>1, <3>3 DEF NotFound
  <2>2. CASE ~Settles404(c.ids)
    BY <1>3, <1>5, <2>2 DEF NotFound
  <2> QED
    BY <2>1, <2>2
<1>6. CASE Fails(c.ids) /\ Set(d, Each(c, c.ids, {}))
  BY <1>3, <1>6 DEF Fails, Deletes
<1> QED
  BY <1>4, <1>5, <1>6 DEF Batch, c

LEMMA DeleteOneKeeps ==
    ASSUME IInv, NEW d \in Deleters, NEW id \in Ids, DeleteOne(d, id)
    PROVE  IInv'
<1> DEFINE c == call[d]
<1>1. /\ c \in Call /\ c.pc = "each" /\ c.ids \in SUBSET Ids /\ c.known \in SUBSET Ids
      /\ c.todo \in SUBSET Ids /\ c.failed \in SUBSET Ids
  BY CallForms DEF DeleteOne, IInv, TypeOK, Falling
<1>2. /\ c.todo \cup c.failed \subseteq c.ids /\ c.known \subseteq mirrored
      /\ c.ids \cap c.known \cap accounts \subseteq c.todo \cup c.failed
  BY <1>1 DEF IInv, TypeOK, Accounted, Tracked, Falling
<1>3. mirrored' = mirrored /\ id \in c.todo /\ accounts' \subseteq accounts
  BY DEF DeleteOne, Deletes, NotFound, Fails
<1>4. \/ Set(d, Each(c, c.todo \ {id}, c.failed)) /\ id \notin accounts'
      \/ Set(d, Each(c, c.todo \ {id}, c.failed \cup {id}))
  BY DEF DeleteOne, Deletes, NotFound
<1> HIDE DEF c
<1>5. ASSUME NEW failed \in {c.failed, c.failed \cup {id}}, Set(d, Each(c, c.todo \ {id}, failed)),
             id \in failed \/ id \notin accounts'
      PROVE  IInv'
  <2> DEFINE todo == c.todo \ {id}
             e == Each(c, todo, failed)
  <2>1. todo \in SUBSET Ids /\ failed \in SUBSET Ids
    BY <1>1
  <2>2. /\ e \in Call /\ e.pc \in Falling /\ (e.pc = "returned" <=> todo = {})
        /\ e.ids = c.ids /\ e.known = c.known /\ e.todo = todo /\ e.failed = failed
    BY <1>1, <2>1, EachForms
  <2>3. /\ todo \cup failed \subseteq c.ids
        /\ c.ids \cap c.known \cap accounts' \subseteq todo \cup failed
    BY <1>2, <1>3, <1>5
  <2>4. Set(d, e)
    BY <1>5
  <2> HIDE DEF e, todo
  <2> QED
    BY <1>2, <1>3, <2>2, <2>3, <2>4, StepKeeps
<1> QED
  BY <1>4, <1>5

LEMMA ReturnKeeps ==
    ASSUME IInv, NEW d \in Deleters, Return(d)
    PROVE  IInv'
<1>1. Idle \in Call /\ Idle.pc = "idle"
  BY DEF Idle, Call
<1>2. Set(d, Idle) /\ UNCHANGED <<accounts, mirrored>>
  BY DEF Return
<1> QED
  BY <1>1, <1>2, StepKeeps DEF Falling

-----------------------------------------------------------------------------

(* A deletion in progress still knows of every account it has not dealt    *)
(* with, whatever registrations and other deletions do meanwhile.          *)
THEOREM InvariantHolds == Spec => []IInv
<1>1. Init => IInv
  <2>1. Idle \in Call /\ Idle.pc = "idle"
    BY DEF Idle, Call
  <2> QED
    BY <2>1 DEF Init, IInv, TypeOK, Accounted, Tracked, Falling
<1>2. ASSUME IInv, [Next]_vars
      PROVE  IInv'
  <2>1. CASE UNCHANGED vars
    <3>1. accounts' = accounts /\ mirrored' = mirrored /\ call' = call
      BY <2>1 DEF vars
    <3>2. TypeOK'
      BY <1>2, <3>1 DEF IInv, TypeOK, Call, Idle
    <3>3. \A d \in Deleters : Accounted(call[d])' /\ Tracked(call[d])'
      BY <1>2, <3>1 DEF IInv, Accounted, Tracked, Falling
    <3> QED
      BY <3>2, <3>3 DEF IInv
  <2> QED
    BY <1>2, <2>1, MirrorKeeps, BeginKeeps, BatchKeeps, DeleteOneKeeps, ReturnKeeps DEF Next
<1> QED
  BY <1>1, <1>2, PTL DEF Spec

(* Accounts are of mirrored ids; a deletion that has returned has nothing  *)
(* left to do.                                                             *)
THEOREM TypeCorrect == Spec => []TypeOK
<1>1. IInv => TypeOK
  BY DEF IInv
<1> QED
  BY <1>1, InvariantHolds, PTL

(* What a deletion does not report as failed is gone, however answers were *)
(* lost and deletions overlapped (Ethora.DeleteUsers, DeleteUser).         *)
THEOREM UnreportedAreGone == Spec => []UnreportedIsGone
<1>1. IInv => UnreportedIsGone
  BY DEF IInv, TypeOK, Accounted, UnreportedIsGone, Falling
<1> QED
  BY <1>1, InvariantHolds, PTL

=============================================================================
