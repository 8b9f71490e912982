---------------------------- MODULE EthoraMirror ----------------------------
(***************************************************************************)
(* How mirrored accounts are deleted on the chat platform                  *)
(* (internal/mirror/ethora.go): one batch call for all of them and, when   *)
(* that fails, one call for each.  The platform is external: it refuses a  *)
(* whole batch with 404 when it does not know one of the ids.  A call may  *)
(* also end in another error, and then it may or may not have been carried *)
(* out: a refusal, a timeout, an answer that was lost.                     *)
(*                                                                         *)
(* Several deletions run at once (gochactrl delete-all and delete --hard), *)
(* and registrations go on mirroring.                                      *)
(***************************************************************************)
EXTENDS Naturals, FiniteSets

CONSTANTS
    Ids,            \* our user ids, the uuids of the mirrored accounts
    Deleters        \* calls of DeleteUsers and DeleteUser at once

(* There are finitely many users, and a batch is a list of some of them. *)
ASSUME IdsAssumption == IsFiniteSet(Ids)

VARIABLES
    accounts,       \* accounts on the platform
    mirrored,       \* ids that were ever mirrored: each one is at most once
    call            \* what each deletion has done so far

vars == <<accounts, mirrored, call>>

Idle == [pc |-> "idle"]

(* known: the ids mirrored before the call began, for the properties only. *)
Call ==
    {Idle}
    \cup [pc : {"batch"}, ids : SUBSET Ids, known : SUBSET Ids]
    \cup [pc : {"each", "returned"}, ids : SUBSET Ids, known : SUBSET Ids,
          todo : SUBSET Ids, failed : SUBSET Ids]

Set(d, state) == call' = [call EXCEPT ![d] = state]

(* The fallback, or the end of it when nothing is left to do.  A failure   *)
(* does not end it: the errors are joined.                                 *)
MutantEach(c, todo, failed) ==
    [pc |-> IF todo = {} \/ failed # {} THEN "returned" ELSE "each",
     ids |-> c.ids, known |-> c.known, todo |-> todo, failed |-> failed]

Each(c, todo, failed) ==
    [pc |-> IF todo = {} THEN "returned" ELSE "each",
     ids |-> c.ids, known |-> c.known, todo |-> todo, failed |-> failed]

-----------------------------------------------------------------------------
(* The platform's answers to DELETE /v1/users/batch *)

Deletes(ids) == ids \subseteq accounts /\ accounts' = accounts \ ids

NotFound(ids) == ~(ids \subseteq accounts) /\ accounts' = accounts

Fails(ids) == accounts' = accounts \/ Deletes(ids)

-----------------------------------------------------------------------------

MirrorUser(id) ==
    /\ id \notin mirrored
    /\ mirrored' = mirrored \cup {id}
    /\ accounts' = accounts \cup {id}
    /\ UNCHANGED call

(* DeleteUsers returns at once when there is nothing to delete. *)
DeleteUsers(d, ids) ==
    /\ call[d] = Idle
    /\ ids # {}
    /\ Set(d, [pc |-> "batch", ids |-> ids, known |-> mirrored])
    /\ UNCHANGED <<accounts, mirrored>>

DeleteUser(d, id) ==
    /\ call[d] = Idle
    /\ Set(d, Each([ids |-> {id}, known |-> mirrored], {id}, {}))
    /\ UNCHANGED <<accounts, mirrored>>

(* A 404 means "already gone" for a single id only: for a batch it means   *)
(* that nothing was deleted.                                               *)
MutantSettles404(ids) == TRUE

Settles404(ids) == Cardinality(ids) = 1

Batch(d) ==
    LET c == call[d] IN
    /\ c.pc = "batch"
    /\ \/ Deletes(c.ids) /\ Set(d, Each(c, {}, {}))
       \/ NotFound(c.ids) /\ Set(d, Each(c, IF Settles404(c.ids) THEN {} ELSE c.ids, {}))
       \/ Fails(c.ids) /\ Set(d, Each(c, c.ids, {}))
    /\ UNCHANGED mirrored

DeleteOne(d, id) ==
    LET c == call[d] IN
    /\ c.pc = "each" /\ id \in c.todo
    /\ \/ (Deletes({id}) \/ NotFound({id})) /\ Set(d, Each(c, c.todo \ {id}, c.failed))
       \/ Fails({id}) /\ Set(d, Each(c, c.todo \ {id}, c.failed \cup {id}))
    /\ UNCHANGED mirrored

Return(d) ==
    /\ call[d].pc = "returned"
    /\ Set(d, Idle)
    /\ UNCHANGED <<accounts, mirrored>>

-----------------------------------------------------------------------------

Init == accounts = {} /\ mirrored = {} /\ call = [d \in Deleters |-> Idle]

Next ==
    \/ \E id \in Ids : MirrorUser(id)
    \/ \E d \in Deleters :
          \/ \E ids \in SUBSET Ids : DeleteUsers(d, ids)
          \/ \E id \in Ids : DeleteUser(d, id) \/ DeleteOne(d, id)
          \/ Batch(d) \/ Return(d)

Spec == Init /\ [][Next]_vars

-----------------------------------------------------------------------------
(* Properties *)

TypeOK ==
    /\ accounts \subseteq mirrored /\ mirrored \subseteq Ids
    /\ call \in [Deleters -> Call]
    /\ \A d \in Deleters : call[d].pc \in {"each", "returned"} =>
          /\ call[d].todo \cup call[d].failed \subseteq call[d].ids
          /\ call[d].pc = "returned" <=> call[d].todo = {}

(* What a deletion does not report as failed is gone, whatever was lost on *)
(* the way and whoever else was deleting, unless it was only mirrored      *)
(* after the deletion began (Ethora.DeleteUsers, DeleteUser).              *)
UnreportedIsGone ==
    \A d \in Deleters : call[d].pc = "returned" =>
        (call[d].ids \cap call[d].known) \cap accounts \subseteq call[d].failed

=============================================================================
