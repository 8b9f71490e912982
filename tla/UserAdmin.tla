------------------------------ MODULE UserAdmin ------------------------------
(***************************************************************************)
(* The administrator's page (web/src/views/UsersView.vue): the listing and *)
(* its pages, the edit form, deleting, restoring.  A handler that awaits   *)
(* the server is a call; the server executes its request at some moment,   *)
(* or it fails, with or without effect; calls go on in any order while the *)
(* page is used and other administrators change the same accounts.         *)
(*                                                                         *)
(* The page stays open.  A user's number is its rank in age.  What is only *)
(* shown is left out: notices, errors, the id the Undo button offers (any  *)
(* id may be restored); so are confirmations and who is signed in.         *)
(***************************************************************************)
EXTENDS Naturals, FiniteSets

CONSTANTS
    Users,
    Fields,     \* of an account that the listing shows and the form changes
    Values,
    Passwords, Blank,   \* new ones, and none
    None,       \* no form, no call, no user
    PageSize,   \* PAGE
    Slots,      \* bound: calls that wait for an answer at a time
    MaxOffset   \* bound: where the user stops paging

Inputs == Fields \cup {"password"}

Row == [id : Users, fields : [Fields -> Values]]

(* What inputs hold, all of them or those that are sent. *)
Contents(names) ==
    {g \in [names -> Values \cup Passwords \cup {Blank}] :
        \A f \in names : g[f] \in IF f = "password" THEN Passwords \cup {Blank} ELSE Values}

(* A call is "sent", "done" at the server, or "failed"; inSave says of a   *)
(* load that saveEdit awaits it, typed of an update what was typed for it. *)
Call ==
    LET Pc == {"sent", "done", "failed"}
    IN  [kind : {"load"}, offset : Nat, inSave : BOOLEAN, pc : Pc, page : SUBSET Row]
        \cup [kind : {"update"}, id : Users, payload : UNION {Contents(D) : D \in SUBSET Inputs},
              typed : SUBSET Inputs, pc : Pc]
        \cup [kind : {"delete", "restore"}, id : Users, pc : Pc]

ASSUME UserAdminAssumption ==
    /\ Users \subseteq Nat /\ IsFiniteSet(Users)
    /\ None \notin Users \cup Call
    /\ Blank \notin Passwords
    /\ "password" \notin Fields
    /\ PageSize \in Nat \ {0}

VARIABLES
    accounts,   \* at the server
    deleted,    \* those of Users that are soft-deleted
    users, offset, hasMore, loading,    \* the listing
    editing, saving,                    \* the form
    calls

server == <<accounts, deleted>>
listing == <<users, offset, hasMore, loading>>
form == <<editing, saving>>
vars == <<server, listing, form, calls>>

-----------------------------------------------------------------------------
(* Calls and the form *)

(* The form: [original |-> the row it was opened on, inputs, typed], the   *)
(* last, for the properties, being the inputs changed since it was opened. *)
Load(from_, inSave) ==
    [kind |-> "load", offset |-> from_, inSave |-> inSave, pc |-> "sent", page |-> {}]

Free == {c \in Slots : calls[c] = None}

Set(c, call) == calls' = [calls EXCEPT ![c] = call]

(* A handler starts: any free slot is as good as another. *)
Begin(call) == Free # {} /\ Set(CHOOSE c \in Free : TRUE, call)

-----------------------------------------------------------------------------
(* The listing *)

StartLoad == loading' = TRUE

Refresh ==
    /\ ~loading
    /\ StartLoad /\ Begin(Load(offset, FALSE))
    /\ UNCHANGED <<server, users, offset, hasMore, form>>

NextPage ==
    /\ hasMore /\ ~loading /\ offset < MaxOffset
    /\ offset' = offset + PageSize
    /\ StartLoad /\ Begin(Load(offset', FALSE))
    /\ UNCHANGED <<server, users, hasMore, form>>

PrevPage ==
    /\ offset # 0 /\ ~loading
    /\ offset' = IF offset < PageSize THEN 0 ELSE offset - PageSize
    /\ StartLoad /\ Begin(Load(offset', FALSE))
    /\ UNCHANGED <<server, users, hasMore, form>>

-----------------------------------------------------------------------------
(* The form *)

InputsOf(row) == [f \in Inputs |-> IF f \in Fields THEN row.fields[f] ELSE Blank]

MutantStartEdit(row) ==
    /\ row \in users
    /\ editing' = [original |-> row, typed |-> {},
                   inputs |-> [InputsOf(row) EXCEPT !["password"] =
                                  IF editing = None THEN Blank ELSE editing.inputs["password"]]]
    /\ UNCHANGED <<server, listing, saving, calls>>

(* Also while another user's form is open, or being saved. *)
StartEdit(row) ==
    /\ row \in users
    /\ editing' = [original |-> row, inputs |-> InputsOf(row), typed |-> {}]
    /\ UNCHANGED <<server, listing, saving, calls>>

Type(f, value) ==
    /\ editing # None /\ editing.inputs[f] # value
    /\ editing' = [editing EXCEPT !.inputs[f] = value, !.typed = @ \cup {f}]
    /\ UNCHANGED <<server, listing, saving, calls>>

CancelEdit ==
    /\ ~saving /\ editing # None
    /\ editing' = None
    /\ UNCHANGED <<server, listing, saving, calls>>

(* Only what differs from the row the form was opened on is sent. *)
Payload(e) ==
    [f \in {f \in Inputs : e.inputs[f] # InputsOf(e.original)[f]} |-> e.inputs[f]]

MutantSaveEdit ==
    /\ editing # None
    /\ saving' = TRUE
    /\ Begin([kind |-> "update", id |-> editing.original.id,
              payload |-> Payload(editing), typed |-> editing.typed, pc |-> "sent"])
    /\ UNCHANGED <<server, listing, editing>>

SaveEdit ==
    /\ ~saving /\ editing # None
    /\ DOMAIN Payload(editing) # {}
    /\ saving' = TRUE
    /\ Begin([kind |-> "update", id |-> editing.original.id,
              payload |-> Payload(editing), typed |-> editing.typed, pc |-> "sent"])
    /\ UNCHANGED <<server, listing, editing>>

-----------------------------------------------------------------------------
(* Deleting and restoring *)

Remove(row) ==
    /\ row \in users
    /\ Begin([kind |-> "delete", id |-> row.id, pc |-> "sent"])
    /\ UNCHANGED <<server, listing, form>>

(* By the Undo button or an id typed in. *)
Restore(id) ==
    /\ Begin([kind |-> "restore", id |-> id, pc |-> "sent"])
    /\ UNCHANGED <<server, listing, form>>

-----------------------------------------------------------------------------
(* The server *)

(* ListUsers: those that are not deleted, oldest first. *)
PageAt(off) ==
    LET live == Users \ deleted
        rank(u) == Cardinality({v \in live : v < u})
    IN  {[id |-> u, fields |-> accounts[u]] :
            u \in {u \in live : off <= rank(u) /\ rank(u) < off + PageSize}}

(* A field that is not in the payload stays (UpdateUser). *)
Updated(id, payload) ==
    accounts' = [accounts EXCEPT ![id] =
                    [f \in Fields |-> IF f \in DOMAIN payload THEN payload[f] ELSE @[f]]]

Executed(call) ==
    CASE call.kind = "update" ->
            call.id \notin deleted /\ Updated(call.id, call.payload) /\ UNCHANGED deleted
      [] call.kind = "delete" ->
            call.id \notin deleted /\ deleted' = deleted \cup {call.id} /\ UNCHANGED accounts
      [] call.kind = "restore" ->
            call.id \in deleted /\ deleted' = deleted \ {call.id} /\ UNCHANGED accounts
      [] OTHER -> UNCHANGED server

Execute(c) ==
    /\ calls[c] # None /\ calls[c].pc = "sent"
    /\ Executed(calls[c])
    /\ Set(c, IF calls[c].kind = "load"
              THEN [calls[c] EXCEPT !.pc = "done", !.page = PageAt(calls[c].offset)]
              ELSE [calls[c] EXCEPT !.pc = "done"])
    /\ UNCHANGED <<listing, form>>

(* Refused, or the answer is lost. *)
Fail(c) ==
    /\ calls[c] # None /\ calls[c].pc = "sent"
    /\ UNCHANGED server \/ Executed(calls[c])
    /\ Set(c, [calls[c] EXCEPT !.pc = "failed"])
    /\ UNCHANGED <<listing, form>>

OtherAdmin(id) ==
    /\ \/ id \notin deleted /\ UNCHANGED deleted
          /\ \E f \in Fields, value \in Values : Updated(id, [g \in {f} |-> value])
       \/ /\ deleted' = (IF id \in deleted THEN deleted \ {id} ELSE deleted \cup {id})
          /\ UNCHANGED accounts
    /\ UNCHANGED <<listing, form, calls>>

-----------------------------------------------------------------------------
(* Answers *)

Answered(c, kind, pc) == calls[c] # None /\ calls[c].kind = kind /\ calls[c].pc = pc

(* load never throws; saveEdit's finally comes when it has awaited it. *)
Loaded(c) ==
    /\ Answered(c, "load", "done")
    /\ users' = calls[c].page
    /\ hasMore' = (Cardinality(users') = PageSize)
    /\ loading' = FALSE
    /\ saving' = (saving /\ ~calls[c].inSave)
    /\ Set(c, None)
    /\ UNCHANGED <<server, offset, editing>>

MutantLoadFailed(c) ==
    /\ Answered(c, "load", "failed")
    /\ Set(c, None)
    /\ UNCHANGED <<server, listing, form>>

LoadFailed(c) ==
    /\ Answered(c, "load", "failed")
    /\ loading' = FALSE
    /\ saving' = (saving /\ ~calls[c].inSave)
    /\ Set(c, None)
    /\ UNCHANGED <<server, users, offset, hasMore, editing>>

(* Every success goes on with a load of the page the user is at by now. *)
ThenLoad(c, inSave) ==
    /\ StartLoad /\ Set(c, Load(offset, inSave))
    /\ UNCHANGED <<server, users, offset, hasMore>>

(* The form is closed, whoever it shows. *)
Saved(c) ==
    /\ Answered(c, "update", "done")
    /\ editing' = None
    /\ ThenLoad(c, TRUE)
    /\ UNCHANGED saving

SaveFailed(c) ==
    /\ Answered(c, "update", "failed")
    /\ saving' = FALSE
    /\ Set(c, None)
    /\ UNCHANGED <<server, listing, editing>>

Removed(c) ==
    /\ Answered(c, "delete", "done")
    /\ ThenLoad(c, FALSE)
    /\ UNCHANGED form

Restored(c) ==
    /\ Answered(c, "restore", "done")
    /\ ThenLoad(c, FALSE)
    /\ UNCHANGED form

RemoveOrRestoreFailed(c) ==
    /\ Answered(c, "delete", "failed") \/ Answered(c, "restore", "failed")
    /\ Set(c, None)
    /\ UNCHANGED <<server, listing, form>>

Answer(c) ==
    Loaded(c) \/ LoadFailed(c) \/ Saved(c) \/ SaveFailed(c)
    \/ Removed(c) \/ Restored(c) \/ RemoveOrRestoreFailed(c)

-----------------------------------------------------------------------------

(* onMounted(load) *)
Init ==
    /\ accounts \in [Users -> [Fields -> Values]] /\ deleted = {}
    /\ users = {} /\ offset = 0 /\ hasMore = FALSE
    /\ loading = TRUE
    /\ editing = None /\ saving = FALSE
    /\ calls = [c \in Slots |-> IF c = CHOOSE d \in Slots : TRUE THEN Load(0, FALSE) ELSE None]

Next ==
    \/ Refresh \/ NextPage \/ PrevPage \/ CancelEdit \/ SaveEdit
    \/ \E row \in users : StartEdit(row) \/ Remove(row)
    \/ \E f \in Fields, value \in Values : Type(f, value)
    \/ \E value \in Passwords \cup {Blank} : Type("password", value)
    \/ \E id \in Users : Restore(id) \/ OtherAdmin(id)
    \/ \E c \in Slots : Execute(c) \/ Fail(c) \/ Answer(c)

(* Every request ends, by an answer or an error, and its handler goes on. *)
Fairness == \A c \in Slots : WF_vars(Execute(c) \/ Fail(c)) /\ WF_vars(Answer(c))

Spec == Init /\ [][Next]_vars /\ Fairness

-----------------------------------------------------------------------------
(* Properties *)

(* An update sends nothing but what was typed for its user: what other     *)
(* administrators changed since the row was listed stays, and a password   *)
(* typed for one user never goes to another, although the form is reused   *)
(* while it is open or being saved (startEdit, saveEdit).                  *)
OnlyTypedIsSent ==
    \A c \in Slots :
        calls[c] # None /\ calls[c].kind = "update" => DOMAIN calls[c].payload \subseteq calls[c].typed

(* Save is disabled exactly while a save goes on, to the end of its        *)
(* reload, and so no two saves are under way (saving, its finally).        *)
SavingIsOneSave ==
    LET saves == {c \in Slots : calls[c] # None /\
                     (calls[c].kind = "update" \/ (calls[c].kind = "load" /\ calls[c].inSave))}
    IN  Cardinality(saves) = IF saving THEN 1 ELSE 0

(* Whatever fails or overlaps, the buttons come back (load, saveEdit).     *)
ButtonsComeBack == (loading ~> ~loading) /\ (saving ~> ~saving)

=============================================================================
