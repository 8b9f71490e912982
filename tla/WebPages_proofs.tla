--------------------------- MODULE WebPages_proofs ---------------------------
(***************************************************************************)
(* Proofs about the pages of the web client: the administrator's page      *)
(* (UserAdmin), for every set of users, fields and values and any number   *)
(* of calls in flight; the page of a chat (ChatView), for any number of    *)
(* chats, messages and requests; the list of chats (ChatList), for any     *)
(* number of chats and of tabs that come and go.                           *)
(***************************************************************************)
EXTENDS UserAdmin, Sequences, FiniteSetTheorems, TLAPS

-----------------------------------------------------------------------------
(* The administrator's page: the inductive invariant *)

Form == [original : Row, inputs : Contents(Inputs), typed : SUBSET Inputs]

PageType ==
    /\ accounts \in [Users -> [Fields -> Values]] /\ deleted \subseteq Users
    /\ users \subseteq Row /\ offset \in Nat
    /\ {hasMore, loading, saving} \subseteq BOOLEAN
    /\ editing \in Form \cup {None}
    /\ calls \in [Slots -> Call \cup {None}]

(* What differs from the row the form was opened on was typed into it. *)
TypedKnown ==
    editing # None =>
        \A f \in Inputs : editing.inputs[f] # InputsOf(editing.original)[f] => f \in editing.typed

IsSave(call) == call # None /\ (call.kind = "update" \/ (call.kind = "load" /\ call.inSave))

OneSave ==
    IF saving THEN \E c \in Slots : \A d \in Slots : IsSave(calls[d]) <=> d = c
    ELSE \A d \in Slots : ~IsSave(calls[d])

AdminInv == PageType /\ TypedKnown /\ OnlyTypedIsSent /\ OneSave

(* OneSave is SavingIsOneSave without the counting. *)
LEMMA OneSaveCounts == OneSave => SavingIsOneSave
<1> DEFINE saves == {c \in Slots : calls[c] # None /\
                        (calls[c].kind = "update" \/ (calls[c].kind = "load" /\ calls[c].inSave))}
<1>1. ASSUME saving, OneSave
      PROVE  Cardinality(saves) = 1
  <2>1. PICK c \in Slots : \A d \in Slots : IsSave(calls[d]) <=> d = c
    BY <1>1 DEF OneSave
  <2>2. saves = {c}
    BY <2>1 DEF IsSave
  <2> QED
    BY <2>2, FS_Singleton
<1>2. ASSUME ~saving, OneSave
      PROVE  Cardinality(saves) = 0
  <2>1. saves = {}
    BY <1>2 DEF OneSave, IsSave
  <2> QED
    BY <2>1, FS_EmptySet
<1> QED
  BY <1>1, <1>2 DEF SavingIsOneSave

-----------------------------------------------------------------------------
(* Calls *)

CallPc == {"sent", "done", "failed"}

LEMMA CallKinds ==
    ASSUME NEW call \in Call
    PROVE  /\ call # None /\ call.pc \in CallPc
           /\ call.kind \in {"load", "update", "delete", "restore"}
           /\ call.kind = "load" => call.offset \in Nat /\ call.inSave \in BOOLEAN /\ call.page \subseteq Row
           /\ call.kind = "update" =>
                /\ call.id \in Users /\ call.typed \subseteq Inputs
                /\ \E D \in SUBSET Inputs : call.payload \in Contents(D)
           /\ call.kind \in {"delete", "restore"} => call.id \in Users
BY UserAdminAssumption DEF Call, CallPc

(* A call that goes on keeps everything but its pc, and a load its page. *)
LEMMA CallGoesOn ==
    ASSUME NEW call \in Call, NEW pc \in CallPc, NEW page \in SUBSET Row
    PROVE  /\ [call EXCEPT !.pc = pc] \in Call
           /\ IsSave([call EXCEPT !.pc = pc]) <=> IsSave(call)
           /\ [call EXCEPT !.pc = pc].kind = call.kind
           /\ call.kind = "update" => /\ [call EXCEPT !.pc = pc].payload = call.payload
                                      /\ [call EXCEPT !.pc = pc].typed = call.typed
           /\ call.kind = "load" =>
                /\ [call EXCEPT !.pc = pc, !.page = page] \in Call
                /\ IsSave([call EXCEPT !.pc = pc, !.page = page]) <=> IsSave(call)
                /\ [call EXCEPT !.pc = pc, !.page = page].kind = "load"
<1>1. CASE call.kind = "load"
  <2>1. call \in [kind : {"load"}, offset : Nat, inSave : BOOLEAN, pc : CallPc, page : SUBSET Row]
    BY <1>1 DEF Call, CallPc
  <2>2. /\ [call EXCEPT !.pc = pc] \in Call
        /\ [call EXCEPT !.pc = pc].kind = "load"
        /\ [call EXCEPT !.pc = pc].inSave = call.inSave
    BY <2>1 DEF Call, CallPc
  <2>3. /\ [call EXCEPT !.pc = pc, !.page = page] \in Call
        /\ [call EXCEPT !.pc = pc, !.page = page].kind = "load"
        /\ [call EXCEPT !.pc = pc, !.page = page].inSave = call.inSave
    BY <2>1 DEF Call, CallPc
  <2> QED
    BY <1>1, <2>2, <2>3, UserAdminAssumption DEF IsSave
<1>2. CASE call.kind = "update"
  <2>1. call \in [kind : {"update"}, id : Users, payload : UNION {Contents(D) : D \in SUBSET Inputs},
                  typed : SUBSET Inputs, pc : CallPc]
    BY <1>2 DEF Call, CallPc
  <2>2. /\ [call EXCEPT !.pc = pc] \in Call
        /\ [call EXCEPT !.pc = pc].kind = "update"
        /\ [call EXCEPT !.pc = pc].payload = call.payload
        /\ [call EXCEPT !.pc = pc].typed = call.typed
    BY <2>1 DEF Call, CallPc
  <2> QED
    BY <1>2, <2>2, UserAdminAssumption DEF IsSave
<1>3. CASE call.kind \in {"delete", "restore"}
  <2>1. call \in [kind : {"delete", "restore"}, id : Users, pc : CallPc]
    BY <1>3 DEF Call, CallPc
  <2>2. /\ [call EXCEPT !.pc = pc] \in Call
        /\ [call EXCEPT !.pc = pc].kind = call.kind
    BY <2>1 DEF Call, CallPc
  <2> QED
    BY <1>3, <2>2 DEF IsSave
<1> QED
  BY <1>1, <1>2, <1>3, CallKinds

LEMMA LoadIsCall ==
    ASSUME NEW from_ \in Nat, NEW inSave \in BOOLEAN
    PROVE  /\ Load(from_, inSave) \in Call /\ Load(from_, inSave) # None
           /\ Load(from_, inSave).kind = "load"
           /\ IsSave(Load(from_, inSave)) <=> inSave
<1>1. Load(from_, inSave) \in Call
  BY DEF Load, Call
<1>2. Load(from_, inSave).kind = "load" /\ Load(from_, inSave).inSave = inSave
  BY DEF Load
<1> QED
  BY <1>1, <1>2, UserAdminAssumption DEF IsSave

(* What a call changes of the saves, and of what updates carry. *)
Carries(call) == call # None /\ call.kind = "update" => DOMAIN call.payload \subseteq call.typed

LEMMA SetStep ==
    ASSUME AdminInv, NEW c \in Slots, NEW call \in Call \cup {None}, Set(c, call), Carries(call),
           saving' \in BOOLEAN,
           \/ saving' = saving /\ (IsSave(call) <=> IsSave(calls[c]))
           \/ IsSave(calls[c]) /\ ~IsSave(call) /\ ~saving'
           \/ ~saving /\ IsSave(call) /\ saving'
    PROVE  calls' \in [Slots -> Call \cup {None}] /\ OnlyTypedIsSent' /\ OneSave'
<1>1. calls \in [Slots -> Call \cup {None}]
  BY DEF AdminInv, PageType
<1>2. calls' \in [Slots -> Call \cup {None}]
      /\ \A d \in Slots : calls'[d] = IF d = c THEN call ELSE calls[d]
  BY <1>1 DEF Set
<1>3. OnlyTypedIsSent'
  BY <1>2 DEF OnlyTypedIsSent, Carries, AdminInv
<1>4. \A d \in Slots : IsSave(calls'[d]) <=> IF d = c THEN IsSave(call) ELSE IsSave(calls[d])
  BY <1>2 DEF IsSave
<1>5. OneSave /\ saving \in BOOLEAN
  BY DEF AdminInv, PageType
<1>6. ASSUME saving' = saving /\ (IsSave(call) <=> IsSave(calls[c]))
      PROVE  OneSave'
  <2>1. \A d \in Slots : IsSave(calls'[d]) <=> IsSave(calls[d])
    BY <1>4, <1>6
  <2>2. CASE saving
    <3>1. PICK e \in Slots : \A d \in Slots : IsSave(calls[d]) <=> d = e
      BY <1>5, <2>2 DEF OneSave
    <3> QED
      BY <1>6, <2>1, <2>2, <3>1 DEF OneSave
  <2>3. CASE ~saving
    BY <1>5, <1>6, <2>1, <2>3 DEF OneSave
  <2> QED
    BY <2>2, <2>3
<1>7. ASSUME IsSave(calls[c]) /\ ~IsSave(call) /\ ~saving'
      PROVE  OneSave'
  <2>1. \A d \in Slots : IsSave(calls[d]) <=> d = c
    BY <1>5, <1>7 DEF OneSave
  <2>2. \A d \in Slots : ~IsSave(calls'[d])
    BY <1>4, <1>7, <2>1
  <2> QED
    BY <1>7, <2>2 DEF OneSave
<1>8. ASSUME ~saving /\ IsSave(call) /\ saving'
      PROVE  OneSave'
  <2>1. \A d \in Slots : ~IsSave(calls[d])
    BY <1>5, <1>8 DEF OneSave
  <2>2. \A d \in Slots : IsSave(calls'[d]) <=> d = c
    BY <1>4, <1>8, <2>1
  <2> QED
    BY <1>8, <2>2 DEF OneSave
<1> QED
  BY <1>2, <1>3, <1>6, <1>7, <1>8

LEMMA BeginStep ==
    ASSUME AdminInv, NEW call \in Call, Begin(call), Carries(call), saving' \in BOOLEAN,
           \/ saving' = saving /\ ~IsSave(call)
           \/ ~saving /\ IsSave(call) /\ saving'
    PROVE  calls' \in [Slots -> Call \cup {None}] /\ OnlyTypedIsSent' /\ OneSave'
<1>1. PICK c \in Slots : calls[c] = None /\ Set(c, call)
  BY DEF Begin, Free
<1>2. ~IsSave(calls[c])
  BY <1>1 DEF IsSave
<1> QED
  BY <1>1, <1>2, SetStep

-----------------------------------------------------------------------------
(* What stays as it is *)

LEMMA FormUntouched ==
    ASSUME AdminInv, UNCHANGED editing
    PROVE  TypedKnown' /\ editing' \in Form \cup {None}
BY DEF AdminInv, PageType, TypedKnown

LEMMA CallsUntouched ==
    ASSUME AdminInv, UNCHANGED <<calls, saving>>
    PROVE  calls' \in [Slots -> Call \cup {None}] /\ OnlyTypedIsSent' /\ OneSave'
BY DEF AdminInv, PageType, OnlyTypedIsSent, OneSave

(* A load, a deletion or a restoration carries nothing. *)
LEMMA OthersCarryNothing ==
    ASSUME NEW call, call.kind # "update"
    PROVE  Carries(call)
BY DEF Carries

-----------------------------------------------------------------------------
(* The listing *)

LEMMA ListingStep ==
    ASSUME AdminInv, Refresh \/ NextPage \/ PrevPage
    PROVE  AdminInv'
<1>1. /\ offset' \in Nat /\ loading' = TRUE /\ Begin(Load(offset', FALSE))
      /\ UNCHANGED <<server, users, hasMore, form>>
  <2>1. offset \in Nat /\ PageSize \in Nat
    BY UserAdminAssumption DEF AdminInv, PageType
  <2>2. CASE Refresh
    BY <2>1, <2>2 DEF Refresh, StartLoad
  <2>3. CASE NextPage
    <3>1. offset' \in Nat
      BY <2>1, <2>3 DEF NextPage
    <3> QED
      BY <2>3, <3>1 DEF NextPage, StartLoad
  <2>4. CASE PrevPage
    <3>1. offset' = IF offset < PageSize THEN 0 ELSE offset - PageSize
      BY <2>4 DEF PrevPage
    <3>2. offset' \in Nat
      BY <2>1, <3>1
    <3> QED
      BY <2>4, <3>2 DEF PrevPage, StartLoad
  <2> QED
    BY <2>2, <2>3, <2>4
<1>2. calls' \in [Slots -> Call \cup {None}] /\ OnlyTypedIsSent' /\ OneSave'
  <2>1. /\ Load(offset', FALSE) \in Call /\ Load(offset', FALSE).kind = "load"
        /\ ~IsSave(Load(offset', FALSE))
    BY <1>1, LoadIsCall
  <2>2. saving' = saving /\ saving \in BOOLEAN
    BY <1>1 DEF AdminInv, PageType, form
  <2> QED
    BY <1>1, <2>1, <2>2, BeginStep, OthersCarryNothing
<1> QED
  BY <1>1, <1>2, FormUntouched DEF AdminInv, PageType, server, form

-----------------------------------------------------------------------------
(* The form *)

LEMMA InputsOfRow ==
    ASSUME NEW row \in Row
    PROVE  InputsOf(row) \in Contents(Inputs)
BY UserAdminAssumption DEF InputsOf, Contents, Inputs, Row

LEMMA StartEditStep ==
    ASSUME AdminInv, NEW row \in users, StartEdit(row)
    PROVE  AdminInv'
<1>1. editing' = [original |-> row, inputs |-> InputsOf(row), typed |-> {}]
  BY DEF StartEdit
<1>2. editing' \in Form
  BY <1>1, InputsOfRow DEF Form, AdminInv, PageType
<1>3. TypedKnown'
  BY <1>1 DEF TypedKnown
<1> QED
  BY <1>2, <1>3, CallsUntouched DEF AdminInv, PageType, StartEdit, server, listing

LEMMA TypeStep ==
    ASSUME AdminInv, NEW f \in Inputs, NEW value, Type(f, value),
           value \in IF f = "password" THEN Passwords \cup {Blank} ELSE Values
    PROVE  AdminInv'
<1>1. /\ editing \in Form
      /\ editing' = [editing EXCEPT !.inputs[f] = value, !.typed = @ \cup {f}]
  BY DEF Type, AdminInv, PageType
<1>2. editing.inputs \in Contents(Inputs) /\ editing.typed \subseteq Inputs
      /\ editing.original \in Row
  BY <1>1 DEF Form
<1> DEFINE inputs == [editing.inputs EXCEPT ![f] = value]
<1>3. inputs \in Contents(Inputs) /\ \A g \in Inputs : g # f => inputs[g] = editing.inputs[g]
  BY <1>2 DEF Contents
<1>4. /\ editing'.original = editing.original /\ editing'.inputs = inputs
      /\ editing'.typed = editing.typed \cup {f}
      /\ editing' = [original |-> editing.original, inputs |-> inputs, typed |-> editing.typed \cup {f}]
  BY <1>1 DEF Form
<1>5. editing' \in Form
  BY <1>2, <1>3, <1>4 DEF Form
<1>6. TypedKnown'
  BY <1>3, <1>4 DEF TypedKnown, AdminInv, Type
<1> QED
  BY <1>5, <1>6, CallsUntouched DEF AdminInv, PageType, Type, server, listing

(* What is sent differs from the row, and so was typed. *)
LEMMA SaveEditStep ==
    ASSUME AdminInv, SaveEdit
    PROVE  AdminInv'
<1> DEFINE call == [kind |-> "update", id |-> editing.original.id,
                    payload |-> Payload(editing), typed |-> editing.typed, pc |-> "sent"]
<1>1. /\ ~saving /\ saving' = TRUE /\ editing \in Form /\ editing # None
      /\ UNCHANGED <<server, listing, editing>>
  BY DEF SaveEdit, AdminInv, PageType
<1>2. Begin(call)
  BY DEF SaveEdit
<1>3. /\ DOMAIN Payload(editing) \subseteq editing.typed
      /\ DOMAIN Payload(editing) \in SUBSET Inputs
  BY <1>1 DEF Payload, TypedKnown, AdminInv
<1>4. Payload(editing) \in Contents(DOMAIN Payload(editing))
  BY <1>1 DEF Payload, Form, Contents
<1>5. call \in [kind : {"update"}, id : Users, payload : UNION {Contents(D) : D \in SUBSET Inputs},
                typed : SUBSET Inputs, pc : CallPc]
  BY <1>1, <1>3, <1>4 DEF Form, Row, CallPc
<1>6. call \in Call /\ Carries(call) /\ IsSave(call)
  BY <1>3, <1>5, UserAdminAssumption DEF Call, CallPc, Carries, IsSave
<1> HIDE DEF call
<1>7. calls' \in [Slots -> Call \cup {None}] /\ OnlyTypedIsSent' /\ OneSave'
  BY <1>1, <1>2, <1>6, BeginStep
<1> QED
  BY <1>1, <1>7, FormUntouched DEF AdminInv, PageType, server, listing

-----------------------------------------------------------------------------
(* Deleting and restoring, at the page *)

LEMMA AskStep ==
    ASSUME AdminInv, (\E row \in users : Remove(row)) \/ (\E id \in Users : Restore(id))
    PROVE  AdminInv'
<1>1. PICK call \in [kind : {"delete", "restore"}, id : Users, pc : {"sent"}] :
        Begin(call) /\ UNCHANGED <<server, listing, form>>
  <2>1. CASE \E row \in users : Remove(row)
    <3>1. PICK row \in Row : Remove(row)
      BY <2>1 DEF AdminInv, PageType
    <3> QED
      BY <3>1 DEF Remove, Row
  <2>2. CASE \E id \in Users : Restore(id)
    BY <2>2 DEF Restore
  <2> QED
    BY <2>1, <2>2
<1>2. call \in Call /\ ~IsSave(call) /\ Carries(call)
  <2>1. call \in Call
    BY DEF Call
  <2> QED
    BY <2>1 DEF IsSave, Carries
<1>3. saving' = saving /\ saving \in BOOLEAN
  BY <1>1 DEF AdminInv, PageType, form
<1>4. calls' \in [Slots -> Call \cup {None}] /\ OnlyTypedIsSent' /\ OneSave'
  BY <1>1, <1>2, <1>3, BeginStep
<1> QED
  BY <1>1, <1>4, FormUntouched DEF AdminInv, PageType, server, listing, form

-----------------------------------------------------------------------------
(* The server *)

LEMMA PageOfRows ==
    ASSUME AdminInv, NEW off \in Nat
    PROVE  PageAt(off) \in SUBSET Row
<1>1. \A u \in Users : [id |-> u, fields |-> accounts[u]] \in Row
  BY DEF AdminInv, PageType, Row
<1>2. \A row \in PageAt(off) : \E u \in Users : row = [id |-> u, fields |-> accounts[u]]
  BY DEF PageAt
<1> QED
  BY <1>1, <1>2

LEMMA UpdatedType ==
    ASSUME AdminInv, NEW id \in Users, NEW D, NEW payload \in Contents(D), Updated(id, payload)
    PROVE  accounts' \in [Users -> [Fields -> Values]]
<1>1. accounts[id] \in [Fields -> Values]
  BY DEF AdminInv, PageType
<1>2. [f \in Fields |-> IF f \in DOMAIN payload THEN payload[f] ELSE accounts[id][f]]
        \in [Fields -> Values]
  BY <1>1, UserAdminAssumption DEF Contents
<1> QED
  BY <1>2 DEF Updated, AdminInv, PageType

LEMMA ExecutedType ==
    ASSUME AdminInv, NEW call \in Call, Executed(call)
    PROVE  accounts' \in [Users -> [Fields -> Values]] /\ deleted' \subseteq Users
<1>1. CASE call.kind = "update"
  <2>1. PICK D \in SUBSET Inputs : call.payload \in Contents(D)
    BY <1>1, CallKinds
  <2>2. call.id \in Users /\ Updated(call.id, call.payload) /\ deleted' = deleted
    BY <1>1, CallKinds DEF Executed
  <2> QED
    BY <2>1, <2>2, UpdatedType DEF AdminInv, PageType
<1>2. CASE call.kind = "delete"
  BY <1>2, CallKinds DEF Executed, AdminInv, PageType
<1>3. CASE call.kind = "restore"
  BY <1>3, CallKinds DEF Executed, AdminInv, PageType
<1>4. CASE call.kind = "load"
  BY <1>4 DEF Executed, AdminInv, PageType, server
<1> QED
  BY <1>1, <1>2, <1>3, <1>4, CallKinds

LEMMA ServerStep ==
    ASSUME AdminInv, NEW c \in Slots, Execute(c) \/ Fail(c)
    PROVE  AdminInv'
<1>1. calls[c] \in Call /\ Carries(calls[c])
  BY DEF Execute, Fail, AdminInv, PageType, OnlyTypedIsSent, Carries
<1>2. accounts' \in [Users -> [Fields -> Values]] /\ deleted' \subseteq Users
  BY <1>1, ExecutedType DEF Execute, Fail, AdminInv, PageType, server
<1>3. PICK call : /\ Set(c, call) /\ call \in Call /\ (IsSave(call) <=> IsSave(calls[c]))
                  /\ Carries(call)
  <2>1. CASE Execute(c) /\ calls[c].kind = "load"
    <3> DEFINE call == [calls[c] EXCEPT !.pc = "done", !.page = PageAt(calls[c].offset)]
    <3>1. Set(c, call)
      BY <2>1 DEF Execute
    <3>2. PageAt(calls[c].offset) \in SUBSET Row
      BY <1>1, <2>1, CallKinds, PageOfRows
    <3>3. call \in Call /\ (IsSave(call) <=> IsSave(calls[c])) /\ call.kind = "load"
      <4>1. "done" \in CallPc
        BY DEF CallPc
      <4>2. \A old \in Call, page \in SUBSET Row : old.kind = "load" =>
              LET new == [old EXCEPT !.pc = "done", !.page = page]
              IN  new \in Call /\ (IsSave(new) <=> IsSave(old)) /\ new.kind = "load"
        BY <4>1, CallGoesOn, Zenon
      <4> QED
        BY <1>1, <2>1, <3>2, <4>2, Zenon
    <3> QED
      BY <3>1, <3>3, OthersCarryNothing
  <2>2. ASSUME NEW pc \in CallPc, Set(c, [calls[c] EXCEPT !.pc = pc])
        PROVE  \E call : /\ Set(c, call) /\ call \in Call /\ (IsSave(call) <=> IsSave(calls[c]))
                         /\ Carries(call)
    <3> DEFINE call == [calls[c] EXCEPT !.pc = pc]
    <3>1. /\ call \in Call /\ (IsSave(call) <=> IsSave(calls[c])) /\ call.kind = calls[c].kind
          /\ calls[c].kind = "update" =>
                call.payload = calls[c].payload /\ call.typed = calls[c].typed
      BY <1>1, CallGoesOn
    <3>2. Carries(call)
      BY <1>1, <3>1, CallKinds DEF Carries
    <3> QED
      BY <2>2, <3>1, <3>2
  <2>3. CASE Execute(c) /\ calls[c].kind # "load"
    BY <2>2, <2>3 DEF Execute, CallPc
  <2>4. CASE Fail(c)
    BY <2>2, <2>4 DEF Fail, CallPc
  <2> QED
    BY <2>1, <2>3, <2>4
<1>4. UNCHANGED <<listing, form>> /\ saving \in BOOLEAN
  BY DEF Execute, Fail, AdminInv, PageType
<1>5. calls' \in [Slots -> Call \cup {None}] /\ OnlyTypedIsSent' /\ OneSave'
  BY <1>3, <1>4, SetStep DEF form
<1> QED
  BY <1>2, <1>4, <1>5, FormUntouched DEF AdminInv, PageType, listing, form

LEMMA OtherAdminStep ==
    ASSUME AdminInv, NEW id \in Users, OtherAdmin(id)
    PROVE  AdminInv'
<1>1. accounts' \in [Users -> [Fields -> Values]] /\ deleted' \subseteq Users
  <2>1. CASE UNCHANGED deleted /\ \E f \in Fields, value \in Values : Updated(id, [g \in {f} |-> value])
    <3>1. PICK f \in Fields, value \in Values : Updated(id, [g \in {f} |-> value])
      BY <2>1
    <3>2. [g \in {f} |-> value] \in Contents({f})
      BY UserAdminAssumption DEF Contents
    <3> QED
      BY <2>1, <3>1, <3>2, UpdatedType DEF AdminInv, PageType
  <2>2. CASE deleted' \in {deleted \cup {id}, deleted \ {id}} /\ UNCHANGED accounts
    BY <2>2 DEF AdminInv, PageType
  <2> QED
    BY <2>1, <2>2 DEF OtherAdmin
<1>2. UNCHANGED <<listing, form, calls>>
  BY DEF OtherAdmin
<1> QED
  BY <1>1, <1>2, FormUntouched, CallsUntouched DEF AdminInv, PageType, listing, form

-----------------------------------------------------------------------------
(* Answers *)

LEMMA LoadEnds ==
    ASSUME AdminInv, NEW c \in Slots, Loaded(c) \/ LoadFailed(c)
    PROVE  AdminInv'
<1>1. calls[c] \in Call /\ calls[c].kind = "load"
  BY DEF Loaded, LoadFailed, Answered, AdminInv, PageType
<1>2. calls[c].inSave \in BOOLEAN /\ calls[c].page \subseteq Row /\ calls[c] # None
  BY <1>1, CallKinds
<1>3. /\ saving' = (saving /\ ~calls[c].inSave) /\ Set(c, None) /\ loading' = FALSE
      /\ users' \in {users, calls[c].page} /\ hasMore' \in BOOLEAN
      /\ UNCHANGED <<server, offset, editing>>
  BY DEF Loaded, LoadFailed, AdminInv, PageType
<1>4. /\ IsSave(calls[c]) <=> calls[c].inSave
      /\ ~IsSave(None) /\ Carries(None)
  BY <1>1, <1>2 DEF IsSave, Carries
<1>5. saving' \in BOOLEAN /\ saving \in BOOLEAN
  BY <1>3 DEF AdminInv, PageType
<1>6. IF calls[c].inSave THEN ~saving' ELSE saving' = saving
  BY <1>2, <1>3, <1>5
<1>7. calls' \in [Slots -> Call \cup {None}] /\ OnlyTypedIsSent' /\ OneSave'
  BY <1>2, <1>3, <1>4, <1>5, <1>6, SetStep
<1> QED
  BY <1>2, <1>3, <1>5, <1>7, FormUntouched DEF AdminInv, PageType, server

LEMMA SuccessGoesOn ==
    ASSUME AdminInv, NEW c \in Slots, Saved(c) \/ Removed(c) \/ Restored(c)
    PROVE  AdminInv'
<1>1. calls[c] \in Call /\ calls[c] # None /\ offset \in Nat /\ saving \in BOOLEAN
  BY UserAdminAssumption DEF Saved, Removed, Restored, Answered, AdminInv, PageType
<1>2. PICK inSave \in BOOLEAN : ThenLoad(c, inSave) /\ (IsSave(calls[c]) <=> inSave)
  <2>1. CASE Saved(c)
    BY <2>1 DEF Saved, Answered, IsSave
  <2>2. CASE Removed(c) \/ Restored(c)
    BY <2>2 DEF Removed, Restored, Answered, IsSave
  <2> QED
    BY <2>1, <2>2
<1>3. saving' = saving /\ editing' \in {editing, None}
  BY DEF Saved, Removed, Restored, form
<1>4. /\ Load(offset, inSave) \in Call /\ Load(offset, inSave).kind = "load"
      /\ IsSave(Load(offset, inSave)) <=> inSave
  BY <1>1, LoadIsCall
<1>5. Set(c, Load(offset, inSave)) /\ loading' = TRUE /\ UNCHANGED <<server, users, offset, hasMore>>
  BY <1>2 DEF ThenLoad, StartLoad
<1>6. Carries(Load(offset, inSave))
  BY <1>4, OthersCarryNothing
<1>7. calls' \in [Slots -> Call \cup {None}] /\ OnlyTypedIsSent' /\ OneSave'
  BY <1>1, <1>2, <1>3, <1>4, <1>5, <1>6, SetStep
<1>8. TypedKnown' /\ editing' \in Form \cup {None}
  BY <1>3, FormUntouched DEF TypedKnown
<1> QED
  BY <1>1, <1>3, <1>5, <1>7, <1>8 DEF AdminInv, PageType, server

LEMMA FailureEnds ==
    ASSUME AdminInv, NEW c \in Slots, SaveFailed(c) \/ RemoveOrRestoreFailed(c)
    PROVE  AdminInv'
<1>1. Set(c, None) /\ UNCHANGED <<server, listing, editing>> /\ saving \in BOOLEAN
  BY DEF SaveFailed, RemoveOrRestoreFailed, AdminInv, PageType, form
<1>2. ~IsSave(None) /\ Carries(None)
  BY DEF IsSave, Carries
<1>3. \/ saving' = saving /\ ~IsSave(calls[c])
      \/ saving' = FALSE /\ IsSave(calls[c])
  BY DEF SaveFailed, RemoveOrRestoreFailed, Answered, IsSave, form
<1>4. calls' \in [Slots -> Call \cup {None}] /\ OnlyTypedIsSent' /\ OneSave'
  BY <1>1, <1>2, <1>3, SetStep
<1> QED
  BY <1>1, <1>3, <1>4, FormUntouched DEF AdminInv, PageType, server, listing

-----------------------------------------------------------------------------

LEMMA AdminInit == Init => AdminInv
<1> SUFFICES ASSUME Init PROVE AdminInv
  OBVIOUS
<1>1. PageType
  BY LoadIsCall DEF Init, PageType
<1>2. \A c \in Slots : calls[c] = Load(0, FALSE) \/ calls[c] = None
  BY DEF Init
<1>3. \A c \in Slots : calls[c] # None => calls[c].kind = "load" /\ ~IsSave(calls[c])
  BY <1>2, LoadIsCall
<1>4. \A c \in Slots : ~IsSave(calls[c])
  BY <1>3 DEF IsSave
<1>5. OnlyTypedIsSent
  BY <1>3 DEF OnlyTypedIsSent
<1> QED
  BY <1>1, <1>4, <1>5 DEF AdminInv, OneSave, TypedKnown, Init

LEMMA AdminStep == AdminInv /\ [Next]_vars => AdminInv'
<1> SUFFICES ASSUME AdminInv, [Next]_vars PROVE AdminInv'
  OBVIOUS
<1>1. CASE UNCHANGED vars
  <2>1. UNCHANGED <<server, listing, form, calls>>
    BY <1>1 DEF vars
  <2> QED
    BY <2>1, FormUntouched, CallsUntouched DEF AdminInv, PageType, server, listing, form
<1>2. CASE CancelEdit
  <2>1. editing' = None /\ UNCHANGED <<server, listing, saving, calls>>
    BY <1>2 DEF CancelEdit
  <2> QED
    BY <2>1, CallsUntouched DEF AdminInv, PageType, TypedKnown, server, listing
<1>3. ASSUME NEW f \in Fields, NEW value \in Values, Type(f, value)
      PROVE  AdminInv'
  BY <1>3, TypeStep, UserAdminAssumption DEF Inputs
<1>4. ASSUME NEW value \in Passwords \cup {Blank}, Type("password", value)
      PROVE  AdminInv'
  BY <1>4, TypeStep DEF Inputs
<1>5. ASSUME NEW c \in Slots, Execute(c) \/ Fail(c) \/ Answer(c)
      PROVE  AdminInv'
  BY <1>5, ServerStep, LoadEnds, SuccessGoesOn, FailureEnds DEF Answer
<1> QED
  BY <1>1, <1>2, <1>3, <1>4, <1>5, ListingStep, SaveEditStep, StartEditStep, AskStep, OtherAdminStep
  DEF Next

(* The inductive invariant of the page.  Of the calls it says what each is *)
(* for and which one the disabled button waits for; of the form, that what *)
(* differs from its row was typed (startEdit, saveEdit).                   *)
THEOREM AdminInvariantHolds == Spec => []AdminInv
BY AdminInit, AdminStep, PTL DEF Spec

(* Whatever rows are edited, saved and reloaded meanwhile, an update sends *)
(* only what was typed for its user (startEdit, saveEdit).                 *)
THEOREM OnlyTypedIsEverSent == Spec => []OnlyTypedIsSent
<1>1. AdminInv => OnlyTypedIsSent
  BY DEF AdminInv
<1> QED
  BY <1>1, AdminInvariantHolds, PTL

(* With any number of calls in flight, answered in any order, the button   *)
(* is disabled exactly while one save goes on (saving, its finally).       *)
THEOREM SavesAreOneAtATime == Spec => []SavingIsOneSave
<1>1. AdminInv => SavingIsOneSave
  BY OneSaveCounts DEF AdminInv
<1> QED
  BY <1>1, AdminInvariantHolds, PTL

(* What a save changes at the server, answered or not, are fields typed    *)
(* for that user; what other administrators made of the rest stays         *)
(* (saveEdit, UpdateUser).                                                 *)
SavesChangeWhatWasTyped ==
    \A c \in Slots : (Execute(c) \/ Fail(c)) /\ calls[c].kind = "update" =>
        \A u \in Users, f \in Fields :
            accounts'[u][f] # accounts[u][f] => u = calls[c].id /\ f \in calls[c].typed

THEOREM SavesOverwriteNothing == Spec => [][SavesChangeWhatWasTyped]_vars
<1>1. AdminInv /\ [Next]_vars => [SavesChangeWhatWasTyped]_vars
  <2> SUFFICES ASSUME AdminInv, NEW c \in Slots, Execute(c) \/ Fail(c), calls[c].kind = "update",
                      NEW u \in Users, NEW f \in Fields, accounts'[u][f] # accounts[u][f]
               PROVE  u = calls[c].id /\ f \in calls[c].typed
    BY DEF SavesChangeWhatWasTyped
  <2>1. calls[c] # None /\ accounts \in [Users -> [Fields -> Values]]
    BY DEF Execute, Fail, AdminInv, PageType
  <2>2. DOMAIN calls[c].payload \subseteq calls[c].typed
    BY <2>1 DEF AdminInv, OnlyTypedIsSent
  <2>3. Updated(calls[c].id, calls[c].payload)
    BY DEF Execute, Fail, Executed, server
  <2>4. u = calls[c].id
    BY <2>1, <2>3 DEF Updated
  <2>5. f \in DOMAIN calls[c].payload
    BY <2>1, <2>3, <2>4 DEF Updated
  <2> QED
    BY <2>2, <2>4, <2>5
<1> QED
  BY <1>1, AdminInvariantHolds, PTL DEF Spec

-----------------------------------------------------------------------------
(* The chat page.  Two of its variables have another name here, because    *)
(* the administrator's page has its own.                                   *)

CONSTANTS Chats, Page, MaxMessages, MaxSwitches, MaxInFlight

VARIABLES
    count, switches, chat, shown, older, busy, sending, autoRefresh, timer, requests

View == INSTANCE ChatView WITH hasMore <- older, loading <- busy

ViewAssumption == View!ChatsAssumption /\ View!BoundsAssumption

ViewInv == View!TypeOK /\ View!ButtonsComeBack

Loading ==
    [pc : {"asked"}, load : View!Load]
    \cup [pc : {"served"}, kind : {"latest", "older"}, page : Seq(View!Message)]

Sending ==
    [pc : {"asked"}, send : Chats] \cup [pc : {"served"}, kind : {"send"}, message : View!Message]

LEMMA RequestKinds ==
    /\ View!Request = Loading \cup Sending
    /\ \A q \in Loading : View!Loads(q)
    /\ \A q \in Sending : ~View!Loads(q)
<1>1. View!Request = Loading \cup Sending
  BY DEF View!Request, Loading, Sending
<1>2. ASSUME NEW q \in Loading
      PROVE  View!Loads(q)
  BY DEF Loading, View!Loads
<1>3. ASSUME NEW q \in Sending
      PROVE  ~View!Loads(q)
  BY DEF Sending, View!Loads
<1> QED
  BY <1>1, <1>2, <1>3

(* FiniteSets as the instance has it. *)
LEMMA SameCounting ==
    ASSUME NEW S
    PROVE  View!IsFiniteSet(S) = IsFiniteSet(S) /\ View!Cardinality(S) = Cardinality(S)
<1>1. View!IsFiniteSet(S) = IsFiniteSet(S)
  BY DEF View!IsFiniteSet, IsFiniteSet
<1>2. View!Cardinality(S) = Cardinality(S)
  BY DEF View!Cardinality, Cardinality, View!IsFiniteSet, IsFiniteSet
<1> QED
  BY <1>1, <1>2

(* The messages of one chat are among those that are counted. *)
LEMMA RoomBounds ==
    ASSUME ViewAssumption, View!TypeOK, View!Room, NEW c \in Chats
    PROVE  count[c] + 1 \in 0..MaxMessages
<1>1. count[c] \in Nat /\ count[c] <= MaxMessages /\ MaxMessages \in Nat
  BY DEF View!TypeOK, ViewAssumption, View!BoundsAssumption
<1>2. IsFiniteSet(Chats)
  BY SameCounting DEF ViewAssumption, View!BoundsAssumption
<1>3. IsFiniteSet(View!Posted)
  <2>1. IsFiniteSet(1..MaxMessages)
    BY <1>1, FS_Interval
  <2>2. IsFiniteSet(Chats \X (1..MaxMessages))
    BY <1>2, <2>1, FS_Product
  <2> QED
    BY <2>2, FS_Subset DEF View!Posted
<1>4. {c} \X (1..count[c]) \subseteq View!Posted
  BY <1>1 DEF View!Posted
<1>5. Cardinality({c} \X (1..count[c])) = count[c]
  <2>1. IsFiniteSet({c}) /\ Cardinality({c}) = 1
    BY FS_Singleton
  <2>2. IsFiniteSet(1..count[c]) /\ Cardinality(1..count[c]) = count[c]
    <3>1. count[c] \in Int /\ 1 \in Int
      BY <1>1
    <3>2. /\ IsFiniteSet(1..count[c])
          /\ Cardinality(1..count[c]) = IF 1 > count[c] THEN 0 ELSE count[c]-1+1
      BY <3>1, FS_Interval, Zenon
    <3> QED
      BY <1>1, <3>2
  <2>3. Cardinality({c} \X (1..count[c])) = Cardinality({c}) * Cardinality(1..count[c])
    BY <2>1, <2>2, FS_Product
  <2> QED
    BY <1>1, <2>1, <2>2, <2>3
<1>6. Cardinality({c} \X (1..count[c])) <= Cardinality(View!Posted)
  BY <1>3, <1>4, FS_Subset
<1>7. Cardinality(View!Posted) \in Nat /\ Cardinality(View!Posted) < MaxMessages
  BY <1>3, FS_CardinalityType, SameCounting DEF View!Room
<1> QED
  BY <1>1, <1>5, <1>6, <1>7

LEMMA ListingType ==
    ASSUME ViewAssumption, View!TypeOK, NEW c \in Chats, NEW off \in Nat
    PROVE  View!Listing(c, off) \in Seq(View!Message)
<1> DEFINE last == IF count[c] > off THEN count[c] - off ELSE 0
           first == IF last > Page THEN last - Page ELSE 0
<1>1. /\ count[c] \in Nat /\ count[c] <= MaxMessages /\ MaxMessages \in Nat /\ Page \in Nat
  BY DEF View!TypeOK, ViewAssumption, View!BoundsAssumption, View!ChatsAssumption
<1>2. last \in 0..MaxMessages /\ first \in 0..last
  BY <1>1
<1> HIDE DEF last, first
<1>3. \A i \in 1..(last - first) : [chat |-> c, n |-> first + i] \in View!Message
  BY <1>1, <1>2 DEF View!Message
<1>4. [i \in 1..(last - first) |-> [chat |-> c, n |-> first + i]] \in Seq(View!Message)
  BY <1>2, <1>3
<1> QED
  BY <1>4 DEF View!Listing, last, first

(* What the page asks for, and what becomes of its requests. *)

LEMMA AskLoadStep ==
    ASSUME ViewInv, NEW c \in Chats, NEW kind \in {"latest", "older"}, NEW off \in Nat,
           View!AskLoad(kind, c, off), kind = "older" \/ off = 0,
           UNCHANGED sending \/ sending' = FALSE
    PROVE  requests' \subseteq View!Request /\ View!ButtonsComeBack' /\ busy' = TRUE
<1> DEFINE q == [pc |-> "asked", load |-> [kind |-> kind, chat |-> c, offset |-> off]]
<1>1. q \in Loading
  BY DEF Loading, View!Load
<1>2. requests' = requests \cup {q} /\ busy' = TRUE
  BY DEF View!AskLoad, View!Ask
<1> HIDE DEF q
<1> QED
  BY <1>1, <1>2, RequestKinds DEF ViewInv, View!TypeOK, View!ButtonsComeBack

LEMMA ServedStep ==
    ASSUME ViewInv, NEW q \in requests, NEW r \in View!Request, View!Loads(r) <=> View!Loads(q),
           requests' = (requests \ {q}) \cup {r}, UNCHANGED <<busy, sending>>
    PROVE  requests' \subseteq View!Request /\ View!ButtonsComeBack'
<1>1. requests' \subseteq View!Request
  BY DEF ViewInv, View!TypeOK
<1>2. ASSUME busy
      PROVE  \E p \in requests' : View!Loads(p)
  BY <1>2 DEF ViewInv, View!ButtonsComeBack
<1>3. ASSUME sending
      PROVE  \E p \in requests' : ~View!Loads(p)
  BY <1>3 DEF ViewInv, View!ButtonsComeBack
<1> QED
  BY <1>1, <1>2, <1>3 DEF View!ButtonsComeBack

LEMMA EndedStep ==
    ASSUME ViewInv, NEW q \in requests, NEW failed, View!Forget(q), View!Ended(q, failed)
    PROVE  /\ requests' \subseteq View!Request /\ View!ButtonsComeBack'
           /\ busy' \in BOOLEAN /\ sending' \in BOOLEAN
<1>1. requests' = requests \ {q} /\ requests' \subseteq View!Request
  BY DEF View!Forget, ViewInv, View!TypeOK
<1>2. busy \in BOOLEAN /\ sending \in BOOLEAN
  BY DEF ViewInv, View!TypeOK
<1>3. CASE View!Loads(q)
  <2>1. busy' = FALSE /\ sending' = sending
    BY <1>3 DEF View!Ended
  <2> QED
    BY <1>1, <1>2, <1>3, <2>1 DEF ViewInv, View!ButtonsComeBack
<1>4. CASE ~View!Loads(q)
  <2>1. sending' = FALSE /\ busy' = busy
    BY <1>4 DEF View!Ended
  <2> QED
    BY <1>1, <1>2, <1>4, <2>1 DEF ViewInv, View!ButtonsComeBack
<1> QED
  BY <1>3, <1>4

LEMMA ViewUserStep ==
    ASSUME ViewAssumption, ViewInv, View!User \/ View!Tick
    PROVE  ViewInv'
<1>1. /\ chat \in Chats \cup {None} /\ None \notin Chats /\ switches \in Nat /\ MaxSwitches \in Nat
      /\ shown \in Seq(View!Message) /\ <<>> \in Seq(View!Message) /\ sending \in BOOLEAN
  BY DEF ViewAssumption, View!ChatsAssumption, View!BoundsAssumption, ViewInv, View!TypeOK
<1>2. ASSUME NEW c \in Chats, View!Open(c)
      PROVE  ViewInv'
  <2>1. requests' \subseteq View!Request /\ View!ButtonsComeBack' /\ busy' = TRUE
    BY <1>2, AskLoadStep DEF View!Open
  <2> QED
    BY <1>1, <1>2, <2>1 DEF ViewInv, View!TypeOK, View!Open, View!server
<1>3. ASSUME NEW c \in Chats, View!Switch(c)
      PROVE  ViewInv'
  <2>1. requests' \subseteq View!Request /\ View!ButtonsComeBack' /\ busy' = TRUE
    BY <1>3, AskLoadStep DEF View!Switch
  <2>2. switches' \in 0..MaxSwitches
    BY <1>1, <1>3 DEF View!Switch
  <2> QED
    BY <1>3, <2>1, <2>2 DEF ViewInv, View!TypeOK, View!Switch, View!server, View!refresh
<1>4. CASE View!Leave
  BY <1>1, <1>4 DEF ViewInv, View!TypeOK, View!ButtonsComeBack, View!Leave, View!TimerAtLeave, View!server
<1>5. CASE View!Refresh \/ View!Tick \/ View!LoadOlder
  <2>1. PICK kind \in {"latest", "older"}, off \in Nat :
          chat # None /\ View!AskLoad(kind, chat, off) /\ (kind = "older" \/ off = 0)
    <3>1. CASE View!Refresh \/ View!Tick
      BY <3>1 DEF View!Refresh, View!Tick
    <3>2. CASE View!LoadOlder
      <4>1. Len(shown) \in Nat
        BY <1>1
      <4> QED
        BY <3>2, <4>1 DEF View!LoadOlder
    <3> QED
      BY <1>5, <3>1, <3>2
  <2>2. UNCHANGED <<count, switches, chat, shown, older, sending, autoRefresh, timer>>
    BY <1>5 DEF View!Refresh, View!Tick, View!LoadOlder, View!server, View!refresh
  <2>3. requests' \subseteq View!Request /\ View!ButtonsComeBack' /\ busy' = TRUE
    BY <1>1, <2>1, <2>2, AskLoadStep
  <2> QED
    BY <2>2, <2>3 DEF ViewInv, View!TypeOK
<1>6. CASE View!OnSend
  <2> DEFINE q == [pc |-> "asked", send |-> chat]
  <2>1. q \in Sending
    BY <1>1, <1>6 DEF View!OnSend, Sending
  <2>2. /\ requests' = requests \cup {q} /\ sending' = TRUE
        /\ UNCHANGED <<count, switches, chat, shown, older, busy, autoRefresh, timer>>
    BY <1>6 DEF View!OnSend, View!Ask, View!server, View!refresh
  <2> HIDE DEF q
  <2>3. requests' \subseteq View!Request /\ View!ButtonsComeBack'
    BY <2>1, <2>2, RequestKinds DEF ViewInv, View!TypeOK, View!ButtonsComeBack
  <2> QED
    BY <2>2, <2>3 DEF ViewInv, View!TypeOK
<1>7. CASE View!ToggleAuto
  BY <1>7 DEF ViewInv, View!TypeOK, View!ButtonsComeBack, View!ToggleAuto, View!server, View!buttons
<1> QED
  BY <1>2, <1>3, <1>4, <1>5, <1>6, <1>7 DEF View!User

LEMMA PostsType ==
    ASSUME ViewAssumption, View!TypeOK, View!Room, NEW c \in Chats,
           count' = [count EXCEPT ![c] = @ + 1]
    PROVE  count' \in [Chats -> 0..MaxMessages] /\ [chat |-> c, n |-> count'[c]] \in View!Message
<1>1. count[c] + 1 \in 1..MaxMessages /\ count \in [Chats -> 0..MaxMessages]
  <2>1. count[c] + 1 \in 0..MaxMessages
    BY RoomBounds
  <2> QED
    BY <2>1 DEF View!TypeOK
<1>2. count' \in [Chats -> 0..MaxMessages] /\ count'[c] \in 1..MaxMessages
  BY <1>1
<1> QED
  BY <1>2 DEF View!Message

LEMMA ViewServerStep ==
    ASSUME ViewAssumption, ViewInv, View!Serve \/ \E c \in Chats : View!Post(c)
    PROVE  ViewInv'
<1>1. ASSUME NEW c \in Chats, View!Post(c)
      PROVE  ViewInv'
  <2>1. count' \in [Chats -> 0..MaxMessages]
    BY <1>1, PostsType DEF View!Post, ViewInv
  <2> QED
    BY <1>1, <2>1 DEF ViewInv, View!TypeOK, View!ButtonsComeBack, View!Post, View!buttons, View!refresh
<1>2. ASSUME NEW q \in requests, View!ServeLoad(q)
      PROVE  ViewInv'
  <2> DEFINE r == [pc |-> "served", kind |-> q.load.kind,
                   page |-> View!Listing(q.load.chat, q.load.offset)]
  <2>1. q \in [pc : {"asked"}, load : View!Load]
    <3>1. q \in Loading \cup Sending /\ View!Loads(q) /\ q.pc = "asked"
      BY <1>2, RequestKinds DEF View!ServeLoad, ViewInv, View!TypeOK
    <3> QED
      BY <3>1, RequestKinds DEF Loading
  <2>2. q.load.chat \in Chats /\ q.load.offset \in Nat /\ q.load.kind \in {"latest", "older"}
    BY <2>1 DEF View!Load
  <2>3. View!Listing(q.load.chat, q.load.offset) \in Seq(View!Message)
    BY <2>2, ListingType DEF ViewInv
  <2>4. r \in Loading
    BY <2>2, <2>3 DEF Loading
  <2>5. /\ requests' = (requests \ {q}) \cup {r}
        /\ UNCHANGED <<count, switches, chat, shown, older, busy, sending, autoRefresh, timer>>
    BY <1>2 DEF View!ServeLoad, View!server, View!buttons, View!refresh
  <2>6. View!Loads(q)
    BY <1>2 DEF View!ServeLoad
  <2> HIDE DEF r
  <2>7. requests' \subseteq View!Request /\ View!ButtonsComeBack'
    BY <2>4, <2>5, <2>6, ServedStep, RequestKinds
  <2> QED
    BY <2>5, <2>7 DEF ViewInv, View!TypeOK
<1>3. ASSUME NEW q \in requests, View!ServeSend(q)
      PROVE  ViewInv'
  <2> DEFINE r == [pc |-> "served", kind |-> "send",
                   message |-> [chat |-> q.send, n |-> count'[q.send]]]
  <2>1. q.send \in Chats
    <3>1. q \in Loading \cup Sending /\ ~View!Loads(q) /\ q.pc = "asked"
      BY <1>3, RequestKinds DEF View!ServeSend, ViewInv, View!TypeOK
    <3> QED
      BY <3>1, RequestKinds DEF Sending
  <2>2. count' \in [Chats -> 0..MaxMessages] /\ [chat |-> q.send, n |-> count'[q.send]] \in View!Message
    BY <1>3, <2>1, PostsType DEF View!ServeSend, ViewInv
  <2>3. r \in Sending
    BY <2>2 DEF Sending
  <2>4. /\ requests' = (requests \ {q}) \cup {r}
        /\ UNCHANGED <<switches, chat, shown, older, busy, sending, autoRefresh, timer>>
    BY <1>3 DEF View!ServeSend, View!buttons, View!refresh
  <2>5. ~View!Loads(q)
    BY <1>3 DEF View!ServeSend
  <2> HIDE DEF r
  <2>6. requests' \subseteq View!Request /\ View!ButtonsComeBack'
    BY <2>3, <2>4, <2>5, ServedStep, RequestKinds
  <2> QED
    BY <2>2, <2>4, <2>6 DEF ViewInv, View!TypeOK
<1> QED
  BY <1>1, <1>2, <1>3 DEF View!Serve

LEMMA ViewAnswerStep ==
    ASSUME ViewInv, NEW q \in requests,
           View!DeliverLatest(q) \/ View!DeliverOlder(q) \/ View!DeliverSent(q) \/ View!Fails(q)
    PROVE  ViewInv'
<1>1. PICK failed \in BOOLEAN : View!Forget(q) /\ View!Ended(q, failed)
  BY DEF View!DeliverLatest, View!DeliverOlder, View!DeliverSent, View!Fails
<1>2. /\ requests' \subseteq View!Request /\ View!ButtonsComeBack'
      /\ busy' \in BOOLEAN /\ sending' \in BOOLEAN
  BY <1>1, EndedStep
<1>3. q \in Loading \cup Sending /\ shown \in Seq(View!Message) /\ older \in BOOLEAN
  BY RequestKinds DEF ViewInv, View!TypeOK
<1>4. shown' \in Seq(View!Message) /\ older' \in BOOLEAN
  <2>1. CASE View!DeliverLatest(q) \/ View!DeliverOlder(q)
    <3>1. q.page \in Seq(View!Message)
      BY <1>3, <2>1 DEF Loading, Sending, View!DeliverLatest, View!DeliverOlder
    <3>2. q.page \o shown \in Seq(View!Message)
      BY <1>3, <3>1
    <3>3. shown' \in {q.page, q.page \o shown} /\ older' = (Len(q.page) = Page)
      BY <2>1 DEF View!DeliverLatest, View!DeliverOlder, View!Prepended
    <3> QED
      BY <3>1, <3>2, <3>3
  <2>2. CASE View!DeliverSent(q)
    <3>1. q.message \in View!Message
      BY <1>3, <2>2 DEF Loading, Sending, View!DeliverSent
    <3> QED
      BY <1>3, <2>2, <3>1 DEF View!DeliverSent
  <2>3. CASE View!Fails(q)
    BY <1>3, <2>3 DEF View!Fails
  <2> QED
    BY <2>1, <2>2, <2>3
<1>5. /\ UNCHANGED <<count, switches, chat, autoRefresh>>
      /\ timer' = timer \/ timer' = (timer /\ ~View!StopsTimer(q))
  BY DEF View!DeliverLatest, View!DeliverOlder, View!DeliverSent, View!Fails, View!server, View!refresh
<1>6. timer' \in BOOLEAN
  BY <1>5 DEF ViewInv, View!TypeOK
<1> QED
  BY <1>2, <1>4, <1>5, <1>6 DEF ViewInv, View!TypeOK

(* For every number of chats and messages and every order of the answers,  *)
(* a disabled button of the chat page has a request in flight that will    *)
(* enable it (the finally blocks of loadLatest, loadOlder and onSend).     *)
THEOREM ChatButtonsComeBack ==
    ASSUME ViewAssumption
    PROVE  View!Spec => [](View!TypeOK /\ View!ButtonsComeBack)
<1>1. View!Init => ViewInv
  <2> SUFFICES ASSUME View!Init PROVE ViewInv
    OBVIOUS
  <2>1. MaxMessages \in Nat /\ MaxSwitches \in Nat /\ <<>> \in Seq(View!Message)
    BY DEF ViewAssumption, View!BoundsAssumption
  <2>2. count \in [Chats -> 0..MaxMessages] /\ switches \in 0..MaxSwitches
    BY <2>1 DEF View!Init
  <2>3. /\ shown = <<>> /\ older = FALSE /\ busy = FALSE /\ sending = FALSE
        /\ autoRefresh = TRUE /\ timer = FALSE /\ requests = {} /\ chat = None
    BY DEF View!Init
  <2>4. View!TypeOK
    BY <2>1, <2>2, <2>3 DEF View!TypeOK
  <2> QED
    BY <2>3, <2>4 DEF ViewInv, View!ButtonsComeBack
<1>2. ViewInv /\ [View!Next]_(View!vars) => ViewInv'
  <2> SUFFICES ASSUME ViewInv, [View!Next]_(View!vars) PROVE ViewInv'
    OBVIOUS
  <2>1. CASE UNCHANGED View!vars
    BY <2>1 DEF View!vars, ViewInv, View!TypeOK, View!ButtonsComeBack
  <2> QED
    BY <2>1, ViewUserStep, ViewServerStep, ViewAnswerStep DEF View!Next, View!Deliver
<1>3. ViewInv => View!TypeOK /\ View!ButtonsComeBack
  BY DEF ViewInv
<1> QED
  BY <1>1, <1>2, <1>3, PTL DEF View!Spec

-----------------------------------------------------------------------------
(* The list of chats, in any number of tabs *)

CONSTANT Tabs

VARIABLES taken, exists, stored, open, chats, creating, deleting, known, behind, atRisk

List == INSTANCE ChatList

(* A tab that is closed waits for no answer. *)
ListInv ==
    /\ List!ListIsKept /\ open \subseteq Tabs
    /\ chats \in [Tabs -> SUBSET Chats] /\ behind \in [Tabs -> SUBSET Chats]
    /\ stored \subseteq Chats
    /\ creating \in [Tabs -> SUBSET Chats] /\ deleting \in [Tabs -> SUBSET Chats]
    /\ \A t \in Tabs \ open : creating[t] = {} /\ deleting[t] = {}

(* A tab starts with the list as it is stored, and is right about as much. *)
LEMMA ListLoads ==
    ASSUME ListInv, NEW t \in Tabs, List!Load(t)
    PROVE  ListInv'
<1>1. /\ open' = open \cup {t} /\ chats' = [chats EXCEPT ![t] = stored]
      /\ UNCHANGED <<stored, creating, deleting, known, behind, atRisk>>
  BY DEF List!Load
<1>2. chats' \in [Tabs -> SUBSET Chats] /\ chats'[t] = stored
  BY <1>1 DEF ListInv
<1>3. ASSUME NEW u \in open'
      PROVE  chats'[u] \ (behind[u] \cup atRisk) = known \ (behind[u] \cup atRisk)
  <2>1. CASE u = t
    BY <1>2, <2>1 DEF ListInv, List!ListIsKept
  <2>2. CASE u # t
    BY <1>1, <1>3, <2>2 DEF ListInv, List!ListIsKept
  <2> QED
    BY <2>1, <2>2
<1>4. List!ListIsKept'
  BY <1>1, <1>3 DEF ListInv, List!ListIsKept
<1> QED
  BY <1>1, <1>2, <1>4 DEF ListInv

LEMMA ListCloses ==
    ASSUME ListInv, NEW t \in Tabs, List!Close(t)
    PROVE  ListInv'
<1>1. /\ open' = open \ {t} /\ chats' = [chats EXCEPT ![t] = {}]
      /\ creating' = [creating EXCEPT ![t] = {}] /\ deleting' = [deleting EXCEPT ![t] = {}]
      /\ behind' = [behind EXCEPT ![t] = {}]
      /\ UNCHANGED <<stored, known, atRisk>>
  BY DEF List!Close
<1>2. /\ chats' \in [Tabs -> SUBSET Chats] /\ behind' \in [Tabs -> SUBSET Chats]
      /\ creating' \in [Tabs -> SUBSET Chats] /\ deleting' \in [Tabs -> SUBSET Chats]
      /\ \A u \in Tabs \ open' : creating'[u] = {} /\ deleting'[u] = {}
  BY <1>1 DEF ListInv
<1>3. List!ListIsKept'
  BY <1>1 DEF ListInv, List!ListIsKept
<1> QED
  BY <1>1, <1>2, <1>3 DEF ListInv

(* What the tab writes is right where the tab was, and about the chat      *)
(* itself; every other tab is behind on that chat from now on.             *)
LEMMA ListChanges ==
    ASSUME ListInv, UNCHANGED open, NEW t \in open, NEW c \in Chats,
           List!PutOn(t, c) \/ List!TakeOff(t, c)
    PROVE  /\ List!ListIsKept'
           /\ chats' \in [Tabs -> SUBSET Chats] /\ behind' \in [Tabs -> SUBSET Chats]
           /\ stored' \subseteq Chats
<1>1. t \in Tabs /\ chats[t] \subseteq Chats
  BY DEF ListInv
<1>2. PICK new \in {chats[t] \cup {c}, chats[t] \ {c}} :
         /\ chats' = [chats EXCEPT ![t] = new] /\ stored' = chats'[t]
         /\ known' = IF c \in new THEN known \cup {c} ELSE known \ {c}
  BY DEF List!PutOn, List!TakeOff, List!Remember, List!Forget
<1>3. /\ behind' = [u \in Tabs |-> IF u \in open \ {t} THEN behind[u] \cup {c} ELSE behind[u] \ {c}]
      /\ atRisk' = (atRisk \cup behind[t]) \ {c}
  BY DEF List!PutOn, List!TakeOff, List!Changed
<1>4. chats' \in [Tabs -> SUBSET Chats] /\ chats'[t] = new /\ stored' = new
  BY <1>1, <1>2 DEF ListInv
<1>5. stored' \ atRisk' = known' \ atRisk'
  <2>1. chats[t] \ (behind[t] \cup atRisk) = known \ (behind[t] \cup atRisk)
    BY DEF ListInv, List!ListIsKept
  <2> QED
    BY <1>2, <1>3, <1>4, <2>1
<1>6. ASSUME NEW u \in open
      PROVE  chats'[u] \ (behind'[u] \cup atRisk') = known' \ (behind'[u] \cup atRisk')
  <2>1. CASE u = t
    BY <1>4, <1>5, <2>1
  <2>2. CASE u # t
    <3>1. chats[u] \ (behind[u] \cup atRisk) = known \ (behind[u] \cup atRisk)
      BY DEF ListInv, List!ListIsKept
    <3>2. chats'[u] = chats[u] /\ behind'[u] = behind[u] \cup {c}
      BY <1>2, <1>3, <2>2 DEF ListInv
    <3>3. known' \ {c} = known \ {c}
      BY <1>2
    <3> QED
      BY <1>3, <3>1, <3>2, <3>3
  <2> QED
    BY <2>1, <2>2
<1>7. behind' \in [Tabs -> SUBSET Chats]
  BY <1>3 DEF ListInv
<1> QED
  BY <1>1, <1>4, <1>5, <1>6, <1>7 DEF List!ListIsKept

LEMMA ListStep ==
    ASSUME ListInv, List!Next
    PROVE  ListInv'
<1> PICK t \in Tabs :
        \/ List!Load(t) \/ List!Close(t)
        \/ \E c \in Chats : \/ List!Create(t, c) \/ List!Created(t, c) \/ List!OnOpen(t, c)
                            \/ List!OnForget(t, c) \/ List!Remove(t, c) \/ List!Removed(t, c)
  BY DEF List!Next
<1>1. ASSUME NEW c \in Chats,
             \/ List!Create(t, c) \/ List!Created(t, c) \/ List!OnOpen(t, c)
             \/ List!OnForget(t, c) \/ List!Remove(t, c) \/ List!Removed(t, c)
      PROVE  ListInv'
  <2>1. t \in open /\ UNCHANGED open
    BY <1>1 DEF ListInv, List!Create, List!Created, List!OnOpen, List!OnForget, List!Remove, List!Removed
  <2>2. List!PutOn(t, c) \/ List!TakeOff(t, c) \/ UNCHANGED List!registry
    BY <1>1 DEF List!Create, List!Created, List!OnOpen, List!OnForget, List!Remove, List!Removed, List!registry
  <2>3. /\ List!ListIsKept'
        /\ chats' \in [Tabs -> SUBSET Chats] /\ behind' \in [Tabs -> SUBSET Chats]
        /\ stored' \subseteq Chats
    <3>1. CASE UNCHANGED List!registry
      BY <2>1, <3>1 DEF List!registry, ListInv, List!ListIsKept
    <3> QED
      BY <2>1, <2>2, <3>1, ListChanges
  <2>4. /\ creating' = [creating EXCEPT ![t] = creating'[t]] /\ creating'[t] \in SUBSET Chats
        /\ deleting' = [deleting EXCEPT ![t] = deleting'[t]] /\ deleting'[t] \in SUBSET Chats
    BY <1>1 DEF ListInv, List!Create, List!Created, List!OnOpen, List!OnForget, List!Remove, List!Removed
  <2>5. /\ creating' \in [Tabs -> SUBSET Chats] /\ deleting' \in [Tabs -> SUBSET Chats]
        /\ \A u \in Tabs \ open' : creating'[u] = {} /\ deleting'[u] = {}
    BY <2>1, <2>4 DEF ListInv
  <2> QED
    BY <2>1, <2>3, <2>5 DEF ListInv
<1> QED
  BY <1>1, ListLoads, ListCloses

(* For any number of tabs and chats: the list in localStorage, and that of *)
(* every open tab, is right about each chat that no stale tab has put at   *)
(* risk (load, remember, forget, persist).                                 *)
THEOREM TabsKeepTheList == List!Spec => []List!ListIsKept
<1>1. List!Init => ListInv
  BY DEF List!Init, ListInv, List!ListIsKept
<1>2. ListInv /\ [List!Next]_(List!vars) => ListInv'
  <2> SUFFICES ASSUME ListInv, [List!Next]_(List!vars) PROVE ListInv'
    OBVIOUS
  <2>1. CASE UNCHANGED List!vars
    BY <2>1 DEF List!vars, List!server, List!registry, ListInv, List!ListIsKept
  <2> QED
    BY <2>1, ListStep
<1>3. ListInv => List!ListIsKept
  BY DEF ListInv
<1> QED
  BY <1>1, <1>2, <1>3, PTL DEF List!Spec

=============================================================================
