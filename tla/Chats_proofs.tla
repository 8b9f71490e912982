---------------------------- MODULE Chats_proofs ----------------------------
(***************************************************************************)
(* Proofs about Chats for every set of users, chats and requests and every *)
(* bound.                                                                  *)
(*                                                                         *)
(* The handlers check and then write, so the properties of the stored      *)
(* chats need to know what was checked: PendingSound says it of the chats  *)
(* about to be inserted and of the additions about to be written.  What    *)
(* makes an old check still good is ChatsAdvance: a chat keeps its type    *)
(* and creator, its roster only grows, a deleted chat is never changed,    *)
(* and no user is forgotten.                                               *)
(***************************************************************************)
EXTENDS Chats, FiniteSetTheorems, TLAPS

(* A document whose participants were checked against the users known. *)
DocSound(doc, known) ==
    /\ doc.createdBy \in doc.participants
    /\ doc.participants \subseteq known
    /\ doc.type = "group" => \E u \in doc.participants : u # doc.createdBy

DocsSound == \A c \in EverChats : DocSound(LastDoc(c), issued)

RequestSound(r) ==
    /\ req[r].pc = "inserting" => DocSound(req[r].doc, issued)
    /\ req[r].pc \in {"inviting", "adding"} =>
          /\ req[r].chat \in EverChats
          /\ req[r].caller = LastDoc(req[r].chat).createdBy \/ req[r].role = "admin"
    /\ req[r].pc = "adding" => req[r].ids \subseteq issued

PendingSound == \A r \in Requests : RequestSound(r)

IInv == TypeOK /\ DocsSound /\ PendingSound /\ GroupsArePrivate

-----------------------------------------------------------------------------
(* Requests *)

LEMMA RoutesAre == Routes = {"create", "add", "delete", "send", "list"}
  BY DEF Routes, RoutePermission

LEMMA RequestForms ==
    ASSUME NEW q \in Request
    PROVE  /\ q.pc \in {"create", "delete", "send", "list"} => q.caller \in UserIds
           /\ q.pc = "add" => q.caller \in UserIds /\ q.role \in Roles
           /\ q.pc = "inserting" => q.doc \in Chat
           /\ q.pc \in {"inviting", "adding"} =>
                 q.caller \in UserIds /\ q.role \in Roles /\ q.chat \in ChatIds
           /\ q.pc = "adding" => q.ids \in SUBSET UserIds
           /\ q.pc \in {"sending", "listing"} => q.caller \in UserIds /\ q.chat \in ChatIds
<1>1. CASE q = Idle
  BY <1>1 DEF Idle
<1>2. CASE q \in [pc : Routes \ {"add"}, caller : UserIds]
  BY <1>2, RoutesAre
<1>3. CASE q \in [pc : {"add"}, caller : UserIds, role : Roles]
  BY <1>3
<1>4. CASE q \in [pc : {"inserting"}, doc : Chat]
  BY <1>4
<1>5. CASE q \in [pc : {"inviting"}, caller : UserIds, role : Roles, chat : ChatIds]
  BY <1>5
<1>6. CASE q \in [pc : {"adding"}, caller : UserIds, role : Roles, chat : ChatIds,
                  ids : SUBSET UserIds]
  BY <1>6
<1>7. CASE q \in [pc : {"sending", "listing"}, caller : UserIds, chat : ChatIds]
  BY <1>7
<1> QED
  BY <1>1, <1>2, <1>3, <1>4, <1>5, <1>6, <1>7 DEF Request

LEMMA ContextIsRequest ==
    ASSUME NEW u \in UserIds, NEW route \in Routes
    PROVE  Context(u, route) \in Request /\ Context(u, route).pc = route
  BY RoutesAre DEF Context, Request, RoleOf, Roles

-----------------------------------------------------------------------------
(* Type correctness *)

LEMMA TypeInductive ==
    ASSUME TypeOK, [Next]_vars
    PROVE  TypeOK'
<1> USE DEF TypeOK
<1>1. CASE UserStep
  BY <1>1 DEF UserStep, Users!Next, Users!Register, Users!SoftDelete, Users!Restore,
              Users!ChangeRole, Users!Purge
<1>2. ASSUME NEW r \in Requests, NEW u \in UserIds, NEW route \in Routes, Enter(r, u, route)
      PROVE  TypeOK'
  BY <1>2, ContextIsRequest DEF Enter, Set, userVars
<1>3. ASSUME NEW r \in Requests, NEW ids \in SUBSET UserIds, CheckInvited(r, ids)
      PROVE  TypeOK'
  <2>1. [pc |-> "adding", caller |-> req[r].caller, role |-> req[r].role,
         chat |-> req[r].chat, ids |-> ids] \in Request
    BY <1>3, RequestForms DEF CheckInvited, Request
  <2> QED
    BY <1>3, <2>1 DEF CheckInvited, Set, userVars
<1>4. ASSUME NEW r \in Requests, NEW ids \in SUBSET UserIds, NEW type \in {"public", "group"},
             CheckParticipants(r, type, ids)
      PROVE  TypeOK'
  <2>1. req[r].caller \in UserIds
    BY <1>4, RequestForms DEF CheckParticipants
  <2>2. [pc |-> "inserting",
         doc |-> [type |-> type, participants |-> ParseParticipants(ids, req[r].caller),
                  createdBy |-> req[r].caller]] \in Request
    BY <2>1 DEF Request, Chat, ParseParticipants
  <2> QED
    BY <1>4, <2>2 DEF CheckParticipants, Set, userVars
<1>5. ASSUME NEW r \in Requests, NEW c \in ChatIds, InsertChat(r, c)
      PROVE  TypeOK'
  <2>1. req[r].doc \in Chat
    BY <1>5, RequestForms DEF InsertChat
  <2> QED
    BY <1>5, <2>1 DEF InsertChat, Set, Request, userVars
<1>6. ASSUME NEW r \in Requests, NEW c \in ChatIds, LoadForAdd(r, c)
      PROVE  TypeOK'
  <2>1. [pc |-> "inviting", caller |-> req[r].caller, role |-> req[r].role, chat |-> c] \in Request
    BY <1>6, RequestForms DEF LoadForAdd, Request
  <2> QED
    BY <1>6, <2>1 DEF LoadForAdd, Set, userVars
<1>7. ASSUME NEW r \in Requests, NEW c \in ChatIds, DeleteChat(r, c)
       PROVE  TypeOK'
  BY <1>7 DEF DeleteChat, Set, Request, userVars
<1>8. ASSUME NEW r \in Requests, NEW c \in ChatIds, LoadForSend(r, c) \/ LoadForList(r, c)
       PROVE  TypeOK'
  <2>1. req[r].caller \in UserIds
    BY <1>8, RequestForms DEF LoadForSend, LoadForList
  <2>2. \A next \in {"sending", "listing"} :
           [pc |-> next, caller |-> req[r].caller, chat |-> c] \in Request
    BY <2>1 DEF Request
  <2> QED
    BY <1>8, <2>2 DEF LoadForSend, LoadForList, ChatForRequest, Set, userVars
<1>9. ASSUME NEW r \in Requests, AddParticipants(r)
       PROVE  TypeOK'
  <2>1. req[r].ids \in SUBSET UserIds
    BY <1>9, RequestForms DEF AddParticipants
  <2>2. chats' \in [DOMAIN chats -> Chat] /\ DOMAIN chats' = DOMAIN chats
    BY <1>9, <2>1 DEF AddParticipants, AddToRoster, Chat
  <2> QED
    BY <1>9, <2>2 DEF AddParticipants, Set, Request, userVars
<1>10. ASSUME NEW r \in Requests, CreateMessage(r)
       PROVE  TypeOK'
  <2>1. [chat |-> req[r].chat, author |-> req[r].caller] \in Message
    BY <1>10, RequestForms DEF CreateMessage, Message
  <2> QED
    BY <1>10, <2>1 DEF CreateMessage, Set, Request, userVars
<1>11. ASSUME NEW r \in Requests, MessagesByChat(r) \/ Refuse(r)
       PROVE  TypeOK'
  BY <1>11 DEF MessagesByChat, Refuse, Set, Request, userVars
<1>12. CASE UNCHANGED vars
  BY <1>12 DEF vars
<1> QED
  BY <1>1, <1>2, <1>3, <1>4, <1>5, <1>6, <1>7, <1>8, <1>9, <1>10, <1>11, <1>12 DEF Next, Handle

LEMMA TypeInitial == Init => TypeOK
  BY DEF Init, Users!Init, NoDocuments, TypeOK, Request

(* The collections and the requests always have the shapes of the program. *)
THEOREM TypeCorrect == Spec => []TypeOK
<1> QED
  BY TypeInitial, TypeInductive, PTL DEF Spec

-----------------------------------------------------------------------------
(* Chats only advance *)

Advanced(old, new) ==
    /\ new.type = old.type
    /\ new.createdBy = old.createdBy
    /\ old.participants \subseteq new.participants

ChatsAdvance ==
    /\ issued \subseteq issued'
    /\ \A c \in EverChats : c \in EverChats' /\ Advanced(LastDoc(c), LastDoc(c)')

(* The three writes to the chats collection, and every step that leaves it. *)
LEMMA InsertAdvances ==
    ASSUME TypeOK, NEW r \in Requests, NEW c \in ChatIds, InsertChat(r, c)
    PROVE  /\ ChatsAdvance
           /\ EverChats' = EverChats \cup {c}
           /\ LastDoc(c)' = req[r].doc
           /\ \A d \in EverChats : LastDoc(d)' = LastDoc(d)
<1>1. DOMAIN chats' = DOMAIN chats \cup {c} /\ chats'[c] = req[r].doc
      /\ \A d \in DOMAIN chats : chats'[d] = chats[d]
  BY DEF InsertChat
<1>2. c \notin EverChats /\ closed' = closed /\ issued' = issued
  BY DEF InsertChat, userVars, EverChats
<1>3. \A d \in EverChats : LastDoc(d)' = LastDoc(d)
  BY <1>1, <1>2 DEF LastDoc, EverChats
<1> QED
  BY <1>1, <1>2, <1>3 DEF ChatsAdvance, Advanced, EverChats, LastDoc

LEMMA AdditionAdvances ==
    ASSUME TypeOK, NEW r \in Requests, AddParticipants(r)
    PROVE  /\ ChatsAdvance
           /\ EverChats' = EverChats
           /\ \A d \in EverChats :
                 LastDoc(d)'.participants \subseteq LastDoc(d).participants \cup req[r].ids
<1>1. DOMAIN chats' = DOMAIN chats
      /\ \A d \in DOMAIN chats :
            /\ Advanced(chats[d], chats'[d])
            /\ chats'[d].participants \subseteq chats[d].participants \cup req[r].ids
  BY DEF AddParticipants, AddToRoster, Advanced, TypeOK, Chat
<1>2. closed' = closed /\ issued' = issued
  BY DEF AddParticipants, userVars
<1> QED
  BY <1>1, <1>2 DEF ChatsAdvance, Advanced, EverChats, LastDoc

LEMMA DeletionKeepsDocs ==
    ASSUME TypeOK, NEW r \in Requests, NEW c \in ChatIds, DeleteChat(r, c)
    PROVE  ChatsAdvance /\ EverChats' = EverChats
           /\ \A d \in EverChats : LastDoc(d)' = LastDoc(d)
<1>1. /\ c \in DOMAIN chats
      /\ DOMAIN chats' = DOMAIN chats \ {c}
      /\ \A d \in DOMAIN chats \ {c} : chats'[d] = chats[d]
      /\ DOMAIN closed' = DOMAIN closed \cup {c}
      /\ closed'[c] = chats[c]
      /\ \A d \in DOMAIN closed \ {c} : closed'[d] = closed[d]
  BY DEF DeleteChat
<1>2. issued' = issued
  BY DEF DeleteChat, userVars
<1>3. \A d \in EverChats : LastDoc(d)' = LastDoc(d)
  BY <1>1 DEF EverChats, LastDoc, TypeOK
<1> QED
  BY <1>1, <1>2, <1>3 DEF ChatsAdvance, Advanced, EverChats

LEMMA ChatsSame ==
    ASSUME chats' = chats, closed' = closed, issued \subseteq issued'
    PROVE  ChatsAdvance /\ EverChats' = EverChats
           /\ \A d \in EverChats : LastDoc(d)' = LastDoc(d)
  BY DEF ChatsAdvance, Advanced, EverChats, LastDoc

(* A sound document stays sound while it advances into sound company. *)
LEMMA SoundStays ==
    ASSUME NEW doc, NEW new, NEW known, NEW known2,
           DocSound(doc, known), Advanced(doc, new), known \subseteq known2,
           new.participants \subseteq known2
    PROVE  DocSound(new, known2)
  BY DEF DocSound, Advanced

-----------------------------------------------------------------------------
(* What a check leaves behind *)

(* A participant besides the creator: what a set of two or more means. *)
LEMMA LargeEnoughHasCompany ==
    ASSUME NEW invited, NEW creator, LargeEnough("group", invited, creator)
    PROVE  \E u \in ParseParticipants(invited, creator) : u # creator
<1> SUFFICES ASSUME ParseParticipants(invited, creator) = {creator} PROVE FALSE
  BY DEF ParseParticipants
<1>1. Cardinality({creator}) = 1
  BY FS_Singleton
<1> QED
  BY <1>1 DEF LargeEnough

LEMMA CheckedIsSound ==
    ASSUME TypeOK, NEW r \in Requests, NEW ids \in SUBSET UserIds,
           NEW type \in {"public", "group"}, CheckParticipants(r, type, ids)
    PROVE  req'[r].pc = "inserting" /\ DocSound(req'[r].doc, issued)
<1> DEFINE doc == [type |-> type, participants |-> ParseParticipants(ids, req[r].caller),
                   createdBy |-> req[r].caller]
<1>1. req'[r] = [pc |-> "inserting", doc |-> doc]
  BY DEF CheckParticipants, Set, TypeOK
<1>2. doc.participants \subseteq issued /\ doc.createdBy \in doc.participants
  BY DEF CheckParticipants, AllExist, TypeOK, ParseParticipants
<1>3. doc.type = "group" => \E u \in doc.participants : u # doc.createdBy
  <2> SUFFICES ASSUME type = "group" PROVE \E u \in doc.participants : u # doc.createdBy
    OBVIOUS
  <2>1. LargeEnough("group", ids, req[r].caller)
    BY DEF CheckParticipants
  <2> QED
    BY <2>1, LargeEnoughHasCompany
<1> QED
  BY <1>1, <1>2, <1>3 DEF DocSound

(* A check of ids and of who may add them. *)
LEMMA InvitedIsSound ==
    ASSUME TypeOK, PendingSound, NEW r \in Requests, NEW ids \in SUBSET UserIds,
           CheckInvited(r, ids)
    PROVE  /\ req'[r].pc = "adding" /\ req'[r].ids \subseteq issued
           /\ req'[r].chat \in EverChats
           /\ req'[r].caller = LastDoc(req'[r].chat).createdBy \/ req'[r].role = "admin"
<1>1. req'[r] = [pc |-> "adding", caller |-> req[r].caller, role |-> req[r].role,
                 chat |-> req[r].chat, ids |-> ids]
  BY DEF CheckInvited, Set, TypeOK
<1>2. ids \subseteq issued /\ req[r].pc = "inviting"
  BY DEF CheckInvited, AllExist, TypeOK
<1> QED
  BY <1>1, <1>2 DEF PendingSound, RequestSound

LEMMA ModeratorsAreAdmins ==
    ASSUME NEW role \in Roles, Has(role, "chats:moderate")
    PROVE  role = "admin"
  BY DEF Has, RolePermissions, Roles, UserPermissions

LEMMA LoadedIsSound ==
    ASSUME TypeOK, NEW r \in Requests, NEW c \in ChatIds, LoadForAdd(r, c)
    PROVE  /\ req'[r].pc = "inviting" /\ req'[r].chat \in EverChats
           /\ req'[r].caller = LastDoc(req'[r].chat).createdBy \/ req'[r].role = "admin"
<1>1. req'[r] = [pc |-> "inviting", caller |-> req[r].caller, role |-> req[r].role, chat |-> c]
  BY DEF LoadForAdd, Set, TypeOK
<1>2. c \in EverChats /\ LastDoc(c) = chats[c]
  BY DEF LoadForAdd, EverChats, LastDoc
<1>3. req[r].role \in Roles
  BY RequestForms DEF LoadForAdd, TypeOK
<1>4. req[r].caller = chats[c].createdBy \/ req[r].role = "admin"
  BY <1>3, ModeratorsAreAdmins DEF LoadForAdd, MayInvite
<1> QED
  BY <1>1, <1>2, <1>4

-----------------------------------------------------------------------------
(* The other steps leave no trace a check or a document could depend on *)

(* Steps that change neither chats nor messages, and leave every request   *)
(* alone but one, which is then at no step that has checked anything.      *)
Harmless ==
    /\ UNCHANGED <<chats, closed, messages>>
    /\ issued \subseteq issued'
    /\ \A q \in Requests :
          req'[q] = req[q]
          \/ req'[q].pc \in {"idle", "create", "add", "delete", "send", "list"}

LEMMA HarmlessUsers ==
    ASSUME TypeOK, UserStep
    PROVE  Harmless
  BY DEF UserStep, Users!Next, Users!Register, Users!SoftDelete, Users!Restore,
         Users!ChangeRole, Users!Purge, Harmless

LEMMA HarmlessRequests ==
    ASSUME TypeOK, NEW r \in Requests,
           \/ \E u \in UserIds, route \in Routes : Enter(r, u, route)
           \/ MessagesByChat(r) \/ Refuse(r)
    PROVE  Harmless
<1>1. CASE \E u \in UserIds, route \in Routes : Enter(r, u, route)
  BY <1>1, ContextIsRequest, RoutesAre DEF Enter, Set, TypeOK, Harmless, userVars
<1>2. CASE MessagesByChat(r) \/ Refuse(r)
  BY <1>2 DEF MessagesByChat, Refuse, Set, Idle, TypeOK, Harmless, userVars
<1> QED
  BY <1>1, <1>2

LEMMA HarmlessStutter == ASSUME UNCHANGED vars PROVE Harmless
  BY DEF vars, Harmless

-----------------------------------------------------------------------------
(* The invariant is inductive *)

LEMMA RequestStays ==
    ASSUME PendingSound, ChatsAdvance, NEW q \in Requests, req'[q] = req[q]
    PROVE  RequestSound(q)'
<1>1. issued \subseteq issued'
  BY DEF ChatsAdvance
<1>2. \A c \in EverChats : c \in EverChats' /\ LastDoc(c)'.createdBy = LastDoc(c).createdBy
  BY DEF ChatsAdvance, Advanced
<1> QED
  BY <1>1, <1>2 DEF PendingSound, RequestSound, DocSound, LastDoc, EverChats

LEMMA RequestUnchecked ==
    ASSUME NEW q \in Requests,
           req'[q].pc \in {"idle", "create", "add", "delete", "send", "list",
                           "sending", "listing"}
    PROVE  RequestSound(q)'
  BY DEF RequestSound

LEMMA InsidersStay ==
    ASSUME ChatsAdvance, NEW c, NEW u, Insider(c, u)
    PROVE  Insider(c, u)'
  BY DEF ChatsAdvance, Advanced, Insider

LEMMA DocsStay ==
    ASSUME DocsSound, issued \subseteq issued', EverChats' = EverChats,
           \A d \in EverChats : LastDoc(d)' = LastDoc(d)
    PROVE  DocsSound'
<1> SUFFICES ASSUME NEW d \in EverChats PROVE DocSound(LastDoc(d)', issued')
  BY DEF DocsSound
<1> QED
  BY DEF DocsSound, DocSound

LEMMA HarmlessKeeps ==
    ASSUME IInv, Harmless
    PROVE  DocsSound' /\ PendingSound' /\ GroupsArePrivate'
<1>1. ChatsAdvance /\ EverChats' = EverChats /\ \A d \in EverChats : LastDoc(d)' = LastDoc(d)
  BY ChatsSame DEF Harmless
<1>2. DocsSound'
  BY <1>1, DocsStay DEF IInv, Harmless
<1>3. PendingSound'
  BY <1>1, RequestStays, RequestUnchecked DEF IInv, Harmless, PendingSound
<1>4. \A m \in messages' : Insider(m.chat, m.author)'
  BY <1>1 DEF IInv, GroupsArePrivate, Harmless, Insider
<1>5. ASSUME NEW r \in Requests, req'[r].pc \in {"sending", "listing"}
      PROVE  Insider(req[r].chat, req[r].caller)'
  BY <1>1, <1>5 DEF IInv, GroupsArePrivate, Harmless, Insider
<1> QED
  BY <1>2, <1>3, <1>4, <1>5 DEF GroupsArePrivate

LEMMA PrivacyStays ==
    ASSUME GroupsArePrivate, ChatsAdvance, messages' = messages,
           \A q \in Requests : req'[q] = req[q] \/ req'[q].pc \notin {"sending", "listing"}
    PROVE  GroupsArePrivate'
<1>1. \A m \in messages' : Insider(m.chat, m.author)'
  BY InsidersStay DEF GroupsArePrivate
<1>2. ASSUME NEW r \in Requests, req'[r].pc \in {"sending", "listing"}
      PROVE  Insider(req[r].chat, req[r].caller)'
  BY <1>2 DEF GroupsArePrivate, Insider, ChatsAdvance, Advanced, EverChats, LastDoc
<1> QED
  BY <1>1, <1>2 DEF GroupsArePrivate

LEMMA InsertKeeps ==
    ASSUME IInv, NEW r \in Requests, NEW c \in ChatIds, InsertChat(r, c)
    PROVE  DocsSound' /\ PendingSound' /\ GroupsArePrivate'
<1>1. /\ ChatsAdvance /\ EverChats' = EverChats \cup {c} /\ LastDoc(c)' = req[r].doc
      /\ \A d \in EverChats : LastDoc(d)' = LastDoc(d)
  BY InsertAdvances DEF IInv
<1>2. /\ issued' = issued /\ messages' = messages /\ req[r].pc = "inserting"
      /\ req'[r] = Idle /\ \A q \in Requests \ {r} : req'[q] = req[q]
  BY DEF InsertChat, userVars, Set, IInv, TypeOK
<1>3. DocSound(req[r].doc, issued)
  BY <1>2 DEF IInv, PendingSound, RequestSound
<1>4. DocsSound'
  <2> SUFFICES ASSUME NEW d \in EverChats' PROVE DocSound(LastDoc(d)', issued')
    BY DEF DocsSound
  <2> QED
    BY <1>1, <1>2, <1>3 DEF IInv, DocsSound
<1>5. PendingSound'
  BY <1>1, <1>2, RequestStays, RequestUnchecked DEF IInv, PendingSound, Idle
<1>6. GroupsArePrivate'
  BY <1>1, <1>2, PrivacyStays DEF IInv, Idle
<1> QED
  BY <1>4, <1>5, <1>6

LEMMA AdditionKeeps ==
    ASSUME IInv, NEW r \in Requests, AddParticipants(r)
    PROVE  DocsSound' /\ PendingSound' /\ GroupsArePrivate'
<1>1. /\ ChatsAdvance /\ EverChats' = EverChats
      /\ \A d \in EverChats :
            LastDoc(d)'.participants \subseteq LastDoc(d).participants \cup req[r].ids
  BY AdditionAdvances DEF IInv
<1>2. /\ issued' = issued /\ messages' = messages /\ req[r].pc = "adding"
      /\ req'[r] = Idle /\ \A q \in Requests \ {r} : req'[q] = req[q]
  BY DEF AddParticipants, userVars, Set, IInv, TypeOK
<1>3. req[r].ids \subseteq issued
  BY <1>2 DEF IInv, PendingSound, RequestSound
<1>4. DocsSound'
  <2> SUFFICES ASSUME NEW d \in EverChats PROVE DocSound(LastDoc(d)', issued')
    BY <1>1 DEF DocsSound
  <2>1. DocSound(LastDoc(d), issued) /\ Advanced(LastDoc(d), LastDoc(d)')
    BY <1>1 DEF IInv, DocsSound, ChatsAdvance
  <2> QED
    BY <1>1, <1>2, <1>3, <2>1 DEF DocSound, Advanced
<1>5. PendingSound'
  BY <1>1, <1>2, RequestStays, RequestUnchecked DEF IInv, PendingSound, Idle
<1>6. GroupsArePrivate'
  BY <1>1, <1>2, PrivacyStays DEF IInv, Idle
<1> QED
  BY <1>4, <1>5, <1>6

LEMMA DeletionKeeps ==
    ASSUME IInv, NEW r \in Requests, NEW c \in ChatIds, DeleteChat(r, c)
    PROVE  DocsSound' /\ PendingSound' /\ GroupsArePrivate'
<1>1. ChatsAdvance /\ EverChats' = EverChats /\ \A d \in EverChats : LastDoc(d)' = LastDoc(d)
  BY DeletionKeepsDocs DEF IInv
<1>2. /\ issued' = issued /\ messages' = messages
      /\ req'[r] = Idle /\ \A q \in Requests \ {r} : req'[q] = req[q]
  BY DEF DeleteChat, userVars, Set, IInv, TypeOK
<1>3. DocsSound'
  BY <1>1, <1>2, DocsStay DEF IInv
<1>4. PendingSound'
  BY <1>1, <1>2, RequestStays, RequestUnchecked DEF IInv, PendingSound, Idle
<1>5. GroupsArePrivate'
  BY <1>1, <1>2, PrivacyStays DEF IInv, Idle
<1> QED
  BY <1>3, <1>4, <1>5

(* The three checks: documents and messages stay, one request moves on. *)
LEMMA CheckKeeps ==
    ASSUME IInv, NEW r \in Requests,
           UNCHANGED <<userVars, chats, closed, messages>>,
           \A q \in Requests \ {r} : req'[q] = req[q],
           RequestSound(r)', req'[r].pc \notin {"sending", "listing"}
    PROVE  DocsSound' /\ PendingSound' /\ GroupsArePrivate'
<1>1. ChatsAdvance /\ EverChats' = EverChats /\ \A d \in EverChats : LastDoc(d)' = LastDoc(d)
  BY ChatsSame DEF userVars
<1>2. DocsSound'
  BY <1>1, DocsStay DEF IInv, userVars
<1>3. PendingSound'
  BY <1>1, RequestStays DEF IInv, PendingSound
<1>4. GroupsArePrivate'
  BY <1>1, PrivacyStays DEF IInv
<1> QED
  BY <1>2, <1>3, <1>4

LEMMA AccessKeeps ==
    ASSUME IInv, NEW r \in Requests, NEW c \in ChatIds, LoadForSend(r, c) \/ LoadForList(r, c)
    PROVE  DocsSound' /\ PendingSound' /\ GroupsArePrivate'
<1>1. /\ UNCHANGED <<userVars, chats, closed, messages>>
      /\ req'[r].pc \in {"sending", "listing"} /\ req'[r].chat = c
      /\ req'[r].caller = req[r].caller
      /\ \A q \in Requests \ {r} : req'[q] = req[q]
  BY DEF LoadForSend, LoadForList, ChatForRequest, Set, IInv, TypeOK
<1>2. Insider(c, req[r].caller)
  BY DEF LoadForSend, LoadForList, ChatForRequest, MayAccess, Insider, EverChats, LastDoc
<1>3. ChatsAdvance /\ EverChats' = EverChats /\ \A d \in EverChats : LastDoc(d)' = LastDoc(d)
  BY <1>1, ChatsSame DEF userVars
<1>4. DocsSound'
  BY <1>1, <1>3, DocsStay DEF IInv, userVars
<1>5. PendingSound'
  BY <1>1, <1>3, RequestStays, RequestUnchecked DEF IInv, PendingSound
<1>6. \A m \in messages' : Insider(m.chat, m.author)'
  BY <1>1, <1>3, InsidersStay DEF IInv, GroupsArePrivate
<1>7. ASSUME NEW q \in Requests, req'[q].pc \in {"sending", "listing"}
      PROVE  Insider(req[q].chat, req[q].caller)'
  BY <1>1, <1>2, <1>7 DEF IInv, GroupsArePrivate, Insider, EverChats, LastDoc
<1> QED
  BY <1>4, <1>5, <1>6, <1>7 DEF GroupsArePrivate

LEMMA SendKeeps ==
    ASSUME IInv, NEW r \in Requests, CreateMessage(r)
    PROVE  DocsSound' /\ PendingSound' /\ GroupsArePrivate'
<1>1. /\ UNCHANGED <<userVars, chats, closed>> /\ req[r].pc = "sending"
      /\ messages' = messages \cup {[chat |-> req[r].chat, author |-> req[r].caller]}
      /\ req'[r] = Idle /\ \A q \in Requests \ {r} : req'[q] = req[q]
  BY DEF CreateMessage, Set, IInv, TypeOK
<1>2. ChatsAdvance /\ EverChats' = EverChats /\ \A d \in EverChats : LastDoc(d)' = LastDoc(d)
  BY <1>1, ChatsSame DEF userVars
<1>3. DocsSound'
  BY <1>1, <1>2, DocsStay DEF IInv, userVars
<1>4. PendingSound'
  BY <1>1, <1>2, RequestStays, RequestUnchecked DEF IInv, PendingSound, Idle
<1>5. \A m \in messages' : Insider(m.chat, m.author)'
  BY <1>1 DEF IInv, GroupsArePrivate, Insider, EverChats, LastDoc
<1>6. ASSUME NEW q \in Requests, req'[q].pc \in {"sending", "listing"}
      PROVE  Insider(req[q].chat, req[q].caller)'
  BY <1>1, <1>6 DEF IInv, GroupsArePrivate, Insider, EverChats, LastDoc, Idle
<1> QED
  BY <1>3, <1>4, <1>5, <1>6 DEF GroupsArePrivate

LEMMA StepKeeps ==
    ASSUME IInv, [Next]_vars
    PROVE  IInv'
<1>1. TypeOK'
  BY TypeInductive DEF IInv
<1> SUFFICES DocsSound' /\ PendingSound' /\ GroupsArePrivate'
  BY <1>1 DEF IInv
<1>2. CASE UserStep
  BY <1>2, HarmlessUsers, HarmlessKeeps DEF IInv
<1>3. CASE UNCHANGED vars
  BY <1>3, HarmlessStutter, HarmlessKeeps
<1>4. ASSUME NEW r \in Requests,
             \/ \E u \in UserIds, route \in Routes : Enter(r, u, route)
             \/ MessagesByChat(r) \/ Refuse(r)
      PROVE  DocsSound' /\ PendingSound' /\ GroupsArePrivate'
  BY <1>4, HarmlessRequests, HarmlessKeeps DEF IInv
<1>5. ASSUME NEW r \in Requests, NEW ids \in SUBSET UserIds, CheckInvited(r, ids)
      PROVE  DocsSound' /\ PendingSound' /\ GroupsArePrivate'
  <2>1. RequestSound(r)' /\ req'[r].pc = "adding"
    BY <1>5, InvitedIsSound DEF IInv, RequestSound, CheckInvited, userVars, EverChats, LastDoc
  <2> QED
    BY <1>5, <2>1, CheckKeeps DEF CheckInvited, Set, IInv, TypeOK
<1>6. ASSUME NEW r \in Requests, NEW ids \in SUBSET UserIds, NEW type \in {"public", "group"},
             CheckParticipants(r, type, ids)
      PROVE  DocsSound' /\ PendingSound' /\ GroupsArePrivate'
  <2>1. RequestSound(r)' /\ req'[r].pc = "inserting"
    BY <1>6, CheckedIsSound DEF IInv, RequestSound, CheckParticipants, userVars, DocSound
  <2> QED
    BY <1>6, <2>1, CheckKeeps DEF CheckParticipants, Set, IInv, TypeOK
<1>7. ASSUME NEW r \in Requests, NEW c \in ChatIds, LoadForAdd(r, c)
      PROVE  DocsSound' /\ PendingSound' /\ GroupsArePrivate'
  <2>1. RequestSound(r)' /\ req'[r].pc = "inviting"
    BY <1>7, LoadedIsSound DEF IInv, RequestSound, LoadForAdd, userVars, EverChats, LastDoc
  <2> QED
    BY <1>7, <2>1, CheckKeeps DEF LoadForAdd, Set, IInv, TypeOK
<1> QED
  BY <1>2, <1>3, <1>4, <1>5, <1>6, <1>7, InsertKeeps, AdditionKeeps, DeletionKeeps,
     AccessKeeps, SendKeeps DEF Next, Handle


LEMMA InvariantInitially == Init => IInv
<1> SUFFICES ASSUME Init PROVE IInv
  OBVIOUS
<1>1. TypeOK
  BY TypeInitial
<1>2. EverChats = {} /\ messages = {} /\ \A r \in Requests : req[r].pc = "idle"
  BY DEF Init, NoDocuments, EverChats, Idle
<1> QED
  BY <1>1, <1>2 DEF IInv, DocsSound, PendingSound, RequestSound, GroupsArePrivate

(* The strengthened invariant: what is stored is sound, and so is whatever *)
(* a request has checked and is about to write.                            *)
THEOREM InvariantHolds == Spec => []IInv
<1> QED
  BY InvariantInitially, StepKeeps, PTL DEF Spec

(* Every chat has its creator on the roster, a group has company, for      *)
(* every list of ids a client may send, and a roster names only users that *)
(* have registered, although they are counted before the roster is written *)
(* (Handler.Create, Storage.CountExisting).                                *)
THEOREM RostersAreSound == Spec => []RostersSound
<1>1. IInv => RostersSound
  BY DEF IInv, DocsSound, DocSound, RostersSound
<1> QED
  BY <1>1, InvariantHolds, PTL

(* Only participants write in a group or read from it, although the roster *)
(* is looked at before (chatForRequest).                                   *)
THEOREM GroupsStayPrivate == Spec => []GroupsArePrivate
<1>1. IInv => GroupsArePrivate
  BY DEF IInv
<1> QED
  BY <1>1, InvariantHolds, PTL

-----------------------------------------------------------------------------
(* What no step does *)

LEMMA StepAdvances ==
    ASSUME TypeOK, [Next]_vars
    PROVE  ChatsAdvance
<1>1. CASE UserStep
  BY <1>1, HarmlessUsers, ChatsSame DEF Harmless
<1>2. CASE UNCHANGED vars
  BY <1>2, HarmlessStutter, ChatsSame DEF Harmless
<1>3. ASSUME NEW r \in Requests,
             \/ \E u \in UserIds, route \in Routes : Enter(r, u, route)
             \/ MessagesByChat(r) \/ Refuse(r)
      PROVE  ChatsAdvance
  BY <1>3, HarmlessRequests, ChatsSame DEF Harmless
<1>4. ASSUME NEW r \in Requests, NEW ids \in SUBSET UserIds, CheckInvited(r, ids)
      PROVE  ChatsAdvance
  BY <1>4, ChatsSame DEF CheckInvited, userVars
<1>5. ASSUME NEW r \in Requests, NEW ids \in SUBSET UserIds, NEW type \in {"public", "group"},
             CheckParticipants(r, type, ids)
      PROVE  ChatsAdvance
  BY <1>5, ChatsSame DEF CheckParticipants, userVars
<1>6. ASSUME NEW r \in Requests, NEW c \in ChatIds,
             LoadForAdd(r, c) \/ LoadForSend(r, c) \/ LoadForList(r, c)
      PROVE  ChatsAdvance
  BY <1>6, ChatsSame DEF LoadForAdd, LoadForSend, LoadForList, ChatForRequest, userVars
<1>7. ASSUME NEW r \in Requests, CreateMessage(r)
      PROVE  ChatsAdvance
  BY <1>7, ChatsSame DEF CreateMessage, userVars
<1> QED
  BY <1>1, <1>2, <1>3, <1>4, <1>5, <1>6, <1>7, InsertAdvances, AdditionAdvances,
     DeletionKeepsDocs DEF Next, Handle

(* Deleted documents are kept as they were. *)
LEMMA ClosedStays ==
    ASSUME [Next]_vars
    PROVE  \A c \in DOMAIN closed : c \in DOMAIN closed' /\ (c \notin DOMAIN chats => closed'[c] = closed[c])
<1>1. closed' = closed \/ \E r \in Requests, c \in ChatIds : DeleteChat(r, c)
  BY DEF Next, UserStep, Handle, Enter, CheckInvited, CheckParticipants, InsertChat, LoadForAdd,
         LoadForSend, LoadForList, ChatForRequest, AddParticipants, CreateMessage,
         MessagesByChat, Refuse, vars
<1> QED
  BY <1>1 DEF DeleteChat

(* Calls that run at once never lose each other's participants, a chat's   *)
(* type and creator never change, and a deleted chat is neither brought    *)
(* back nor changed by a request that loaded it before                     *)
(* (Storage.AddParticipants, Storage.Delete).                              *)
THEOREM ChatsAreOnlyAdvanced == Spec => ChatsOnlyAdvance
<1> DEFINE Kept(c) == /\ c \in EverChats'
                      /\ LastDoc(c).participants \subseteq LastDoc(c)'.participants
                      /\ LastDoc(c)'.type = LastDoc(c).type
                      /\ LastDoc(c)'.createdBy = LastDoc(c).createdBy
           Final(c) == c \notin DOMAIN chats' /\ LastDoc(c)' = LastDoc(c)
           Advance == (\A c \in EverChats : Kept(c)) /\ (\A c \in DOMAIN closed : Final(c))
<1>1. TypeOK /\ TypeOK' /\ [Next]_vars => Advance
  <2> SUFFICES ASSUME TypeOK, TypeOK', [Next]_vars PROVE Advance
    OBVIOUS
  <2>1. \A c \in EverChats : Kept(c)
    BY StepAdvances DEF ChatsAdvance, Advanced
  <2>2. ASSUME NEW c \in DOMAIN closed
        PROVE  Final(c)
    <3>1. c \notin DOMAIN chats /\ c \in DOMAIN closed' /\ closed'[c] = closed[c]
      BY ClosedStays DEF TypeOK
    <3>2. c \notin DOMAIN chats'
      BY <3>1 DEF TypeOK
    <3> QED
      BY <3>1, <3>2 DEF LastDoc
  <2> QED
    BY <2>1, <2>2
<1> QED
  BY <1>1, TypeCorrect, PTL DEF Spec, ChatsOnlyAdvance

(* A roster grows only on behalf of the creator or of an administrator:    *)
(* the check made when the chat was loaded still holds for the chat the    *)
(* addition is written to (Handler.AddParticipants).                       *)
THEOREM OnlyOwnersAdd == Spec => OnlyOwnersInvite
<1> DEFINE Owner(c) == \E r \in Requests :
                          /\ req[r].pc = "adding" /\ req[r].chat = c
                          /\ req[r].caller = chats[c].createdBy \/ req[r].role = "admin"
           Invites == \A c \in DOMAIN chats \cap DOMAIN chats' :
                          chats'[c].participants # chats[c].participants => Owner(c)
<1>1. IInv /\ [Next]_vars => Invites
  <2> SUFFICES ASSUME IInv, [Next]_vars, NEW c \in DOMAIN chats \cap DOMAIN chats',
                      chats'[c].participants # chats[c].participants
               PROVE  Owner(c)
    OBVIOUS
  <2>1. PICK r \in Requests : AddParticipants(r)
    <3>1. chats' = chats
          \/ \E r \in Requests : AddParticipants(r)
                \/ \E d \in ChatIds : InsertChat(r, d) \/ DeleteChat(r, d)
      BY DEF Next, UserStep, Handle, Enter, CheckInvited, CheckParticipants, LoadForAdd,
             LoadForSend, LoadForList, ChatForRequest, CreateMessage, MessagesByChat, Refuse, vars
    <3>2. ASSUME NEW r \in Requests, NEW d \in ChatIds, InsertChat(r, d) \/ DeleteChat(r, d)
          PROVE  chats'[c] = chats[c]
      BY <3>2 DEF InsertChat, DeleteChat
    <3> QED
      BY <3>1, <3>2
  <2>2. req[r].pc = "adding" /\ req[r].chat = c
    BY <2>1 DEF AddParticipants, AddToRoster
  <2>3. LastDoc(c) = chats[c]
    BY DEF LastDoc
  <2> QED
    BY <2>2, <2>3 DEF IInv, PendingSound, RequestSound
<1> QED
  BY <1>1, InvariantHolds, PTL DEF Spec, OnlyOwnersInvite

-----------------------------------------------------------------------------
(* The handlers implement ChatRooms: what they checked calls ago is what   *)
(* the operation would have to check at the moment of the write            *)

LEMMA UsersMeet ==
    ASSUME UserStep
    PROVE  (\E p \in UserIds : Rooms!Meet(p)) \/ UNCHANGED Rooms!vars
<1> USE DEF UserStep, Rooms!vars
<1>1. CASE \E u \in UserIds : Users!Register(u)
  BY <1>1 DEF Users!Register, Rooms!Meet
<1>2. CASE \E u \in UserIds : Users!SoftDelete(u) \/ Users!Restore(u) \/ Users!ChangeRole(u)
                                 \/ Users!Purge(u)
  BY <1>2 DEF Users!SoftDelete, Users!Restore, Users!ChangeRole, Users!Purge
<1> QED
  BY <1>1, <1>2 DEF Users!Next

(* The document was sound when it was checked, and still is. *)
LEMMA InsertionOpens ==
    ASSUME IInv, NEW r \in Requests, NEW c \in ChatIds, InsertChat(r, c)
    PROVE  Rooms!Open(c)
<1> DEFINE doc == req[r].doc
<1>1. doc \in Rooms!Room
  BY RequestForms DEF InsertChat, IInv, TypeOK, Chat, Rooms!Room
<1>2. Rooms!WellFormed(doc) /\ doc.participants \subseteq issued
  BY DEF InsertChat, IInv, PendingSound, RequestSound, DocSound, Rooms!WellFormed
<1>3. /\ c \notin DOMAIN chats \cup DOMAIN closed
      /\ chats' = [d \in DOMAIN chats \cup {c} |-> IF d = c THEN doc ELSE chats[d]]
      /\ UNCHANGED <<issued, closed, messages>>
  BY DEF InsertChat, userVars
<1> QED
  BY <1>1, <1>2, <1>3 DEF Rooms!Open

(* The chat may have been deleted since, and then nothing happens. *)
LEMMA AdditionInvites ==
    ASSUME IInv, NEW r \in Requests, AddParticipants(r)
    PROVE  \/ \E c \in ChatIds, guests \in SUBSET UserIds : Rooms!Invite(c, guests)
           \/ UNCHANGED Rooms!vars
<1>1. UNCHANGED <<issued, closed, messages>> /\ chats' = AddToRoster(req[r].chat, req[r].ids)
  BY DEF AddParticipants, userVars
<1>2. CASE req[r].chat \in DOMAIN chats
  <2>1. /\ req[r].ids \subseteq issued
        /\ req[r].chat \in ChatIds /\ req[r].ids \in SUBSET UserIds
    BY RequestForms DEF AddParticipants, IInv, TypeOK, PendingSound, RequestSound
  <2>2. Rooms!Invite(req[r].chat, req[r].ids)
    BY <1>1, <1>2, <2>1 DEF Rooms!Invite, AddToRoster
  <2> QED
    BY <2>1, <2>2
<1>3. CASE req[r].chat \notin DOMAIN chats
  BY <1>1, <1>3 DEF AddToRoster, Rooms!vars
<1> QED
  BY <1>2, <1>3

LEMMA DeletionCloses ==
    ASSUME NEW r \in Requests, NEW c \in ChatIds, DeleteChat(r, c)
    PROVE  Rooms!Close(c)
  BY DEF DeleteChat, userVars, Rooms!Close

(* The author was let in by the roster of some time ago. *)
LEMMA SendingPosts ==
    ASSUME IInv, NEW r \in Requests, CreateMessage(r)
    PROVE  \E c \in ChatIds, p \in UserIds : Rooms!Post(c, p)
<1>1. req[r].chat \in ChatIds /\ req[r].caller \in UserIds
  BY RequestForms DEF CreateMessage, IInv, TypeOK
<1>2. Insider(req[r].chat, req[r].caller)
  BY DEF CreateMessage, IInv, GroupsArePrivate
<1>3. Rooms!Post(req[r].chat, req[r].caller)
  BY <1>2 DEF CreateMessage, userVars, Insider, EverChats, LastDoc, Rooms!Post, Rooms!OpenTo
<1> QED
  BY <1>1, <1>3

LEMMA InitialRooms == Init => Rooms!Init
  BY DEF Init, Users!Init, NoDocuments, Rooms!Init

LEMMA StepsMap ==
    ASSUME IInv, [Next]_vars
    PROVE  [Rooms!Next]_(Rooms!vars)
<1> USE DEF Rooms!Next
<1>1. CASE UserStep
  BY <1>1, UsersMeet
<1>2. CASE UNCHANGED vars
  BY <1>2 DEF vars, Rooms!vars
<1>3. ASSUME NEW r \in Requests, NEW c \in ChatIds, InsertChat(r, c)
      PROVE  Rooms!Next
  BY <1>3, InsertionOpens
<1>4. ASSUME NEW r \in Requests, NEW c \in ChatIds, DeleteChat(r, c)
      PROVE  Rooms!Next
  BY <1>4, DeletionCloses
<1>5. ASSUME NEW r \in Requests, AddParticipants(r)
      PROVE  [Rooms!Next]_(Rooms!vars)
  BY <1>5, AdditionInvites
<1>6. ASSUME NEW r \in Requests, CreateMessage(r)
      PROVE  Rooms!Next
  BY <1>6, SendingPosts
<1>7. ASSUME NEW r \in Requests,
             \/ \E u \in UserIds, route \in Routes : Enter(r, u, route)
             \/ \E ids \in SUBSET UserIds :
                   CheckInvited(r, ids)
                   \/ \E type \in {"public", "group"} : CheckParticipants(r, type, ids)
             \/ \E c \in ChatIds : LoadForAdd(r, c) \/ LoadForSend(r, c) \/ LoadForList(r, c)
             \/ MessagesByChat(r) \/ Refuse(r)
      PROVE  UNCHANGED Rooms!vars
  BY <1>7 DEF Enter, CheckInvited, CheckParticipants, LoadForAdd, LoadForSend, LoadForList,
              ChatForRequest, MessagesByChat, Refuse, userVars, Rooms!vars
<1> QED
  BY <1>1, <1>2, <1>3, <1>4, <1>5, <1>6, <1>7 DEF Next, Handle

(* Handlers that read, decide and write in separate calls implement        *)
(* operations that happen at once: every write would have been allowed at  *)
(* the moment it is made (Handler.Create, AddParticipants, SendMessage).   *)
THEOREM HandlersImplementRooms == Spec => ImplementsChatRooms
<1>1. IInv /\ [Next]_vars => [Rooms!Next]_(Rooms!vars)
  BY StepsMap
<1> QED
  BY <1>1, InitialRooms, InvariantHolds, PTL DEF Spec, ImplementsChatRooms, Rooms!Spec
=============================================================================
