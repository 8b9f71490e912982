-------------------------------- MODULE Chats --------------------------------
(***************************************************************************)
(* Chats and messages (internal/chats): the handlers behind the chat       *)
(* routes, cut into one action per database call.  A handler decides on    *)
(* what it has read - the caller and its role from the Auth middleware,    *)
(* the chat from ChatByID, a count of users - and writes later, while      *)
(* other requests and the administrators go on.                            *)
(*                                                                         *)
(* Of the users collection only what the handlers ask of it is kept: who   *)
(* exists and is not deleted, and who is an administrator.  It changes as  *)
(* module Directory says, which module Accounts, the collection itself,    *)
(* implements.  Names, texts, validation and the paging of messages are    *)
(* left out.                                                               *)
(***************************************************************************)
EXTENDS Naturals, FiniteSets, Permissions

CONSTANTS
    UserIds,
    ChatIds,        \* document ids; MongoDB never generates one twice
    Requests,       \* HTTP requests in flight at once
    MaxMessages,    \* bound: distinct (chat, author) pairs among the messages
    MaxAdmins,      \* bound: administrators at any one time
    MaxDeleted      \* bound: deleted users at any one time

VARIABLES
    issued,         \* users that have ever registered
    alive,          \* those that exist and are not soft-deleted
    admins,         \* those whose role is "admin"
    chats,          \* the chats collection: id -> document
    closed,         \* documents of deleted chats as they were last; for properties only
    messages,       \* the messages collection, texts and times left out
    req             \* what each request has read so far and does next

userVars == <<issued, alive, admins>>
vars == <<issued, alive, admins, chats, closed, messages, req>>

-----------------------------------------------------------------------------
(* Documents and requests *)

Chat == [type : {"public", "group"}, participants : SUBSET UserIds, createdBy : UserIds]

Message == [chat : ChatIds, author : UserIds]

(* The routes of setupRouter, each with the permission it requires. *)
RoutePermission == [create |-> "chats:create", add |-> "chats:update",
                    delete |-> "chats:delete", send |-> "messages:create",
                    list |-> "messages:read"]

Routes == DOMAIN RoutePermission

Idle == [pc |-> "idle"]

Request ==
    {Idle}
    \cup [pc : Routes \ {"add"}, caller : UserIds]
    \cup [pc : {"add"}, caller : UserIds, role : Roles]
    \cup [pc : {"inserting"}, doc : Chat]
    \cup [pc : {"inviting"}, caller : UserIds, role : Roles, chat : ChatIds]
    \cup [pc : {"adding"}, caller : UserIds, role : Roles, chat : ChatIds, ids : SUBSET UserIds]
    \cup [pc : {"sending", "listing"}, caller : UserIds, chat : ChatIds]

RoleOf(u) == IF u \in admins THEN "admin" ELSE "user"

Set(r, state) == req' = [req EXCEPT ![r] = state]

-----------------------------------------------------------------------------
(* The users, who come and go meanwhile *)

Users == INSTANCE Directory

UserStep ==
    /\ Users!Next
    /\ Cardinality(admins') <= MaxAdmins
    /\ Cardinality(issued' \ alive') <= MaxDeleted
    /\ UNCHANGED <<chats, closed, messages, req>>

-----------------------------------------------------------------------------
(* Auth and RequirePermission: one read of the caller's document, which    *)
(* the handler takes from the context.  Only AddParticipants looks at the  *)
(* role again.                                                             *)
Context(u, route) ==
    IF route = "add" THEN [pc |-> route, caller |-> u, role |-> RoleOf(u)]
    ELSE [pc |-> route, caller |-> u]

Enter(r, u, route) ==
    /\ req[r] = Idle
    /\ u \in alive
    /\ Has(RoleOf(u), RoutePermission[route])
    /\ Set(r, Context(u, route))
    /\ UNCHANGED <<userVars, chats, closed, messages>>

(* Any handler may answer with an error and be done: bad input, not found, *)
(* a failed call to the database.                                          *)
Refuse(r) ==
    /\ req[r] # Idle
    /\ Set(r, Idle)
    /\ UNCHANGED <<userVars, chats, closed, messages>>

-----------------------------------------------------------------------------
(* Creating a chat *)

(* CountExisting found as many users as were named: every one of them. *)
MutantAllExist(ids) == ids \cap alive # {}

AllExist(ids) == ids \subseteq alive

(* parseParticipants drops duplicates and puts the creator first. *)
ParseParticipants(invited, creator) == invited \cup {creator}

MutantLargeEnough(type, invited, creator) == type = "group" => invited # {}

LargeEnough(type, invited, creator) ==
    type = "group" => Cardinality(ParseParticipants(invited, creator)) >= 2

CheckParticipants(r, type, invited) ==
    /\ req[r].pc = "create"
    /\ LargeEnough(type, invited, req[r].caller)
    /\ AllExist(ParseParticipants(invited, req[r].caller))
    /\ Set(r, [pc |-> "inserting",
               doc |-> [type |-> type,
                        participants |-> ParseParticipants(invited, req[r].caller),
                        createdBy |-> req[r].caller]])
    /\ UNCHANGED <<userVars, chats, closed, messages>>

InsertChat(r, c) ==
    /\ req[r].pc = "inserting"
    /\ c \notin DOMAIN chats \cup DOMAIN closed
    /\ chats' = [d \in DOMAIN chats \cup {c} |-> IF d = c THEN req[r].doc ELSE chats[d]]
    /\ Set(r, Idle)
    /\ UNCHANGED <<userVars, closed, messages>>

-----------------------------------------------------------------------------
(* Adding participants *)

(* Only the creator or a moderator; being a participant is not enough. *)
MutantMayInvite(chat, u, role) == u \in chat.participants \/ Has(role, "chats:moderate")

MayInvite(chat, u, role) == chat.createdBy = u \/ Has(role, "chats:moderate")

LoadForAdd(r, c) ==
    /\ req[r].pc = "add"
    /\ c \in DOMAIN chats
    /\ MayInvite(chats[c], req[r].caller, req[r].role)
    /\ Set(r, [pc |-> "inviting", caller |-> req[r].caller, role |-> req[r].role, chat |-> c])
    /\ UNCHANGED <<userVars, chats, closed, messages>>

CheckInvited(r, ids) ==
    /\ req[r].pc = "inviting"
    /\ ids # {}
    /\ AllExist(ids)
    /\ Set(r, [pc |-> "adding", caller |-> req[r].caller, role |-> req[r].role,
               chat |-> req[r].chat, ids |-> ids])
    /\ UNCHANGED <<userVars, chats, closed, messages>>

(* What FindOneAndUpdate with $addToSet makes of the collection: nothing,  *)
(* when the chat is gone.                                                  *)
MutantReplaceRoster(c, ids) ==
    IF c \in DOMAIN chats THEN [chats EXCEPT ![c].participants = ids] ELSE chats

MutantUpsert(c, ids) ==
    [d \in DOMAIN chats \cup {c} |->
        IF d \notin DOMAIN chats THEN [closed[d] EXCEPT !.participants = ids]
        ELSE IF d = c THEN [chats[d] EXCEPT !.participants = @ \cup ids]
        ELSE chats[d]]

AddToRoster(c, ids) ==
    IF c \in DOMAIN chats THEN [chats EXCEPT ![c].participants = @ \cup ids] ELSE chats

AddParticipants(r) ==
    /\ req[r].pc = "adding"
    /\ chats' = AddToRoster(req[r].chat, req[r].ids)
    /\ Set(r, Idle)
    /\ UNCHANGED <<userVars, closed, messages>>

-----------------------------------------------------------------------------
(* Deleting a chat: the document only, its messages stay. *)
DeleteChat(r, c) ==
    /\ req[r].pc = "delete"
    /\ c \in DOMAIN chats
    /\ chats' = [d \in DOMAIN chats \ {c} |-> chats[d]]
    /\ closed' = [d \in DOMAIN closed \cup {c} |-> IF d = c THEN chats[c] ELSE closed[d]]
    /\ Set(r, Idle)
    /\ UNCHANGED <<userVars, messages>>

-----------------------------------------------------------------------------
(* Sending and listing messages *)

MutantMayAccess(chat, u) == TRUE

MayAccess(chat, u) == chat.type = "group" => u \in chat.participants

(* chatForRequest, shared by the two routes. *)
ChatForRequest(r, c, next) ==
    /\ c \in DOMAIN chats
    /\ MayAccess(chats[c], req[r].caller)
    /\ Set(r, [pc |-> next, caller |-> req[r].caller, chat |-> c])
    /\ UNCHANGED <<userVars, chats, closed, messages>>

LoadForSend(r, c) == req[r].pc = "send" /\ ChatForRequest(r, c, "sending")

LoadForList(r, c) == req[r].pc = "list" /\ ChatForRequest(r, c, "listing")

(* The chat may have been deleted since: the message is stored all the same. *)
CreateMessage(r) ==
    /\ req[r].pc = "sending"
    /\ messages' = messages \cup {[chat |-> req[r].chat, author |-> req[r].caller]}
    /\ Cardinality(messages') <= MaxMessages
    /\ Set(r, Idle)
    /\ UNCHANGED <<userVars, chats, closed>>

MessagesByChat(r) ==
    /\ req[r].pc = "listing"
    /\ Set(r, Idle)
    /\ UNCHANGED <<userVars, chats, closed, messages>>

-----------------------------------------------------------------------------

NoDocuments == [c \in {} |-> c]

Init ==
    /\ Users!Init
    /\ chats = NoDocuments /\ closed = NoDocuments
    /\ messages = {}
    /\ req = [r \in Requests |-> Idle]

Handle(r) ==
    \/ \E u \in UserIds, route \in Routes : Enter(r, u, route)
    \/ \E ids \in SUBSET UserIds :
          CheckInvited(r, ids)
          \/ \E type \in {"public", "group"} : CheckParticipants(r, type, ids)
    \/ \E c \in ChatIds :
          InsertChat(r, c) \/ LoadForAdd(r, c) \/ DeleteChat(r, c)
          \/ LoadForSend(r, c) \/ LoadForList(r, c)
    \/ AddParticipants(r) \/ CreateMessage(r) \/ MessagesByChat(r) \/ Refuse(r)

Next == UserStep \/ \E r \in Requests : Handle(r)

Spec == Init /\ [][Next]_vars

-----------------------------------------------------------------------------
(* Properties *)

TypeOK ==
    /\ alive \subseteq issued /\ issued \subseteq UserIds /\ admins \subseteq issued
    /\ DOMAIN chats \cup DOMAIN closed \subseteq ChatIds
    /\ DOMAIN chats \cap DOMAIN closed = {}
    /\ chats \in [DOMAIN chats -> Chat] /\ closed \in [DOMAIN closed -> Chat]
    /\ messages \subseteq Message
    /\ req \in [Requests -> Request]

(* A chat as it is, or as it was when it was deleted. *)
EverChats == DOMAIN chats \cup DOMAIN closed

LastDoc(c) == IF c \in DOMAIN chats THEN chats[c] ELSE closed[c]

(* The creator is a participant of the chat and a group has company, for   *)
(* whatever list of ids the client sent, the creator's own or none, and    *)
(* however the roster was changed since (Handler.Create,                   *)
(* parseParticipants); and every participant has, or had, an account: no   *)
(* roster names an id that was only registered, or guessed, later          *)
(* (Storage.CountExisting and its two callers).                            *)
RostersSound ==
    \A c \in EverChats :
        /\ LastDoc(c).createdBy \in LastDoc(c).participants
        /\ LastDoc(c).type = "group" =>
              \E u \in LastDoc(c).participants : u # LastDoc(c).createdBy
        /\ LastDoc(c).participants \subseteq issued

(* The chat is or was there, and open to the user. *)
Insider(c, u) ==
    c \in EverChats /\ (LastDoc(c).type = "group" => u \in LastDoc(c).participants)

(* Only participants of a group write in it or read from it, although      *)
(* chatForRequest looked at the roster before the write or read happens    *)
(* and the roster or the whole chat may be changed in between.             *)
GroupsArePrivate ==
    /\ \A m \in messages : Insider(m.chat, m.author)
    /\ \A r \in Requests : req[r].pc \in {"sending", "listing"} =>
          Insider(req[r].chat, req[r].caller)

(* Concurrent calls never lose each other's additions, nothing else of a   *)
(* chat ever changes, and a deleted chat stays deleted and as it was,      *)
(* although requests that loaded it before are still to write              *)
(* (Storage.AddParticipants, Delete).                                      *)
ChatsOnlyAdvance ==
    [][/\ \A c \in EverChats :
             /\ c \in EverChats'
             /\ LastDoc(c).participants \subseteq LastDoc(c)'.participants
             /\ LastDoc(c)'.type = LastDoc(c).type
             /\ LastDoc(c)'.createdBy = LastDoc(c).createdBy
       /\ \A c \in DOMAIN closed :
             c \notin DOMAIN chats' /\ LastDoc(c)' = LastDoc(c)]_vars

(* A roster grows on behalf of the chat's creator or of a caller who was   *)
(* an administrator when let in, never of a mere participant               *)
(* (Handler.AddParticipants).                                              *)
OnlyOwnersInvite ==
    [][\A c \in DOMAIN chats \cap DOMAIN chats' :
          chats'[c].participants # chats[c].participants =>
              \E r \in Requests :
                  /\ req[r].pc = "adding" /\ req[r].chat = c
                  /\ req[r].caller = chats[c].createdBy \/ req[r].role = "admin"]_vars

-----------------------------------------------------------------------------
(* The handlers implement operations that are decided and done at once *)

Rooms == INSTANCE ChatRooms WITH
    People  <- UserIds,
    RoomIds <- ChatIds,
    known   <- issued,
    rooms   <- chats,
    shut    <- closed,
    posts   <- messages

(* Nobody can tell that the handlers check first and write later: every    *)
(* write is an operation of ChatRooms that was in order when it happened,  *)
(* and every other step is invisible, however requests, users and          *)
(* administrators interleave (Handler.Create, AddParticipants, Delete,     *)
(* SendMessage).                                                           *)
ImplementsChatRooms == Rooms!Spec

=============================================================================
