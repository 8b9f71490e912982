------------------------------ MODULE ChatRooms ------------------------------
(***************************************************************************)
(* What the chat service promises, stated as if every request were         *)
(* answered in one step that sees the rooms and the people as they are at  *)
(* that moment: a room is opened by one of its members for people who are  *)
(* known, its roster only ever grows, by known people, closing it is for   *)
(* good, and what is posted in it is posted by somebody it is open to.     *)
(*                                                                         *)
(* One thing is promised less than a user might expect: a post may still   *)
(* arrive in a room that has been closed.                                  *)
(*                                                                         *)
(* The handlers of gocha read, decide and write in separate calls to the   *)
(* database.  Module Chats is that mechanism, and implements this          *)
(* specification.                                                          *)
(***************************************************************************)

CONSTANTS
    People,         \* everybody who may ever register
    RoomIds         \* every room there may ever be

VARIABLES
    known,          \* people who have ever registered
    rooms,          \* the open rooms: id -> room
    shut,           \* the closed ones, as they were last
    posts           \* who has posted where

vars == <<known, rooms, shut, posts>>

Room == [type : {"public", "group"}, participants : SUBSET People, createdBy : People]

(* The creator is in the room, and a group is no group of one. *)
WellFormed(room) ==
    /\ room.createdBy \in room.participants
    /\ room.type = "group" => \E p \in room.participants : p # room.createdBy

OpenTo(room, p) == room.type = "group" => p \in room.participants

-----------------------------------------------------------------------------

Init ==
    /\ known = {}
    /\ rooms = [c \in {} |-> c]
    /\ shut = [c \in {} |-> c]
    /\ posts = {}

Meet(p) ==
    /\ p \notin known
    /\ known' = known \cup {p}
    /\ UNCHANGED <<rooms, shut, posts>>

Open(c) ==
    /\ c \notin DOMAIN rooms \cup DOMAIN shut
    /\ \E room \in Room :
          /\ WellFormed(room)
          /\ room.participants \subseteq known
          /\ rooms' = [d \in DOMAIN rooms \cup {c} |-> IF d = c THEN room ELSE rooms[d]]
    /\ UNCHANGED <<known, shut, posts>>

Invite(c, guests) ==
    /\ c \in DOMAIN rooms
    /\ guests \subseteq known
    /\ rooms' = [rooms EXCEPT ![c].participants = @ \cup guests]
    /\ UNCHANGED <<known, shut, posts>>

Close(c) ==
    /\ c \in DOMAIN rooms
    /\ rooms' = [d \in DOMAIN rooms \ {c} |-> rooms[d]]
    /\ shut' = [d \in DOMAIN shut \cup {c} |-> IF d = c THEN rooms[c] ELSE shut[d]]
    /\ UNCHANGED <<known, posts>>

Post(c, p) ==
    /\ \/ c \in DOMAIN rooms /\ OpenTo(rooms[c], p)
       \/ c \in DOMAIN shut /\ OpenTo(shut[c], p)
    /\ posts' = posts \cup {[chat |-> c, author |-> p]}
    /\ UNCHANGED <<known, rooms, shut>>

Next ==
    \/ \E p \in People : Meet(p)
    \/ \E c \in RoomIds :
          \/ Open(c) \/ Close(c)
          \/ \E guests \in SUBSET People : Invite(c, guests)
          \/ \E p \in People : Post(c, p)

Spec == Init /\ [][Next]_vars

=============================================================================
