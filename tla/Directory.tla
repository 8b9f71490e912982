------------------------------ MODULE Directory ------------------------------
(***************************************************************************)
(* What the chats rely on in the users collection: who has ever had an     *)
(* account, whose account exists and is not soft-deleted, and who is an    *)
(* administrator.  An id is never given out twice, roles change only while *)
(* the account is alive, and a soft deletion keeps the role.               *)
(*                                                                         *)
(* Module Accounts is the collection and implements this; module Chats     *)
(* takes it for its environment.  Nothing in the chats depends on a purge  *)
(* being final, so a purged id may come back here, as a plain user.        *)
(***************************************************************************)

CONSTANT UserIds

VARIABLES
    issued,         \* users that have ever registered
    alive,          \* those that exist and are not soft-deleted
    admins          \* those whose role is "admin", soft-deleted or not

vars == <<issued, alive, admins>>

Init == issued = {} /\ alive = {} /\ admins = {}

Register(u) ==
    /\ u \notin issued
    /\ issued' = issued \cup {u}
    /\ alive' = alive \cup {u}
    /\ admins' \in {admins, admins \cup {u}}

SoftDelete(u) ==
    /\ u \in alive
    /\ alive' = alive \ {u}
    /\ UNCHANGED <<issued, admins>>

Restore(u) ==
    /\ u \in issued \ alive
    /\ alive' = alive \cup {u}
    /\ UNCHANGED <<issued, admins>>

ChangeRole(u) ==
    /\ u \in alive
    /\ admins' = IF u \in admins THEN admins \ {u} ELSE admins \cup {u}
    /\ UNCHANGED <<issued, alive>>

Purge(u) ==
    /\ u \in issued
    /\ alive' = alive \ {u}
    /\ admins' = admins \ {u}
    /\ UNCHANGED issued

Next ==
    \E u \in UserIds :
        Register(u) \/ SoftDelete(u) \/ Restore(u) \/ ChangeRole(u) \/ Purge(u)

Spec == Init /\ [][Next]_vars

=============================================================================
