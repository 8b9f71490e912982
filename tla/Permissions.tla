---------------------------- MODULE Permissions ----------------------------
(***************************************************************************)
(* The role/permission table of internal/permissions.  Every HTTP route    *)
(* behind the Auth middleware names the one permission it requires         *)
(* (main.go, setupRouter).                                                 *)
(***************************************************************************)

Roles == {"admin", "user"}

(* What both roles may do, and what is left to administrators. *)
UserPermissions ==
    {"chats:create", "chats:read", "chats:update",
     "messages:create", "messages:read", "users:directory"}

AdminPermissions ==
    UserPermissions \cup
    {"chats:moderate", "chats:delete", "users:read", "users:update", "users:delete"}

RolePermissions == [admin |-> AdminPermissions, user |-> UserPermissions]

(* permissions.Has: the role a document without a role field counts as is  *)
(* "user"; findUser applies that default on every read, so the roles here  *)
(* are the ones the program works with.                                    *)
Has(role, permission) == permission \in RolePermissions[role]

============================================================================
