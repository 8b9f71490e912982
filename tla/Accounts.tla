------------------------------ MODULE Accounts ------------------------------
(***************************************************************************)
(* The users collection and everything that decides whether a bearer of an *)
(* access token is let in: registration, login, token issue, the Auth and  *)
(* RequirePermission middleware, the administrators' update, soft delete   *)
(* and restore, and gochactrl's commands on the same storage               *)
(* (internal/users, the user routes of main.go, cmd/gochactrl).            *)
(*                                                                         *)
(* Requests run concurrently.  MongoDB makes each single-document write    *)
(* atomic, and nothing else: a handler is cut into one action per database *)
(* call, and what it read earlier is carried in its request record.        *)
(*                                                                         *)
(* Passwords stand for their bcrypt hashes.  Display names, timestamps and *)
(* input validation are left out; chat mirroring is module Provisioning.   *)
(***************************************************************************)
EXTENDS Naturals, FiniteSets, Permissions

CONSTANTS
    UserIds,        \* document ids; MongoDB never generates one twice
    Emails,
    Passwords,
    Requests,       \* HTTP requests and gochactrl invocations in flight at once
    Operator,       \* whoever runs gochactrl: acts without a token
    MaxVersion,     \* bound: password changes of one account
    MaxTokens       \* bound: unexpired tokens in circulation

ASSUME OperatorAssumption == Operator \notin UserIds
ASSUME BoundsAssumption == MaxVersion \in Nat /\ MaxTokens \in Nat

VARIABLES
    users,          \* the users collection: id -> document
    issuedIds,      \* ids handed out so far, those of purged documents included
    tokens,         \* signed access tokens that have not expired
    req             \* what each request has read so far and does next

vars == <<users, issuedIds, tokens, req>>

-----------------------------------------------------------------------------
(* Documents, tokens and request records *)

Versions == 0..MaxVersion

UserDoc == [email : Emails, pwd : Passwords, role : Roles, ver : Versions, deleted : BOOLEAN]

(* The claims of a token.  pwd is no claim: it records, for the properties *)
(* only, the password that was proved to obtain the token.                 *)
Token == [sub : UserIds, ver : Versions, role : Roles, pwd : Passwords]

(* Routes and commands that go on to act on an account named by its id. *)
AdminRoutes == {"update", "restore", "delete"}
Commands == {"restore", "delete", "purge"}

RoutePermission == [update |-> "users:update", restore |-> "users:update",
                    delete |-> "users:delete"]

Idle == [pc |-> "idle"]

Request ==
    {Idle}
    \cup [pc : {"issuing"}, claims : Token]
    \cup [pc : AdminRoutes, caller : UserIds \cup {Operator}]
    \cup [pc : {"purge"}, caller : {Operator}]
    \cup [pc : {"lookup"}, target : UserIds, wasAlive : BOOLEAN]
    \cup [pc : {"answered"}, target : UserIds, wasAlive : BOOLEAN,
          lookup : {"done", "failed"}, answer : {"not deleted", "not found"}]

Exists(id) == id \in DOMAIN users

MutantAlive(id) == Exists(id)

Alive(id) == Exists(id) /\ ~users[id].deleted

(* The unique index on email covers soft-deleted documents too. *)
MutantEmailTaken(e, except) ==
    \E id \in DOMAIN users \ {except} : users[id].email = e /\ ~users[id].deleted

EmailTaken(e, except) == \E id \in DOMAIN users \ {except} : users[id].email = e

Set(r, state) == req' = [req EXCEPT ![r] = state]

-----------------------------------------------------------------------------
(* Registration and login, up to the signed token *)

MutantNewDoc(e, p, role) ==
    [email |-> e, pwd |-> p, role |-> "", ver |-> 0, deleted |-> FALSE]

NewDoc(e, p, role) ==
    [email |-> e, pwd |-> p, role |-> role, ver |-> 0, deleted |-> FALSE]

ClaimsOf(id, doc) == [sub |-> id, ver |-> doc.ver, role |-> doc.role, pwd |-> doc.pwd]

CreateUser(id, doc) ==
    /\ id \notin issuedIds
    /\ ~EmailTaken(doc.email, id)
    /\ issuedIds' = issuedIds \cup {id}
    /\ users' = [i \in DOMAIN users \cup {id} |-> IF i = id THEN doc ELSE users[i]]

(* POST /register: always a plain user, and a token of the user just made. *)
Register(r, id, e, p) ==
    /\ req[r] = Idle
    /\ CreateUser(id, NewDoc(e, p, "user"))
    /\ Set(r, [pc |-> "issuing", claims |-> ClaimsOf(id, NewDoc(e, p, "user"))])
    /\ UNCHANGED tokens

(* gochactrl register: any role, no token. *)
RegisterCommand(id, e, p, role) ==
    /\ CreateUser(id, NewDoc(e, p, role))
    /\ UNCHANGED <<tokens, req>>

(* POST /login and gochactrl login: UserByEmail finds an alive user and the *)
(* password matches the hash in the document read.                          *)
Login(r, e, p) ==
    /\ req[r] = Idle
    /\ \E id \in DOMAIN users :
          /\ Alive(id)
          /\ users[id].email = e
          /\ users[id].pwd = p
          /\ Set(r, [pc |-> "issuing", claims |-> ClaimsOf(id, users[id])])
    /\ UNCHANGED <<users, issuedIds, tokens>>

(* IssueToken signs the user that was read earlier, whatever happened to   *)
(* the document since.                                                     *)
IssueToken(r) ==
    /\ req[r].pc = "issuing"
    /\ Cardinality(tokens \cup {req[r].claims}) <= MaxTokens
    /\ tokens' = tokens \cup {req[r].claims}
    /\ Set(r, Idle)
    /\ UNCHANGED <<users, issuedIds>>

Expire(t) ==
    /\ t \in tokens
    /\ tokens' = tokens \ {t}
    /\ UNCHANGED <<users, issuedIds, req>>

-----------------------------------------------------------------------------
(* Authentication, and entry to a route or a command *)

(* Handler.authenticate: the user is loaded from storage and the version   *)
(* of the token must be the user's own.                                    *)
Accepts(t) == Alive(t.sub) /\ t.ver = users[t.sub].ver

(* RequirePermission asks for the role storage has, not the token's. *)
MutantGrants(t, permission) == Has(t.role, permission)

Grants(t, permission) == Has(users[t.sub].role, permission)

(* Auth and RequirePermission pass on the user of one read. *)
Enter(r, t, route) ==
    /\ req[r] = Idle
    /\ Accepts(t)
    /\ Grants(t, RoutePermission[route])
    /\ Set(r, [pc |-> route, caller |-> t.sub])
    /\ UNCHANGED <<users, issuedIds, tokens>>

EnterCommand(r, command) ==
    /\ req[r] = Idle
    /\ Set(r, [pc |-> command, caller |-> Operator])
    /\ UNCHANGED <<users, issuedIds, tokens>>

-----------------------------------------------------------------------------
(* Update, soft delete, restore, purge *)

Fields == {"email", "password", "role"}

(* A new password moves the token version in the same write. *)
MutantNextVersion(doc, changed) == doc.ver

NextVersion(doc, changed) == IF "password" \in changed THEN doc.ver + 1 ELSE doc.ver

Updated(doc, changed, e, p, role) ==
    [doc EXCEPT !.email = IF "email" \in changed THEN e ELSE @,
                !.pwd   = IF "password" \in changed THEN p ELSE @,
                !.role  = IF "role" \in changed THEN role ELSE @,
                !.ver   = NextVersion(doc, changed)]

(* PATCH /users/{id}: one FindOneAndUpdate on an alive document.  Not found *)
(* or email taken leave the collection alone.                               *)
UpdateUser(r, id, changed, e, p, role) ==
    /\ req[r].pc = "update"
    /\ IF Alive(id) /\ ~("email" \in changed /\ EmailTaken(e, id))
       THEN /\ NextVersion(users[id], changed) <= MaxVersion
            /\ users' = [users EXCEPT ![id] = Updated(users[id], changed, e, p, role)]
       ELSE users' = users
    /\ Set(r, Idle)
    /\ UNCHANGED <<issuedIds, tokens>>

(* DELETE /users/{id} and gochactrl delete. *)
SoftDeleteUser(r, id) ==
    /\ req[r].pc = "delete"
    /\ users' = IF Alive(id) THEN [users EXCEPT ![id].deleted = TRUE] ELSE users
    /\ Set(r, Idle)
    /\ UNCHANGED <<issuedIds, tokens>>

MutantRestored(doc) == [doc EXCEPT !.deleted = FALSE, !.ver = 0]

Restored(doc) == [doc EXCEPT !.deleted = FALSE]

(* POST /users/{id}/restore and gochactrl restore: an update that matches  *)
(* soft-deleted documents only.                                            *)
RestoreUser(r, id) ==
    /\ req[r].pc = "restore"
    /\ IF Exists(id) /\ users[id].deleted
       THEN /\ users' = [users EXCEPT ![id] = Restored(users[id])]
            /\ Set(r, Idle)
       ELSE /\ users' = users
            /\ Set(r, [pc |-> "lookup", target |-> id, wasAlive |-> Alive(id)])
    /\ UNCHANGED <<issuedIds, tokens>>

MutantFoundByLookup(id) == Alive(id)

FoundByLookup(id) == Exists(id)

(* It matched nothing: a second read tells "no such user" from "alive",    *)
(* and any error of that read, a timeout included, counts as no such user. *)
RestoreLookup(r) ==
    /\ req[r].pc = "lookup"
    /\ \E lookup \in {"done", "failed"} :
          Set(r, [pc |-> "answered", target |-> req[r].target, wasAlive |-> req[r].wasAlive,
                  lookup |-> lookup,
                  answer |-> IF lookup = "done" /\ FoundByLookup(req[r].target)
                             THEN "not deleted" ELSE "not found"])
    /\ UNCHANGED <<users, issuedIds, tokens>>

Return(r) ==
    /\ req[r].pc = "answered"
    /\ Set(r, Idle)
    /\ UNCHANGED <<users, issuedIds, tokens>>

(* gochactrl delete --hard, and delete-all for each account it removes. *)
PurgeUser(r, id) ==
    /\ req[r].pc = "purge"
    /\ users' = [i \in DOMAIN users \ {id} |-> users[i]]
    /\ Set(r, Idle)
    /\ UNCHANGED <<issuedIds, tokens>>

-----------------------------------------------------------------------------

Init ==
    /\ users = [i \in {} |-> i]
    /\ issuedIds = {}
    /\ tokens = {}
    /\ req = [r \in Requests |-> Idle]

SignUpOrIn(r) ==
    \E e \in Emails, p \in Passwords :
        Login(r, e, p) \/ \E id \in UserIds : Register(r, id, e, p)

EnterRoute(r) ==
    \/ \E t \in tokens, route \in AdminRoutes : Enter(r, t, route)
    \/ \E command \in Commands : EnterCommand(r, command)

Act(r) ==
    \E id \in issuedIds :
        \/ \E changed \in (SUBSET Fields) \ {{}}, e \in Emails, p \in Passwords, role \in Roles :
              UpdateUser(r, id, changed, e, p, role)
        \/ SoftDeleteUser(r, id) \/ RestoreUser(r, id) \/ PurgeUser(r, id)

Next ==
    \/ \E r \in Requests :
          SignUpOrIn(r) \/ IssueToken(r) \/ EnterRoute(r) \/ Act(r)
          \/ RestoreLookup(r) \/ Return(r)
    \/ \E id \in UserIds, e \in Emails, p \in Passwords, role \in Roles :
          RegisterCommand(id, e, p, role)
    \/ \E t \in tokens : Expire(t)

Spec == Init /\ [][Next]_vars

-----------------------------------------------------------------------------
(* Properties *)

TypeOK ==
    /\ issuedIds \subseteq UserIds
    /\ DOMAIN users \subseteq issuedIds
    /\ users \in [DOMAIN users -> UserDoc]
    /\ tokens \subseteq Token
    /\ req \in [Requests -> Request]

(* A token that would be accepted was obtained by proving the password the *)
(* account has now: neither a login in flight while the password changes   *)
(* nor a soft delete and restore in between gets an older one in           *)
(* (Handler.authenticate, Storage.UpdateUser).                             *)
TokenProvesPassword ==
    \A t \in tokens : Accepts(t) => t.pwd = users[t.sub].pwd

(* No two documents share an email, soft-deleted ones included, so a       *)
(* restore never brings back a second owner of an address                  *)
(* (NewStorage's unique index, Storage.RestoreUser).                       *)
EmailUnique ==
    \A i, j \in DOMAIN users : users[i].email = users[j].email => i = j

(* What a restore that matched nothing answers was true at some moment of  *)
(* the call: "not deleted" only of a user that was alive, "not found" only *)
(* of one that is gone unless the second read failed, however deletes      *)
(* interleave with its two reads (Storage.RestoreUser).                    *)
RestoreAnswersTrue ==
    \A r \in Requests : req[r].pc = "answered" =>
        /\ req[r].answer = "not deleted" => req[r].wasAlive
        /\ req[r].answer = "not found" /\ req[r].lookup = "done" => ~Exists(req[r].target)

(* A token refused for its version or because its user is gone.  A soft    *)
(* deletion is no revocation: restoring the user undoes it by design.      *)
Revoked(t) == ~Exists(t.sub) \/ t.ver # users[t.sub].ver

(* Revocation is for good: no update, restore or registration makes a      *)
(* revoked token work again (Storage.UpdateUser, RestoreUser, DeleteUser). *)
RevocationPermanent ==
    [][\A t \in tokens : Revoked(t) => Revoked(t)']_vars

(* Whoever gets past the middleware onto an administrator's route is, at   *)
(* that moment, an alive administrator in storage: a token minted before a *)
(* demotion or a deletion opens nothing (TokenClaims, RequirePermission).  *)
NoStalePrivilege ==
    [][\A r \in Requests :
         req[r] = Idle /\ req'[r].pc \in AdminRoutes /\ req'[r].caller # Operator =>
            /\ Alive(req'[r].caller)
            /\ users[req'[r].caller].role = "admin"]_vars

-----------------------------------------------------------------------------
(* The tokens implement a table of sessions *)

SessionOf(t) == [sub |-> t.sub, pwd |-> t.pwd, claims |-> [ver |-> t.ver, role |-> t.role]]

CurrentPasswords == [id \in DOMAIN users |-> users[id].pwd]

LockedOut == {id \in DOMAIN users : users[id].deleted}

LiveSessions == {SessionOf(t) : t \in {u \in tokens : ~Revoked(u)}}

Sessions == INSTANCE SessionTable WITH
    AccountIds <- UserIds,
    Secrets    <- Passwords,
    Claims     <- [ver : Versions, role : Roles],
    password   <- CurrentPasswords,
    suspended  <- LockedOut,
    sessions   <- LiveSessions

(* The stateless tokens with their version numbers behave as a server-side *)
(* session table: a step of a handler is a step of SessionTable or none.   *)
ImplementsSessionTable == Sessions!Spec

-----------------------------------------------------------------------------
(* To the chats the collection is a directory *)

AliveIds == DOMAIN users \ LockedOut

Administrators == {id \in DOMAIN users : users[id].role = "admin"}

People == INSTANCE Directory WITH
    issued <- issuedIds,
    alive  <- AliveIds,
    admins <- Administrators

(* What module Chats takes for granted of the users is what the collection *)
(* does: an id is given out once, only the role of an alive account        *)
(* changes, a soft deletion and a restore keep it, and no two of these     *)
(* happen in one write (Storage.CreateUser, UpdateUser, SoftDeleteUser,    *)
(* RestoreUser, DeleteUser).                                               *)
ImplementsDirectory == People!Spec

=============================================================================
