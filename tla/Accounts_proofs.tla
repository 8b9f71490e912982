--------------------------- MODULE Accounts_proofs ---------------------------
(***************************************************************************)
(* Proofs about Accounts for every set of users, emails, passwords and     *)
(* requests and every bound.                                               *)
(*                                                                         *)
(* TokenProvesPassword is not inductive: it says nothing of the claims a   *)
(* login has read but not signed yet, nor of a token whose version is      *)
(* behind but might be caught up with.  ClaimsSound closes both gaps: the  *)
(* version of a token never runs ahead of its account, and an equal        *)
(* version means an equal password.  RestoreAnswersTrue needs the          *)
(* corresponding fact about a restore between its two reads.               *)
(***************************************************************************)
EXTENDS Accounts, FiniteSetTheorems, TLAPS

(* Claims, signed or about to be, of an account that was handed out. *)
ClaimSound(c, ids, docs) ==
    /\ c.sub \in ids
    /\ c.sub \in DOMAIN docs =>
          /\ c.ver <= docs[c.sub].ver
          /\ c.ver = docs[c.sub].ver => c.pwd = docs[c.sub].pwd

ClaimsSound ==
    /\ \A t \in tokens : ClaimSound(t, issuedIds, users)
    /\ \A r \in Requests : req[r].pc = "issuing" => ClaimSound(req[r].claims, issuedIds, users)

(* A restore that matched nothing: its target was alive, or is gone. *)
LookupsSound ==
    \A r \in Requests : req[r].pc \in {"lookup", "answered"} =>
        /\ req[r].target \in issuedIds
        /\ ~req[r].wasAlive => req[r].target \notin DOMAIN users

IInv == TypeOK /\ ClaimsSound /\ LookupsSound

-----------------------------------------------------------------------------
(* Request records *)

LEMMA RequestForms ==
    ASSUME NEW q \in Request
    PROVE  /\ q.pc \in {"idle", "issuing", "update", "restore", "delete", "purge",
                        "lookup", "answered"}
           /\ q.pc = "issuing" => q.claims \in Token
           /\ q.pc = "lookup" => q.target \in UserIds /\ q.wasAlive \in BOOLEAN
<1>1. CASE q = Idle
  BY <1>1 DEF Idle
<1>2. CASE q \in [pc : {"issuing"}, claims : Token]
  BY <1>2
<1>3. CASE q \in [pc : AdminRoutes, caller : UserIds \cup {Operator}]
  BY <1>3 DEF AdminRoutes
<1>4. CASE q \in [pc : {"purge"}, caller : {Operator}]
  BY <1>4
<1>5. CASE q \in [pc : {"lookup"}, target : UserIds, wasAlive : BOOLEAN]
  BY <1>5
<1>6. CASE q \in [pc : {"answered"}, target : UserIds, wasAlive : BOOLEAN,
                  lookup : {"done", "failed"}, answer : {"not deleted", "not found"}]
  BY <1>6
<1> QED
  BY <1>1, <1>2, <1>3, <1>4, <1>5, <1>6 DEF Request

LEMMA LookupReplies ==
    ASSUME TypeOK, NEW r \in Requests, RestoreLookup(r)
    PROVE  /\ req[r].pc = "lookup" /\ UNCHANGED <<users, issuedIds, tokens>>
           /\ \A q \in Requests : q # r => req'[q] = req[q]
           /\ req'[r].pc = "answered"
           /\ req'[r].target = req[r].target /\ req'[r].wasAlive = req[r].wasAlive
           /\ req'[r].answer = "not deleted" => Exists(req[r].target)
           /\ req'[r].answer = "not found" /\ req'[r].lookup = "done" => ~Exists(req[r].target)
<1> DEFINE found == FoundByLookup(req[r].target)
           target == req[r].target
           alive == req[r].wasAlive
<1>1. PICK lookup \in {"done", "failed"} :
         Set(r, [pc |-> "answered", target |-> target, wasAlive |-> alive, lookup |-> lookup,
                 answer |-> IF lookup = "done" /\ found THEN "not deleted" ELSE "not found"])
  BY DEF RestoreLookup
<1> DEFINE answer == IF lookup = "done" /\ found THEN "not deleted" ELSE "not found"
           reply == [pc |-> "answered", target |-> target, wasAlive |-> alive,
                     lookup |-> lookup, answer |-> answer]
<1>2. req' = [req EXCEPT ![r] = reply]
  BY <1>1 DEF Set
<1>3. found <=> Exists(target)
  BY DEF FoundByLookup
<1>4. answer = "not deleted" => found
  OBVIOUS
<1>5. answer = "not found" /\ lookup = "done" => ~found
  OBVIOUS
<1> HIDE DEF found, target, alive, answer
<1>6. reply.pc = "answered" /\ reply.target = target /\ reply.wasAlive = alive
  OBVIOUS
<1>7. reply.lookup = lookup /\ reply.answer = answer
  OBVIOUS
<1> HIDE DEF reply
<1>8. req'[r] = reply /\ \A q \in Requests : q # r => req'[q] = req[q]
  BY <1>2 DEF TypeOK
<1>9. req'[r].answer = "not deleted" => Exists(target)
  BY <1>3, <1>4, <1>7, <1>8
<1>10. req'[r].answer = "not found" /\ req'[r].lookup = "done" => ~Exists(target)
  BY <1>3, <1>5, <1>7, <1>8
<1>11. req[r].pc = "lookup" /\ UNCHANGED <<users, issuedIds, tokens>>
  BY DEF RestoreLookup
<1> QED
  BY <1>6, <1>8, <1>9, <1>10, <1>11 DEF target, alive

LEMMA VersionsAreNat == Versions \subseteq Nat
  BY BoundsAssumption DEF Versions

-----------------------------------------------------------------------------
(* Type correctness *)

(* A document with some fields replaced is still a document. *)
LEMMA UpdatedIsDoc ==
    ASSUME NEW doc \in UserDoc, NEW changed, NEW e \in Emails, NEW p \in Passwords,
           NEW role \in Roles, NextVersion(doc, changed) <= MaxVersion
    PROVE  Updated(doc, changed, e, p, role) \in UserDoc
<1>1. NextVersion(doc, changed) \in Versions
  BY BoundsAssumption DEF NextVersion, Versions, UserDoc
<1> QED
  BY <1>1 DEF Updated, UserDoc

LEMMA NewDocIsDoc ==
    ASSUME NEW e \in Emails, NEW p \in Passwords, NEW role \in Roles
    PROVE  NewDoc(e, p, role) \in UserDoc
  BY BoundsAssumption DEF NewDoc, UserDoc, Versions

LEMMA ClaimsOfIsToken ==
    ASSUME NEW id \in UserIds, NEW doc \in UserDoc
    PROVE  ClaimsOf(id, doc) \in Token
  BY DEF ClaimsOf, Token, UserDoc

LEMMA CreateUserType ==
    ASSUME TypeOK, NEW id \in UserIds, NEW doc \in UserDoc, CreateUser(id, doc)
    PROVE  /\ issuedIds' \subseteq UserIds
           /\ DOMAIN users' \subseteq issuedIds'
           /\ users' \in [DOMAIN users' -> UserDoc]
  BY DEF TypeOK, CreateUser

LEMMA TypeInductive ==
    ASSUME TypeOK, [Next]_vars
    PROVE  TypeOK'
<1> USE DEF TypeOK
<1>1. ASSUME NEW r \in Requests, NEW e \in Emails, NEW p \in Passwords, NEW id \in UserIds,
             Register(r, id, e, p)
      PROVE  TypeOK'
  <2>1. NewDoc(e, p, "user") \in UserDoc
    BY NewDocIsDoc DEF Roles
  <2>2. [pc |-> "issuing", claims |-> ClaimsOf(id, NewDoc(e, p, "user"))] \in Request
    BY <2>1, ClaimsOfIsToken DEF Request
  <2> QED
    BY <1>1, <2>1, <2>2, CreateUserType DEF Register, Set
<1>2. ASSUME NEW e \in Emails, NEW p \in Passwords, NEW id \in UserIds, NEW role \in Roles,
             RegisterCommand(id, e, p, role)
      PROVE  TypeOK'
  BY <1>2, NewDocIsDoc, CreateUserType DEF RegisterCommand
<1>3. ASSUME NEW r \in Requests, NEW e \in Emails, NEW p \in Passwords, Login(r, e, p)
      PROVE  TypeOK'
  <2>1. PICK id \in DOMAIN users :
          Set(r, [pc |-> "issuing", claims |-> ClaimsOf(id, users[id])])
    BY <1>3 DEF Login
  <2>2. [pc |-> "issuing", claims |-> ClaimsOf(id, users[id])] \in Request
    BY <2>1, ClaimsOfIsToken DEF Request
  <2> QED
    BY <1>3, <2>1, <2>2 DEF Login, Set
<1>4. ASSUME NEW r \in Requests, IssueToken(r)
      PROVE  TypeOK'
  BY <1>4, RequestForms DEF IssueToken, Set, Request
<1>5. ASSUME NEW r \in Requests, NEW t \in tokens, NEW route \in AdminRoutes, Enter(r, t, route)
      PROVE  TypeOK'
  <2>1. [pc |-> route, caller |-> t.sub] \in Request
    BY DEF Request, Token
  <2> QED
    BY <1>5, <2>1 DEF Enter, Set
<1>6. ASSUME NEW r \in Requests, NEW command \in Commands, EnterCommand(r, command)
      PROVE  TypeOK'
  <2>1. [pc |-> command, caller |-> Operator] \in Request
    BY DEF Request, Commands, AdminRoutes
  <2> QED
    BY <1>6, <2>1 DEF EnterCommand, Set
<1>7. ASSUME NEW r \in Requests, NEW id \in issuedIds, NEW changed \in (SUBSET Fields) \ {{}},
             NEW e \in Emails, NEW p \in Passwords, NEW role \in Roles,
             UpdateUser(r, id, changed, e, p, role)
      PROVE  TypeOK'
  <2>1. req' \in [Requests -> Request]
    BY <1>7 DEF UpdateUser, Set, Request
  <2>2. CASE users' = users
    BY <1>7, <2>1, <2>2 DEF UpdateUser
  <2>3. CASE /\ Alive(id)
             /\ NextVersion(users[id], changed) <= MaxVersion
             /\ users' = [users EXCEPT ![id] = Updated(users[id], changed, e, p, role)]
    <3>1. Updated(users[id], changed, e, p, role) \in UserDoc
      BY <2>3, UpdatedIsDoc DEF Alive, Exists
    <3> QED
      BY <1>7, <2>1, <2>3, <3>1 DEF UpdateUser
  <2> QED
    BY <1>7, <2>2, <2>3 DEF UpdateUser
<1>8. ASSUME NEW r \in Requests, NEW id \in issuedIds, SoftDeleteUser(r, id)
      PROVE  TypeOK'
  <2>1. req' \in [Requests -> Request]
    BY <1>8 DEF SoftDeleteUser, Set, Request
  <2> QED
    BY <1>8, <2>1 DEF SoftDeleteUser, UserDoc, Alive, Exists
<1>9. ASSUME NEW r \in Requests, NEW id \in issuedIds, RestoreUser(r, id)
      PROVE  TypeOK'
  <2>1. [pc |-> "lookup", target |-> id, wasAlive |-> Alive(id)] \in Request
    BY DEF Request, Alive
  <2>2. req' \in [Requests -> Request]
    BY <1>9, <2>1 DEF RestoreUser, Set, Request
  <2> QED
    BY <1>9, <2>2 DEF RestoreUser, Restored, UserDoc, Exists
<1>10. ASSUME NEW r \in Requests, RestoreLookup(r)
       PROVE  TypeOK'
  <2>1. req[r].target \in UserIds /\ req[r].wasAlive \in BOOLEAN
    BY <1>10, RequestForms DEF RestoreLookup
  <2> DEFINE reply(lookup) ==
        [pc |-> "answered", target |-> req[r].target, wasAlive |-> req[r].wasAlive,
         lookup |-> lookup,
         answer |-> IF lookup = "done" /\ FoundByLookup(req[r].target)
                    THEN "not deleted" ELSE "not found"]
  <2>2. \A lookup \in {"done", "failed"} : reply(lookup) \in Request
    BY <2>1 DEF Request
  <2> QED
    BY <1>10, <2>2 DEF RestoreLookup, Set
<1>11. ASSUME NEW r \in Requests, Return(r)
       PROVE  TypeOK'
  BY <1>11 DEF Return, Set, Request
<1>12. ASSUME NEW r \in Requests, NEW id \in issuedIds, PurgeUser(r, id)
       PROVE  TypeOK'
  BY <1>12 DEF PurgeUser, Set, Request
<1>13. ASSUME NEW t \in tokens, Expire(t)
       PROVE  TypeOK'
  BY <1>13 DEF Expire
<1>14. CASE UNCHANGED vars
  BY <1>14 DEF vars
<1> QED
  BY <1>1, <1>2, <1>3, <1>4, <1>5, <1>6, <1>7, <1>8, <1>9, <1>10, <1>11, <1>12, <1>13, <1>14
     DEF Next, SignUpOrIn, EnterRoute, Act

LEMMA TypeInitial == Init => TypeOK
  BY DEF Init, TypeOK, Request

(* The state of Accounts always has the shape of the collections and the   *)
(* request records of the program.                                         *)
THEOREM TypeCorrect == Spec => []TypeOK
<1> QED
  BY TypeInitial, TypeInductive, PTL DEF Spec

-----------------------------------------------------------------------------
(* Claims stay sound *)

(* What a step may do to the documents without unsettling any claim: the   *)
(* documents that remain keep their version and password, or get a higher  *)
(* version; new documents get new ids.                                     *)
DocsAdvance ==
    /\ issuedIds \subseteq issuedIds'
    /\ \A id \in issuedIds : id \in DOMAIN users' =>
          /\ id \in DOMAIN users
          /\ \/ users'[id].ver = users[id].ver /\ users'[id].pwd = users[id].pwd
             \/ users'[id].ver > users[id].ver

LEMMA ClaimStaysSound ==
    ASSUME TypeOK, TypeOK', DocsAdvance, NEW c \in Token, ClaimSound(c, issuedIds, users)
    PROVE  ClaimSound(c, issuedIds', users')
<1>1. c.ver \in Nat /\ c.sub \in issuedIds /\ c.sub \in issuedIds'
  BY VersionsAreNat DEF Token, ClaimSound, DocsAdvance
<1>2. CASE c.sub \notin DOMAIN users'
  BY <1>1, <1>2 DEF ClaimSound, Exists
<1>3. CASE c.sub \in DOMAIN users'
  <2>1. /\ c.sub \in DOMAIN users
        /\ \/ users'[c.sub].ver = users[c.sub].ver /\ users'[c.sub].pwd = users[c.sub].pwd
           \/ users'[c.sub].ver > users[c.sub].ver
    BY <1>1, <1>3 DEF DocsAdvance
  <2>2. users[c.sub].ver \in Nat /\ users'[c.sub].ver \in Nat
    BY <1>3, <2>1, VersionsAreNat DEF TypeOK, UserDoc
  <2>3. c.ver <= users[c.sub].ver /\ (c.ver = users[c.sub].ver => c.pwd = users[c.sub].pwd)
    BY <2>1 DEF ClaimSound, Exists
  <2>4. c.ver <= users'[c.sub].ver /\ (c.ver = users'[c.sub].ver => c.pwd = users'[c.sub].pwd)
    BY <1>1, <2>1, <2>2, <2>3
  <2> QED
    BY <1>1, <2>4 DEF ClaimSound
<1> QED
  BY <1>2, <1>3

(* Reading a document yields sound claims. *)
LEMMA ReadIsSound ==
    ASSUME TypeOK, NEW id \in DOMAIN users
    PROVE  ClaimsOf(id, users[id]) \in Token /\ ClaimSound(ClaimsOf(id, users[id]), issuedIds, users)
<1>1. users[id] \in UserDoc /\ id \in UserIds /\ id \in issuedIds
  BY DEF TypeOK
<1>2. users[id].ver \in Nat
  BY <1>1, VersionsAreNat DEF UserDoc
<1> QED
  BY <1>1, <1>2, ClaimsOfIsToken DEF ClaimsOf, ClaimSound

LEMMA CreateUserAdvances ==
    ASSUME TypeOK, NEW id \in UserIds, NEW doc \in UserDoc, CreateUser(id, doc)
    PROVE  DocsAdvance
  BY DEF CreateUser, DocsAdvance, TypeOK

LEMMA NextVersionIs ==
    ASSUME NEW doc \in UserDoc, NEW changed, NEW e, NEW p, NEW role
    PROVE  LET new == Updated(doc, changed, e, p, role)
           IN  \/ new.ver = doc.ver /\ new.pwd = doc.pwd
               \/ new.ver > doc.ver
<1>1. doc.ver \in Nat
  BY VersionsAreNat DEF UserDoc
<1>2. CASE "password" \in changed
  <2>1. NextVersion(doc, changed) = doc.ver + 1
    BY <1>2 DEF NextVersion
  <2>2. Updated(doc, changed, e, p, role).ver = doc.ver + 1
    BY <2>1 DEF Updated, UserDoc
  <2> QED
    BY <1>1, <2>2
<1>3. CASE "password" \notin changed
  BY <1>3 DEF Updated, NextVersion, UserDoc
<1> QED
  BY <1>2, <1>3

(* No step of the program unsettles the claims. *)
LEMMA NextAdvances ==
    ASSUME TypeOK, [Next]_vars
    PROVE  DocsAdvance
<1> USE DEF TypeOK
<1>1. ASSUME UNCHANGED <<users, issuedIds>>
      PROVE  DocsAdvance
  BY <1>1 DEF DocsAdvance
<1>2. ASSUME NEW r \in Requests, NEW e \in Emails, NEW p \in Passwords, NEW id \in UserIds,
             Register(r, id, e, p)
      PROVE  DocsAdvance
  BY <1>2, NewDocIsDoc, CreateUserAdvances DEF Register, Roles
<1>3. ASSUME NEW e \in Emails, NEW p \in Passwords, NEW id \in UserIds, NEW role \in Roles,
             RegisterCommand(id, e, p, role)
      PROVE  DocsAdvance
  BY <1>3, NewDocIsDoc, CreateUserAdvances DEF RegisterCommand
<1>4. ASSUME NEW r \in Requests, NEW id \in issuedIds, NEW changed \in (SUBSET Fields) \ {{}},
             NEW e \in Emails, NEW p \in Passwords, NEW role \in Roles,
             UpdateUser(r, id, changed, e, p, role)
      PROVE  DocsAdvance
  <2>1. CASE users' = users
    BY <1>1, <1>4, <2>1 DEF UpdateUser
  <2>2. CASE /\ Alive(id)
             /\ users' = [users EXCEPT ![id] = Updated(users[id], changed, e, p, role)]
    <3>1. users[id] \in UserDoc
      BY <2>2 DEF Alive, Exists
    <3> QED
      BY <1>4, <2>2, <3>1, NextVersionIs DEF UpdateUser, DocsAdvance
  <2> QED
    BY <1>4, <2>1, <2>2 DEF UpdateUser
<1>5. ASSUME NEW r \in Requests, NEW id \in issuedIds, SoftDeleteUser(r, id)
      PROVE  DocsAdvance
  <2>1. CASE users' = users
    BY <1>1, <1>5, <2>1 DEF SoftDeleteUser
  <2>2. CASE users' = [users EXCEPT ![id].deleted = TRUE]
    BY <1>5, <2>2 DEF SoftDeleteUser, DocsAdvance, UserDoc
  <2> QED
    BY <1>5, <2>1, <2>2 DEF SoftDeleteUser
<1>6. ASSUME NEW r \in Requests, NEW id \in issuedIds, RestoreUser(r, id)
      PROVE  DocsAdvance
  <2>1. CASE users' = users
    BY <1>1, <1>6, <2>1 DEF RestoreUser
  <2>2. CASE users' = [users EXCEPT ![id] = Restored(users[id])]
    BY <1>6, <2>2 DEF RestoreUser, DocsAdvance, Restored, UserDoc
  <2> QED
    BY <1>6, <2>1, <2>2 DEF RestoreUser
<1>7. ASSUME NEW r \in Requests, NEW id \in issuedIds, PurgeUser(r, id)
      PROVE  DocsAdvance
  BY <1>7 DEF PurgeUser, DocsAdvance
<1>8. CASE UNCHANGED vars
  BY <1>1, <1>8 DEF vars
<1> QED
  BY <1>1, <1>2, <1>3, <1>4, <1>5, <1>6, <1>7, <1>8
     DEF Next, SignUpOrIn, EnterRoute, Act, Login, IssueToken, Enter, EnterCommand,
         RestoreLookup, Return, Expire

-----------------------------------------------------------------------------
(* The inductive invariant *)

LEMMA ClaimsInductive ==
    ASSUME TypeOK, TypeOK', ClaimsSound, [Next]_vars
    PROVE  ClaimsSound'
<1>1. ASSUME NEW c \in Token, ClaimSound(c, issuedIds, users)
      PROVE  ClaimSound(c, issuedIds', users')
  BY <1>1, NextAdvances, ClaimStaysSound
<1>2. ASSUME NEW c \in Token, ClaimSound(c, issuedIds, users), NEW r \in Requests, req' = [req EXCEPT ![r] = [pc |-> "issuing", claims |-> c]],
             tokens' = tokens
      PROVE  ClaimsSound'
  <2>1. \A t \in tokens' : ClaimSound(t, issuedIds', users')
    BY <1>1, <1>2 DEF ClaimsSound, TypeOK
  <2>2. ASSUME NEW q \in Requests, req'[q].pc = "issuing"
        PROVE  ClaimSound(req'[q].claims, issuedIds', users')
    BY <1>1, <1>2, <2>2, RequestForms DEF ClaimsSound, TypeOK
  <2> QED
    BY <2>1, <2>2 DEF ClaimsSound
<1>3. ASSUME tokens' \subseteq tokens,
             \A q \in Requests : req'[q].pc = "issuing" => req'[q] = req[q]
      PROVE  ClaimsSound'
  <2>1. \A t \in tokens' : ClaimSound(t, issuedIds', users')
    BY <1>1, <1>3 DEF ClaimsSound, TypeOK
  <2>2. ASSUME NEW q \in Requests, req'[q].pc = "issuing"
        PROVE  ClaimSound(req'[q].claims, issuedIds', users')
    BY <1>1, <1>3, <2>2, RequestForms DEF ClaimsSound, TypeOK
  <2> QED
    BY <2>1, <2>2 DEF ClaimsSound
<1>4. ASSUME NEW r \in Requests, NEW e \in Emails, NEW p \in Passwords, NEW id \in UserIds,
             Register(r, id, e, p)
      PROVE  ClaimsSound'
  <2> DEFINE doc == NewDoc(e, p, "user")
             c == ClaimsOf(id, doc)
  <2>1. doc \in UserDoc /\ c \in Token /\ c.ver = 0 /\ c.pwd = p /\ c.sub = id
    BY NewDocIsDoc, ClaimsOfIsToken DEF Roles, ClaimsOf, NewDoc
  <2>2. ClaimSound(c, issuedIds', users')
    BY <1>4, <2>1 DEF Register, CreateUser, ClaimSound, Exists, NewDoc
  <2>3. /\ tokens' = tokens
        /\ req' = [req EXCEPT ![r] = [pc |-> "issuing", claims |-> c]]
    BY <1>4 DEF Register, Set
  <2>4. \A t \in tokens' : ClaimSound(t, issuedIds', users')
    BY <1>1, <2>3 DEF ClaimsSound, TypeOK
  <2>5. ASSUME NEW q \in Requests, req'[q].pc = "issuing"
        PROVE  ClaimSound(req'[q].claims, issuedIds', users')
    BY <1>1, <2>2, <2>3, <2>5, RequestForms DEF ClaimsSound, TypeOK
  <2> QED
    BY <2>4, <2>5 DEF ClaimsSound
<1>5. ASSUME NEW r \in Requests, NEW e \in Emails, NEW p \in Passwords, Login(r, e, p)
      PROVE  ClaimsSound'
  <2>1. PICK id \in DOMAIN users :
          Set(r, [pc |-> "issuing", claims |-> ClaimsOf(id, users[id])])
    BY <1>5 DEF Login
  <2> QED
    BY <1>2, <1>5, <2>1, ReadIsSound DEF Login, Set
<1>6. ASSUME NEW r \in Requests, IssueToken(r)
      PROVE  ClaimsSound'
  <2>1. req[r].claims \in Token /\ ClaimSound(req[r].claims, issuedIds, users)
    BY <1>6, RequestForms DEF IssueToken, TypeOK, ClaimsSound
  <2>2. \A t \in tokens' : ClaimSound(t, issuedIds', users')
    BY <1>1, <1>6, <2>1 DEF IssueToken, ClaimsSound, TypeOK
  <2>3. ASSUME NEW q \in Requests, req'[q].pc = "issuing"
        PROVE  ClaimSound(req'[q].claims, issuedIds', users')
    BY <1>1, <1>6, <2>3, RequestForms DEF IssueToken, Set, Idle, ClaimsSound, TypeOK
  <2> QED
    BY <2>2, <2>3 DEF ClaimsSound
<1>7. ASSUME NEW r \in Requests, NEW id \in issuedIds, RestoreUser(r, id)
      PROVE  ClaimsSound'
  BY <1>3, <1>7 DEF RestoreUser, Set, Idle, TypeOK
<1>8. ASSUME NEW r \in Requests, NEW t \in tokens, NEW route \in AdminRoutes, Enter(r, t, route)
      PROVE  ClaimsSound'
  BY <1>3, <1>8 DEF Enter, Set, AdminRoutes, TypeOK
<1>9. ASSUME NEW r \in Requests, NEW command \in Commands, EnterCommand(r, command)
      PROVE  ClaimsSound'
  BY <1>3, <1>9 DEF EnterCommand, Set, Commands, TypeOK
<1>10. ASSUME NEW r \in Requests, NEW id \in issuedIds, NEW changed \in (SUBSET Fields) \ {{}},
              NEW e \in Emails, NEW p \in Passwords, NEW role \in Roles,
              UpdateUser(r, id, changed, e, p, role)
       PROVE  ClaimsSound'
  BY <1>3, <1>10 DEF UpdateUser, Set, Idle, TypeOK
<1>11. ASSUME NEW r \in Requests, NEW id \in issuedIds, SoftDeleteUser(r, id) \/ PurgeUser(r, id)
       PROVE  ClaimsSound'
  BY <1>3, <1>11 DEF SoftDeleteUser, PurgeUser, Set, Idle, TypeOK
<1>12. ASSUME NEW e \in Emails, NEW p \in Passwords, NEW id \in UserIds, NEW role \in Roles,
              RegisterCommand(id, e, p, role)
       PROVE  ClaimsSound'
  BY <1>3, <1>12 DEF RegisterCommand
<1>13. ASSUME NEW r \in Requests, RestoreLookup(r)
       PROVE  ClaimsSound'
  BY <1>3, <1>13, LookupReplies
<1>14. ASSUME NEW r \in Requests, Return(r)
       PROVE  ClaimsSound'
  BY <1>3, <1>14 DEF Return, Set, Idle, TypeOK
<1>15. ASSUME NEW t \in tokens, Expire(t)
       PROVE  ClaimsSound'
  BY <1>3, <1>15 DEF Expire
<1>16. CASE UNCHANGED vars
  BY <1>3, <1>16 DEF vars
<1> QED
  BY <1>4, <1>5, <1>6, <1>7, <1>8, <1>9, <1>10, <1>11, <1>12, <1>13, <1>14, <1>15, <1>16
     DEF Next, SignUpOrIn, EnterRoute, Act

LEMMA LookupsInductive ==
    ASSUME TypeOK, TypeOK', LookupsSound, [Next]_vars
    PROVE  LookupsSound'
<1> USE DEF TypeOK
<1>1. ASSUME NEW id \in issuedIds, id \notin DOMAIN users
      PROVE  id \in issuedIds' /\ id \notin DOMAIN users'
  BY <1>1, NextAdvances DEF DocsAdvance
<1>2. ASSUME \A q \in Requests : req'[q].pc \in {"lookup", "answered"} =>
                /\ req[q].pc \in {"lookup", "answered"}
                /\ req'[q].target = req[q].target /\ req'[q].wasAlive = req[q].wasAlive
      PROVE  LookupsSound'
  BY <1>1, <1>2, NextAdvances DEF LookupsSound, DocsAdvance
<1>3. ASSUME NEW r \in Requests, NEW id \in issuedIds, RestoreUser(r, id)
      PROVE  LookupsSound'
  <2>1. CASE Exists(id) /\ users[id].deleted
    BY <1>2, <1>3, <2>1 DEF RestoreUser, Set, Idle
  <2>2. CASE ~(Exists(id) /\ users[id].deleted)
    <3>1. req' = [req EXCEPT ![r] = [pc |-> "lookup", target |-> id, wasAlive |-> Alive(id)]]
      BY <1>3, <2>2 DEF RestoreUser, Set
    <3>2. ~Alive(id) => id \notin DOMAIN users
      BY <2>2 DEF Alive, Exists
    <3>3. ASSUME NEW q \in Requests, req'[q].pc \in {"lookup", "answered"}
          PROVE  /\ req'[q].target \in issuedIds'
                 /\ ~req'[q].wasAlive => req'[q].target \notin DOMAIN users'
      <4>1. CASE q = r
        <5>1. req'[q].target = id /\ (req'[q].wasAlive <=> Alive(id))
          BY <3>1, <4>1 DEF Alive
        <5> QED
          BY <1>1, <3>2, <5>1, NextAdvances DEF DocsAdvance
      <4>2. CASE q # r
        <5>1. req'[q] = req[q]
          BY <3>1, <4>2
        <5>2. req[q].target \in issuedIds /\ (~req[q].wasAlive => req[q].target \notin DOMAIN users)
          BY <3>3, <5>1 DEF LookupsSound
        <5> QED
          BY <1>1, <5>1, <5>2, NextAdvances DEF DocsAdvance
      <4> QED
        BY <4>1, <4>2
    <3> QED
      BY <3>3 DEF LookupsSound
  <2> QED
    BY <2>1, <2>2
<1>4. ASSUME NEW r \in Requests, RestoreLookup(r)
      PROVE  LookupsSound'
  BY <1>2, <1>4, LookupReplies
<1>5. ASSUME NEW r \in Requests, NEW e \in Emails, NEW p \in Passwords, NEW id \in UserIds,
             Register(r, id, e, p)
      PROVE  LookupsSound'
  BY <1>2, <1>5 DEF Register, Set
<1>6. ASSUME NEW r \in Requests, NEW e \in Emails, NEW p \in Passwords, Login(r, e, p)
       PROVE  LookupsSound'
  BY <1>2, <1>6 DEF Login, Set
<1>7. ASSUME NEW r \in Requests, IssueToken(r) \/ Return(r)
       PROVE  LookupsSound'
  BY <1>2, <1>7 DEF IssueToken, Return, Set, Idle
<1>8. ASSUME NEW r \in Requests, NEW t \in tokens, NEW route \in AdminRoutes, Enter(r, t, route)
      PROVE  LookupsSound'
  BY <1>2, <1>8 DEF Enter, Set, AdminRoutes
<1>9. ASSUME NEW r \in Requests, NEW command \in Commands, EnterCommand(r, command)
      PROVE  LookupsSound'
  BY <1>2, <1>9 DEF EnterCommand, Set, Commands
<1>10. ASSUME NEW r \in Requests, NEW id \in issuedIds, NEW changed \in (SUBSET Fields) \ {{}},
             NEW e \in Emails, NEW p \in Passwords, NEW role \in Roles,
             UpdateUser(r, id, changed, e, p, role)
      PROVE  LookupsSound'
  BY <1>2, <1>10 DEF UpdateUser, Set, Idle
<1>11. ASSUME NEW r \in Requests, NEW id \in issuedIds, SoftDeleteUser(r, id) \/ PurgeUser(r, id)
       PROVE  LookupsSound'
  BY <1>2, <1>11 DEF SoftDeleteUser, PurgeUser, Set, Idle
<1>12. CASE UNCHANGED req
  BY <1>2, <1>12
<1> QED
  BY <1>3, <1>4, <1>5, <1>6, <1>7, <1>8, <1>9, <1>10, <1>11, <1>12
     DEF Next, SignUpOrIn, EnterRoute, Act, RegisterCommand, Expire, vars

LEMMA InitialInvariant == Init => IInv
<1> SUFFICES ASSUME Init PROVE ClaimsSound /\ LookupsSound
  BY TypeInitial DEF IInv
<1> QED
  BY DEF Init, Idle, ClaimsSound, LookupsSound

(* The inductive invariant holds in every reachable state. *)
THEOREM InvariantHolds == Spec => []IInv
<1>1. IInv /\ [Next]_vars => IInv'
  BY TypeInductive, ClaimsInductive, LookupsInductive DEF IInv
<1> QED
  BY <1>1, InitialInvariant, PTL DEF Spec

-----------------------------------------------------------------------------
(* Safety *)

(* An accepted token proves the account's present password. *)
THEOREM TokensProvePasswords == Spec => []TokenProvesPassword
<1>1. IInv => TokenProvesPassword
  BY DEF IInv, ClaimsSound, ClaimSound, TokenProvesPassword, Accepts, Alive, Exists
<1> QED
  BY <1>1, InvariantHolds, PTL

(* Documents never share an email: an insert or an update that would make  *)
(* two owners is refused, and a restore brings back a document that kept   *)
(* its email all along.                                                    *)
THEOREM EmailsUnique == Spec => []EmailUnique
<1> USE DEF TypeOK, EmailUnique
<1>1. Init => EmailUnique
  BY DEF Init
<1>2. ASSUME TypeOK, EmailUnique, [Next]_vars
      PROVE  EmailUnique'
  <2> USE <1>2
  <2>1. ASSUME NEW id \in UserIds, NEW doc \in UserDoc, CreateUser(id, doc)
        PROVE  EmailUnique'
    BY <2>1 DEF CreateUser, EmailTaken
  <2>2. ASSUME NEW r \in Requests, NEW e \in Emails, NEW p \in Passwords, NEW id \in UserIds,
               Register(r, id, e, p)
        PROVE  EmailUnique'
    BY <2>1, <2>2, NewDocIsDoc DEF Register, Roles
  <2>3. ASSUME NEW e \in Emails, NEW p \in Passwords, NEW id \in UserIds, NEW role \in Roles,
               RegisterCommand(id, e, p, role)
        PROVE  EmailUnique'
    BY <2>1, <2>3, NewDocIsDoc DEF RegisterCommand
  <2>4. ASSUME NEW r \in Requests, NEW id \in issuedIds, NEW changed \in (SUBSET Fields) \ {{}},
               NEW e \in Emails, NEW p \in Passwords, NEW role \in Roles,
               UpdateUser(r, id, changed, e, p, role)
        PROVE  EmailUnique'
    <3>1. CASE users' = users
      BY <3>1
    <3>2. CASE /\ Alive(id) /\ ~("email" \in changed /\ EmailTaken(e, id))
               /\ users' = [users EXCEPT ![id] = Updated(users[id], changed, e, p, role)]
      <4>1. id \in DOMAIN users /\ users[id] \in UserDoc
        BY <3>2 DEF Alive, Exists
      <4>2. users'[id].email = IF "email" \in changed THEN e ELSE users[id].email
        BY <3>2, <4>1 DEF Updated, UserDoc
      <4>3. \A i \in DOMAIN users \ {id} : users'[i] = users[i] /\ users[i].email # users'[id].email
        BY <3>2, <4>1, <4>2 DEF EmailTaken
      <4> QED
        BY <3>2, <4>1, <4>3
    <3> QED
      BY <2>4, <3>1, <3>2 DEF UpdateUser
  <2>5. ASSUME NEW r \in Requests, NEW id \in issuedIds, SoftDeleteUser(r, id)
        PROVE  EmailUnique'
    <3>1. DOMAIN users' = DOMAIN users /\ \A i \in DOMAIN users : users'[i].email = users[i].email
      BY <2>5 DEF SoftDeleteUser, UserDoc
    <3> QED
      BY <3>1
  <2>6. ASSUME NEW r \in Requests, NEW id \in issuedIds, RestoreUser(r, id)
        PROVE  EmailUnique'
    <3>1. DOMAIN users' = DOMAIN users /\ \A i \in DOMAIN users : users'[i].email = users[i].email
      BY <2>6 DEF RestoreUser, Restored, UserDoc
    <3> QED
      BY <3>1
  <2>7. ASSUME NEW r \in Requests, NEW id \in issuedIds, PurgeUser(r, id)
        PROVE  EmailUnique'
    BY <2>7 DEF PurgeUser
  <2>8. CASE UNCHANGED users
    BY <2>8
  <2> QED
    BY <2>2, <2>3, <2>4, <2>5, <2>6, <2>7, <2>8
       DEF Next, SignUpOrIn, EnterRoute, Act, Login, IssueToken, Enter, EnterCommand,
           RestoreLookup, Return, Expire, vars
<1> QED
  BY <1>1, <1>2, TypeCorrect, PTL DEF Spec

(* Whatever a restore that matched nothing answers was true during the     *)
(* call, because an id that is gone never comes back.                      *)
THEOREM RestoresAnswerTruly == Spec => []RestoreAnswersTrue
<1>1. Init => RestoreAnswersTrue
  <2>1. Init => \A r \in Requests : req[r].pc # "answered"
    BY DEF Init, Idle
  <2> QED
    BY <2>1 DEF RestoreAnswersTrue
<1>2. ASSUME IInv, IInv', RestoreAnswersTrue, [Next]_vars
      PROVE  RestoreAnswersTrue'
  <2> USE <1>2 DEF IInv, TypeOK
  <2> SUFFICES ASSUME NEW q \in Requests, req'[q].pc = "answered"
               PROVE  /\ req'[q].answer = "not deleted" => req'[q].wasAlive
                      /\ req'[q].answer = "not found" /\ req'[q].lookup = "done" =>
                            req'[q].target \notin DOMAIN users'
    BY DEF RestoreAnswersTrue, Exists
  <2>1. CASE req'[q] = req[q]
    <3>1. /\ req[q].answer = "not deleted" => req[q].wasAlive
          /\ req[q].answer = "not found" /\ req[q].lookup = "done" =>
                req[q].target \notin DOMAIN users
      BY <2>1 DEF RestoreAnswersTrue, Exists
    <3>2. req[q].target \in issuedIds
      BY <2>1 DEF LookupsSound
    <3> QED
      BY <2>1, <3>1, <3>2, NextAdvances DEF DocsAdvance
  <2>2. CASE RestoreLookup(q)
    <3>1. /\ req'[q].target = req[q].target
          /\ req'[q].wasAlive = req[q].wasAlive
          /\ req'[q].answer = "not deleted" => req[q].target \in DOMAIN users
          /\ req'[q].answer = "not found" /\ req'[q].lookup = "done" =>
                req[q].target \notin DOMAIN users
          /\ users' = users
      BY <2>2, LookupReplies DEF Exists
    <3>2. ~req[q].wasAlive => req[q].target \notin DOMAIN users
      BY <2>2 DEF LookupsSound, RestoreLookup
    <3> QED
      BY <3>1, <3>2
  <2>3. req'[q] = req[q] \/ RestoreLookup(q)
    <3>1. ASSUME NEW r \in Requests, NEW s, Set(r, s), s.pc # "answered"
          PROVE  req'[q] = req[q]
      BY <3>1 DEF Set
    <3>2. ASSUME NEW r \in Requests, RestoreLookup(r)
          PROVE  req'[q] = req[q] \/ RestoreLookup(q)
      <4>1. CASE r = q
        BY <3>2, <4>1
      <4>2. CASE r # q
        BY <3>2, <4>2, LookupReplies
      <4> QED
        BY <4>1, <4>2
    <3>3. ASSUME NEW r \in Requests, NEW e, NEW p, NEW id, Register(r, id, e, p)
          PROVE  req'[q] = req[q]
      BY <3>1, <3>3 DEF Register
    <3>4. ASSUME NEW r \in Requests, NEW e, NEW p, Login(r, e, p)
          PROVE  req'[q] = req[q]
      BY <3>1, <3>4 DEF Login
    <3>5. ASSUME NEW r \in Requests, IssueToken(r) \/ Return(r)
          PROVE  req'[q] = req[q]
      BY <3>1, <3>5 DEF IssueToken, Return, Idle
    <3>6. ASSUME NEW r \in Requests, NEW t, NEW route \in AdminRoutes, Enter(r, t, route)
          PROVE  req'[q] = req[q]
      BY <3>1, <3>6 DEF Enter, AdminRoutes
    <3>7. ASSUME NEW r \in Requests, NEW command \in Commands, EnterCommand(r, command)
          PROVE  req'[q] = req[q]
      BY <3>1, <3>7 DEF EnterCommand, Commands
    <3>8. ASSUME NEW r \in Requests, NEW id, NEW changed, NEW e, NEW p, NEW role,
                 UpdateUser(r, id, changed, e, p, role)
          PROVE  req'[q] = req[q]
      BY <3>1, <3>8 DEF UpdateUser, Idle
    <3>9. ASSUME NEW r \in Requests, NEW id, SoftDeleteUser(r, id) \/ PurgeUser(r, id)
          PROVE  req'[q] = req[q]
      BY <3>1, <3>9 DEF SoftDeleteUser, PurgeUser, Idle
    <3>10. ASSUME NEW r \in Requests, NEW id, RestoreUser(r, id)
           PROVE  req'[q] = req[q]
      BY <3>1, <3>10 DEF RestoreUser, Idle
    <3>11. CASE UNCHANGED req
      BY <3>11
    <3> QED
      BY <3>2, <3>3, <3>4, <3>5, <3>6, <3>7, <3>8, <3>9, <3>10, <3>11
         DEF Next, SignUpOrIn, EnterRoute, Act, RegisterCommand, Expire, vars
  <2> QED
    BY <2>1, <2>2, <2>3
<1> QED
  BY <1>1, <1>2, InvariantHolds, PTL DEF Spec

-----------------------------------------------------------------------------
(* Action properties *)

(* A revoked token stays revoked: versions only grow and ids do not return. *)
THEOREM RevocationIsPermanent == Spec => RevocationPermanent
<1>1. ASSUME IInv, [Next]_vars
      PROVE  \A t \in tokens : Revoked(t) => Revoked(t)'
  <2> SUFFICES ASSUME NEW t \in tokens, Revoked(t)
               PROVE  t.sub \in DOMAIN users' => t.ver # users'[t.sub].ver
    BY DEF Revoked, Exists
  <2> SUFFICES ASSUME t.sub \in DOMAIN users'
               PROVE  t.ver # users'[t.sub].ver
    OBVIOUS
  <2>1. t \in Token /\ ClaimSound(t, issuedIds, users)
    BY <1>1 DEF IInv, TypeOK, ClaimsSound
  <2>2. t.sub \in DOMAIN users /\ users'[t.sub].ver >= users[t.sub].ver
    BY <1>1, <2>1, NextAdvances, TypeInductive, VersionsAreNat
       DEF IInv, TypeOK, UserDoc, DocsAdvance, ClaimSound
  <2>3. t.ver \in Nat /\ users[t.sub].ver \in Nat /\ users'[t.sub].ver \in Nat
    BY <1>1, <2>1, <2>2, TypeInductive, VersionsAreNat DEF IInv, TypeOK, UserDoc, Token
  <2>4. t.ver < users[t.sub].ver
    BY <2>1, <2>2, <2>3 DEF ClaimSound, Revoked, Exists
  <2> QED
    BY <2>2, <2>3, <2>4
<1> QED
  BY <1>1, InvariantHolds, PTL DEF Spec, RevocationPermanent

(* Only an alive administrator's token opens an administrator's route. *)
THEOREM PrivilegeIsFresh == Spec => NoStalePrivilege
<1>1. ASSUME IInv, [Next]_vars
      PROVE  \A r \in Requests :
                req[r] = Idle /\ req'[r].pc \in AdminRoutes /\ req'[r].caller # Operator =>
                   /\ Alive(req'[r].caller)
                   /\ users[req'[r].caller].role = "admin"
  <2> SUFFICES ASSUME NEW q \in Requests,
                      req[q] = Idle, req'[q].pc \in AdminRoutes, req'[q].caller # Operator
               PROVE  Alive(req'[q].caller) /\ users[req'[q].caller].role = "admin"
    OBVIOUS
  <2> USE <1>1 DEF IInv, TypeOK
  <2>1. ASSUME NEW r \in Requests, NEW t \in tokens, NEW route \in AdminRoutes, Enter(r, t, route)
        PROVE  Alive(req'[q].caller) /\ users[req'[q].caller].role = "admin"
    <3>1. r = q
      BY <2>1 DEF Enter, Set, Idle, AdminRoutes
    <3>2. req'[q].caller = t.sub /\ Alive(t.sub)
      BY <2>1, <3>1 DEF Enter, Set, Accepts
    <3>3. users[t.sub].role \in Roles
      BY <3>2 DEF Alive, Exists, UserDoc
    <3>4. Has(users[t.sub].role, RoutePermission[route])
      BY <2>1 DEF Enter, Grants
    <3>5. RoutePermission[route] \in {"users:update", "users:delete"}
      BY DEF RoutePermission, AdminRoutes
    <3>6. users[t.sub].role = "admin"
      BY <3>3, <3>4, <3>5 DEF Has, RolePermissions, Roles, UserPermissions
    <3> QED
      BY <3>2, <3>6
  <2>2. ASSUME NEW r \in Requests, NEW command \in Commands, EnterCommand(r, command)
        PROVE  FALSE
    BY <2>2 DEF EnterCommand, Set, Idle, AdminRoutes
  <2>3. ASSUME NEW r \in Requests, NEW s, Set(r, s), s.pc \notin AdminRoutes
        PROVE  FALSE
    BY <2>3 DEF Set, Idle, AdminRoutes
  <2>4. ASSUME NEW r \in Requests, NEW e, NEW p, NEW id, Register(r, id, e, p)
        PROVE  FALSE
    BY <2>3, <2>4 DEF Register, AdminRoutes
  <2>5. ASSUME NEW r \in Requests, NEW e, NEW p, Login(r, e, p)
        PROVE  FALSE
    BY <2>3, <2>5 DEF Login, AdminRoutes
  <2>6. ASSUME NEW r \in Requests, IssueToken(r) \/ Return(r) \/ RestoreLookup(r)
        PROVE  FALSE
    BY <2>3, <2>6 DEF IssueToken, Return, RestoreLookup, Idle, AdminRoutes
  <2>7. ASSUME NEW r \in Requests, NEW id, NEW changed, NEW e, NEW p, NEW role,
               UpdateUser(r, id, changed, e, p, role)
        PROVE  FALSE
    BY <2>3, <2>7 DEF UpdateUser, Idle, AdminRoutes
  <2>8. ASSUME NEW r \in Requests, NEW id,
               SoftDeleteUser(r, id) \/ PurgeUser(r, id) \/ RestoreUser(r, id)
        PROVE  FALSE
    BY <2>3, <2>8 DEF SoftDeleteUser, PurgeUser, RestoreUser, Idle, AdminRoutes
  <2>9. CASE UNCHANGED req
    BY <2>9 DEF Idle, AdminRoutes
  <2> QED
    BY <2>1, <2>2, <2>4, <2>5, <2>6, <2>7, <2>8, <2>9
       DEF Next, SignUpOrIn, EnterRoute, Act, RegisterCommand, Expire, vars
<1> QED
  BY <1>1, InvariantHolds, PTL DEF Spec, NoStalePrivilege

-----------------------------------------------------------------------------
(* Accounts implements SessionTable: every step of a handler is one step   *)
(* on the table or none.  A token's version never runs ahead of its        *)
(* account, so moving the version ends every session there is, and an id   *)
(* that is gone never returns, so nothing revives one.                     *)

(* A session keeps all there is in its token. *)
LEMMA SessionsDistinct ==
    ASSUME NEW t \in Token, NEW u \in Token, SessionOf(t) = SessionOf(u)
    PROVE  t = u
<1>1. /\ t = [sub |-> t.sub, ver |-> t.ver, role |-> t.role, pwd |-> t.pwd]
      /\ u = [sub |-> u.sub, ver |-> u.ver, role |-> u.role, pwd |-> u.pwd]
  BY DEF Token
<1>2. t.sub = u.sub /\ t.pwd = u.pwd /\ t.ver = u.ver /\ t.role = u.role
  BY DEF SessionOf
<1> QED
  BY <1>1, <1>2

LEMMA TokensOfIssued ==
    ASSUME IInv, NEW t \in tokens
    PROVE  t \in Token /\ t.sub \in issuedIds
  BY DEF IInv, TypeOK, ClaimsSound, ClaimSound

(* The table is unchanged where the tokens and their standing are. *)
LEMMA SessionsSame ==
    ASSUME tokens' = tokens, \A t \in tokens : Revoked(t)' <=> Revoked(t)
    PROVE  LiveSessions' = LiveSessions
  BY DEF LiveSessions

LEMMA DocsSame ==
    ASSUME users' = users, tokens' = tokens
    PROVE  UNCHANGED Sessions!vars
  BY DEF Sessions!vars, CurrentPasswords, LockedOut, LiveSessions, Revoked, Exists

-----------------------------------------------------------------------------
(* Enrolment *)

LEMMA CreateEnrols ==
    ASSUME IInv, NEW id \in UserIds, NEW e \in Emails, NEW p \in Passwords, NEW role \in Roles,
           CreateUser(id, NewDoc(e, p, role)), tokens' = tokens
    PROVE  Sessions!Enrol(id, p)
<1> DEFINE doc == NewDoc(e, p, role)
<1>1. /\ id \notin issuedIds
      /\ users' = [i \in DOMAIN users \cup {id} |-> IF i = id THEN doc ELSE users[i]]
  BY DEF CreateUser
<1>2. id \notin DOMAIN users
  BY <1>1 DEF IInv, TypeOK
<1>3. doc.pwd = p /\ doc.deleted = FALSE
  BY DEF NewDoc
<1>4. CurrentPasswords' =
        [b \in DOMAIN CurrentPasswords \cup {id} |-> IF b = id THEN p ELSE CurrentPasswords[b]]
  BY <1>1, <1>2, <1>3 DEF CurrentPasswords
<1>5. LockedOut' = LockedOut
  BY <1>1, <1>2, <1>3 DEF LockedOut
<1>6. \A t \in tokens : Revoked(t)' <=> Revoked(t)
  BY <1>1, <1>2, TokensOfIssued DEF Revoked, Exists
<1>7. LiveSessions' = LiveSessions
  BY <1>6, SessionsSame
<1> QED
  BY <1>2, <1>4, <1>5, <1>7 DEF Sessions!Enrol, CurrentPasswords

-----------------------------------------------------------------------------
(* Tokens issued and expired *)

LEMMA IssueSignsIn ==
    ASSUME IInv, NEW r \in Requests, IssueToken(r)
    PROVE  \/ \E c \in [ver : Versions, role : Roles] : Sessions!SignIn(req[r].claims.sub, c)
           \/ UNCHANGED Sessions!vars
<1> DEFINE t == req[r].claims
           c == [ver |-> t.ver, role |-> t.role]
<1>1. t \in Token /\ ClaimSound(t, issuedIds, users)
  BY RequestForms DEF IInv, TypeOK, ClaimsSound, IssueToken
<1>2. users' = users /\ tokens' = tokens \cup {t}
  BY DEF IssueToken
<1>3. \A u : Revoked(u)' <=> Revoked(u)
  BY <1>2 DEF Revoked, Exists
<1>4. CurrentPasswords' = CurrentPasswords /\ LockedOut' = LockedOut
  BY <1>2 DEF CurrentPasswords, LockedOut
<1>5. CASE Revoked(t)
  <2>1. LiveSessions' = LiveSessions
    BY <1>2, <1>3, <1>5 DEF LiveSessions
  <2> QED
    BY <1>4, <2>1 DEF Sessions!vars
<1>6. CASE ~Revoked(t)
  <2>1. LiveSessions' = LiveSessions \cup {SessionOf(t)}
    BY <1>2, <1>3, <1>6 DEF LiveSessions
  <2>2. t.sub \in DOMAIN users /\ t.pwd = users[t.sub].pwd
    BY <1>1, <1>6 DEF Revoked, Exists, ClaimSound
  <2>3. SessionOf(t) = [sub |-> t.sub, pwd |-> CurrentPasswords[t.sub], claims |-> c]
    BY <2>2 DEF SessionOf, CurrentPasswords
  <2>4. c \in [ver : Versions, role : Roles]
    BY <1>1 DEF Token
  <2>5. Sessions!SignIn(t.sub, c)
    BY <1>4, <2>1, <2>2, <2>3 DEF Sessions!SignIn, CurrentPasswords
  <2> QED
    BY <2>4, <2>5
<1> QED
  BY <1>5, <1>6

LEMMA ExpiryEndsSession ==
    ASSUME IInv, NEW t \in tokens, Expire(t)
    PROVE  (\E s \in LiveSessions : Sessions!Expire(s)) \/ UNCHANGED Sessions!vars
<1>1. users' = users /\ tokens' = tokens \ {t}
  BY DEF Expire
<1>2. \A u : Revoked(u)' <=> Revoked(u)
  BY <1>1 DEF Revoked, Exists
<1>3. CurrentPasswords' = CurrentPasswords /\ LockedOut' = LockedOut
  BY <1>1 DEF CurrentPasswords, LockedOut
<1>4. CASE Revoked(t)
  <2>1. LiveSessions' = LiveSessions
    BY <1>1, <1>2, <1>4 DEF LiveSessions
  <2> QED
    BY <1>3, <2>1 DEF Sessions!vars
<1>5. CASE ~Revoked(t)
  <2>1. SessionOf(t) \in LiveSessions
    BY <1>5 DEF LiveSessions
  <2>2. \A u \in tokens : SessionOf(u) = SessionOf(t) => u = t
    BY SessionsDistinct, TokensOfIssued
  <2>3. LiveSessions' = LiveSessions \ {SessionOf(t)}
    BY <1>1, <1>2, <2>2 DEF LiveSessions
  <2>4. Sessions!Expire(SessionOf(t))
    BY <1>3, <2>1, <2>3 DEF Sessions!Expire
  <2> QED
    BY <2>1, <2>4
<1> QED
  BY <1>4, <1>5

-----------------------------------------------------------------------------
(* Updates, suspension, removal *)

(* A new password ends every session of the account, and no other. *)
LEMMA NewPasswordEndsSessions ==
    ASSUME IInv, NEW id \in DOMAIN users, NEW doc \in UserDoc,
           users' = [users EXCEPT ![id] = doc], tokens' = tokens,
           doc.ver = users[id].ver + 1, doc.deleted = users[id].deleted, ~users[id].deleted
    PROVE  Sessions!ChangePassword(id, doc.pwd)
<1>1. CurrentPasswords' = [CurrentPasswords EXCEPT ![id] = doc.pwd]
  BY DEF CurrentPasswords
<1>2. LockedOut' = LockedOut
  BY DEF LockedOut
<1>3. users[id] \in UserDoc /\ users[id].ver \in Nat
  BY VersionsAreNat DEF IInv, TypeOK, UserDoc
<1>4. \A t \in tokens : t.sub = id => Revoked(t)'
  <2> SUFFICES ASSUME NEW t \in tokens, t.sub = id
               PROVE  t.ver # users'[id].ver
    BY DEF Revoked, Exists
  <2>1. ClaimSound(t, issuedIds, users) /\ t \in Token
    BY DEF IInv, ClaimsSound, TypeOK
  <2>2. t.ver <= users[id].ver /\ t.ver \in Nat
    BY <2>1, VersionsAreNat DEF ClaimSound, Token
  <2> QED
    BY <1>3, <2>2
<1>5. \A t \in tokens : t.sub # id => (Revoked(t)' <=> Revoked(t))
  BY DEF Revoked, Exists
<1>6. LiveSessions' = LiveSessions \ {s \in LiveSessions : s.sub = id}
  BY <1>4, <1>5 DEF LiveSessions, SessionOf
<1>7. id \in DOMAIN CurrentPasswords \ LockedOut
  BY DEF CurrentPasswords, LockedOut
<1> QED
  BY <1>1, <1>2, <1>6, <1>7 DEF Sessions!ChangePassword, Sessions!SessionsOf

(* Any other update leaves the table alone. *)
LEMMA SameVersionSameTable ==
    ASSUME IInv, NEW id \in DOMAIN users, NEW doc \in UserDoc,
           users' = [users EXCEPT ![id] = doc], tokens' = tokens,
           doc.ver = users[id].ver, doc.pwd = users[id].pwd
    PROVE  CurrentPasswords' = CurrentPasswords /\ LiveSessions' = LiveSessions
<1>1. CurrentPasswords' = CurrentPasswords
  BY DEF CurrentPasswords
<1>2. \A t \in tokens : Revoked(t)' <=> Revoked(t)
  BY DEF Revoked, Exists
<1> QED
  BY <1>1, <1>2, SessionsSame

LEMMA UpdateMaps ==
    ASSUME IInv, NEW r \in Requests, NEW id \in issuedIds, NEW changed \in (SUBSET Fields) \ {{}},
           NEW e \in Emails, NEW p \in Passwords, NEW role \in Roles,
           UpdateUser(r, id, changed, e, p, role)
    PROVE  Sessions!ChangePassword(id, p) \/ UNCHANGED Sessions!vars
<1> DEFINE doc == Updated(users[id], changed, e, p, role)
<1>1. tokens' = tokens
  BY DEF UpdateUser
<1>2. CASE users' = users
  BY <1>1, <1>2, DocsSame
<1>3. CASE Alive(id) /\ users' = [users EXCEPT ![id] = doc] /\ NextVersion(users[id], changed) <= MaxVersion
  <2>1. id \in DOMAIN users /\ ~users[id].deleted /\ users[id] \in UserDoc
    BY <1>3 DEF Alive, Exists, IInv, TypeOK
  <2>2. doc \in UserDoc
    BY <1>3, <2>1, UpdatedIsDoc
  <2>3. doc.deleted = users[id].deleted
    BY <2>1 DEF Updated, UserDoc
  <2>4. CASE "password" \in changed
    <3>1. doc.ver = users[id].ver + 1 /\ doc.pwd = p
      BY <2>1, <2>4 DEF Updated, NextVersion, UserDoc
    <3> QED
      BY <1>1, <1>3, <2>1, <2>2, <2>3, <3>1, NewPasswordEndsSessions
  <2>5. CASE "password" \notin changed
    <3>1. doc.ver = users[id].ver /\ doc.pwd = users[id].pwd
      BY <2>1, <2>5 DEF Updated, NextVersion, UserDoc
    <3>2. CurrentPasswords' = CurrentPasswords /\ LiveSessions' = LiveSessions
      BY <1>1, <1>3, <2>1, <2>2, <3>1, SameVersionSameTable
    <3>3. LockedOut' = LockedOut
      BY <1>3, <2>1, <2>3 DEF LockedOut
    <3> QED
      BY <3>2, <3>3 DEF Sessions!vars
  <2> QED
    BY <2>4, <2>5
<1> QED
  BY <1>2, <1>3 DEF UpdateUser

LEMMA SoftDeleteSuspends ==
    ASSUME IInv, NEW r \in Requests, NEW id \in issuedIds, SoftDeleteUser(r, id)
    PROVE  Sessions!Suspend(id) \/ UNCHANGED Sessions!vars
<1>1. tokens' = tokens
  BY DEF SoftDeleteUser
<1>2. CASE users' = users
  BY <1>1, <1>2, DocsSame
<1>3. CASE Alive(id) /\ users' = [users EXCEPT ![id].deleted = TRUE]
  <2> DEFINE doc == [users[id] EXCEPT !.deleted = TRUE]
  <2>1. id \in DOMAIN users /\ ~users[id].deleted /\ users[id] \in UserDoc
    BY <1>3 DEF Alive, Exists, IInv, TypeOK
  <2>2. /\ doc \in UserDoc /\ doc.deleted = TRUE
        /\ doc.ver = users[id].ver /\ doc.pwd = users[id].pwd
    BY <2>1 DEF UserDoc
  <2>3. users' = [users EXCEPT ![id] = doc]
    BY <1>3
  <2> HIDE DEF doc
  <2>4. CurrentPasswords' = CurrentPasswords /\ LiveSessions' = LiveSessions
    BY <1>1, <2>1, <2>2, <2>3, SameVersionSameTable
  <2>5. LockedOut' = LockedOut \cup {id}
    BY <2>1, <2>2, <2>3 DEF LockedOut
  <2> QED
    BY <2>1, <2>4, <2>5 DEF Sessions!Suspend, CurrentPasswords, LockedOut
<1> QED
  BY <1>2, <1>3 DEF SoftDeleteUser

LEMMA RestoreResumes ==
    ASSUME IInv, NEW r \in Requests, NEW id \in issuedIds, RestoreUser(r, id)
    PROVE  Sessions!Resume(id) \/ UNCHANGED Sessions!vars
<1>1. tokens' = tokens
  BY DEF RestoreUser
<1>2. CASE users' = users
  BY <1>1, <1>2, DocsSame
<1>3. CASE Exists(id) /\ users[id].deleted /\ users' = [users EXCEPT ![id] = Restored(users[id])]
  <2> DEFINE doc == Restored(users[id])
  <2>1. id \in DOMAIN users /\ users[id] \in UserDoc
    BY <1>3 DEF Exists, IInv, TypeOK
  <2>2. /\ doc \in UserDoc /\ doc.deleted = FALSE
        /\ doc.ver = users[id].ver /\ doc.pwd = users[id].pwd
    BY <2>1 DEF UserDoc, Restored
  <2>3. CurrentPasswords' = CurrentPasswords /\ LiveSessions' = LiveSessions
    BY <1>1, <1>3, <2>1, <2>2, SameVersionSameTable
  <2>4. LockedOut' = LockedOut \ {id}
    BY <1>3, <2>1, <2>2 DEF LockedOut
  <2> QED
    BY <1>3, <2>1, <2>3, <2>4 DEF Sessions!Resume, LockedOut
<1> QED
  BY <1>2, <1>3 DEF RestoreUser

LEMMA PurgeRemoves ==
    ASSUME IInv, NEW r \in Requests, NEW id \in issuedIds, PurgeUser(r, id)
    PROVE  Sessions!Remove(id) \/ UNCHANGED Sessions!vars
<1>1. tokens' = tokens /\ users' = [i \in DOMAIN users \ {id} |-> users[i]]
  BY DEF PurgeUser
<1>2. CASE id \notin DOMAIN users
  <2>1. users' = users
    BY <1>1, <1>2 DEF IInv, TypeOK
  <2> QED
    BY <1>1, <2>1, DocsSame
<1>3. CASE id \in DOMAIN users
  <2>1. CurrentPasswords' = [b \in DOMAIN CurrentPasswords \ {id} |-> CurrentPasswords[b]]
    BY <1>1 DEF CurrentPasswords
  <2>2. LockedOut' = LockedOut \ {id}
    BY <1>1 DEF LockedOut
  <2>3. \A t \in tokens : /\ t.sub = id => Revoked(t)'
                          /\ t.sub # id => (Revoked(t)' <=> Revoked(t))
    BY <1>1 DEF Revoked, Exists
  <2>4. LiveSessions' = LiveSessions \ {s \in LiveSessions : s.sub = id}
    BY <1>1, <2>3 DEF LiveSessions, SessionOf
  <2> QED
    BY <1>3, <2>1, <2>2, <2>4 DEF Sessions!Remove, Sessions!SessionsOf, CurrentPasswords
<1> QED
  BY <1>2, <1>3

-----------------------------------------------------------------------------
(* The refinement *)

LEMMA InitialTable == Init => Sessions!Init
<1> SUFFICES ASSUME Init PROVE Sessions!Init
  OBVIOUS
<1>1. DOMAIN users = {} /\ tokens = {}
  BY DEF Init
<1>2. CurrentPasswords = [a \in {} |-> a] /\ LockedOut = {} /\ LiveSessions = {}
  BY <1>1 DEF CurrentPasswords, LockedOut, LiveSessions
<1> QED
  BY <1>2 DEF Sessions!Init

LEMMA StepsMap ==
    ASSUME IInv, [Next]_vars
    PROVE  [Sessions!Next]_(Sessions!vars)
<1> USE DEF IInv, TypeOK
<1>1. ASSUME NEW r \in Requests, NEW e \in Emails, NEW p \in Passwords, NEW id \in UserIds,
             Register(r, id, e, p)
      PROVE  Sessions!Next
  BY <1>1, CreateEnrols DEF Register, Roles, Sessions!Next
<1>2. ASSUME NEW e \in Emails, NEW p \in Passwords, NEW id \in UserIds, NEW role \in Roles,
             RegisterCommand(id, e, p, role)
      PROVE  Sessions!Next
  BY <1>2, CreateEnrols DEF RegisterCommand, Sessions!Next
<1>3. ASSUME NEW r \in Requests, IssueToken(r)
      PROVE  [Sessions!Next]_(Sessions!vars)
  <2>1. req[r].claims.sub \in UserIds
    BY <1>3, RequestForms DEF IssueToken, Token
  <2> QED
    BY <1>3, <2>1, IssueSignsIn DEF Sessions!Next
<1>4. ASSUME NEW t \in tokens, Expire(t)
      PROVE  [Sessions!Next]_(Sessions!vars)
  BY <1>4, ExpiryEndsSession DEF Sessions!Next
<1>5. ASSUME NEW r \in Requests, NEW id \in issuedIds, NEW changed \in (SUBSET Fields) \ {{}},
             NEW e \in Emails, NEW p \in Passwords, NEW role \in Roles,
             UpdateUser(r, id, changed, e, p, role)
      PROVE  [Sessions!Next]_(Sessions!vars)
  BY <1>5, UpdateMaps DEF Sessions!Next
<1>6. ASSUME NEW r \in Requests, NEW id \in issuedIds, SoftDeleteUser(r, id)
      PROVE  [Sessions!Next]_(Sessions!vars)
  BY <1>6, SoftDeleteSuspends DEF Sessions!Next
<1>7. ASSUME NEW r \in Requests, NEW id \in issuedIds, RestoreUser(r, id)
      PROVE  [Sessions!Next]_(Sessions!vars)
  BY <1>7, RestoreResumes DEF Sessions!Next
<1>8. ASSUME NEW r \in Requests, NEW id \in issuedIds, PurgeUser(r, id)
      PROVE  [Sessions!Next]_(Sessions!vars)
  BY <1>8, PurgeRemoves DEF Sessions!Next
<1>9. CASE UNCHANGED <<users, tokens>>
  BY <1>9, DocsSame
<1> QED
  BY <1>1, <1>2, <1>3, <1>4, <1>5, <1>6, <1>7, <1>8, <1>9
     DEF Next, SignUpOrIn, EnterRoute, Act, Login, Enter, EnterCommand, RestoreLookup, Return, vars

(* gocha's stateless tokens implement the session table: no interleaving   *)
(* of registrations, logins, updates, deletions and restores lets a token  *)
(* in that a server-side table would have dropped, or drops one it keeps.  *)
THEOREM TokensImplementSessions == Spec => ImplementsSessionTable
<1>1. IInv /\ [Next]_vars => [Sessions!Next]_(Sessions!vars)
  BY StepsMap
<1> QED
  BY <1>1, InitialTable, InvariantHolds, PTL DEF Spec, ImplementsSessionTable, Sessions!Spec

-----------------------------------------------------------------------------
(* The collection implements Directory *)

(* What the directory shows of a collection with one document replaced. *)
LEMMA DocReplaced ==
    ASSUME TypeOK, NEW id \in DOMAIN users, NEW doc \in UserDoc,
           users' = [users EXCEPT ![id] = doc]
    PROVE  /\ AliveIds' = IF doc.deleted THEN AliveIds \ {id} ELSE AliveIds \cup {id}
           /\ Administrators' = IF doc.role = "admin" THEN Administrators \cup {id}
                                                     ELSE Administrators \ {id}
  BY DEF TypeOK, UserDoc, AliveIds, LockedOut, Administrators

(* ... and of one that has not changed. *)
LEMMA DirectorySame ==
    ASSUME users' = users, issuedIds' = issuedIds
    PROVE  UNCHANGED People!vars
  BY DEF People!vars, AliveIds, LockedOut, Administrators

LEMMA CreateRegisters ==
    ASSUME TypeOK, NEW id \in UserIds, NEW e, NEW p, NEW role, CreateUser(id, NewDoc(e, p, role))
    PROVE  People!Register(id)
<1> DEFINE doc == NewDoc(e, p, role)
<1>1. ~doc.deleted /\ doc.role = role
  BY DEF NewDoc
<1>2. /\ id \notin issuedIds /\ id \notin DOMAIN users
      /\ issuedIds' = issuedIds \cup {id}
      /\ users' = [i \in DOMAIN users \cup {id} |-> IF i = id THEN doc ELSE users[i]]
  BY DEF CreateUser, TypeOK
<1> HIDE DEF doc
<1>3. AliveIds' = AliveIds \cup {id}
  BY <1>1, <1>2 DEF AliveIds, LockedOut
<1>4. Administrators' \in {Administrators, Administrators \cup {id}}
  <2>1. CASE role = "admin"
    BY <1>1, <1>2, <2>1 DEF Administrators
  <2>2. CASE role # "admin"
    BY <1>1, <1>2, <2>2 DEF Administrators
  <2> QED
    BY <2>1, <2>2
<1> QED
  BY <1>2, <1>3, <1>4 DEF People!Register

(* Only alive accounts are updated, so a role never changes in the dark. *)
LEMMA UpdateChangesRole ==
    ASSUME TypeOK, NEW r \in Requests, NEW id \in issuedIds,
           NEW changed \in (SUBSET Fields) \ {{}}, NEW e \in Emails, NEW p \in Passwords,
           NEW role \in Roles, UpdateUser(r, id, changed, e, p, role)
    PROVE  People!ChangeRole(id) \/ UNCHANGED People!vars
<1> DEFINE doc == Updated(users[id], changed, e, p, role)
<1>1. issuedIds' = issuedIds
  BY DEF UpdateUser
<1>2. CASE users' = users
  BY <1>1, <1>2, DirectorySame
<1>3. CASE /\ Alive(id) /\ NextVersion(users[id], changed) <= MaxVersion
           /\ users' = [users EXCEPT ![id] = doc]
  <2>1. id \in DOMAIN users /\ ~users[id].deleted /\ users[id] \in UserDoc /\ id \in AliveIds
    BY <1>3 DEF Alive, Exists, TypeOK, AliveIds, LockedOut
  <2>2. doc \in UserDoc
    BY <1>3, <2>1, UpdatedIsDoc
  <2>3. ~doc.deleted
    BY <2>1 DEF Updated, UserDoc
  <2> HIDE DEF doc
  <2>4. /\ AliveIds' = AliveIds
        /\ Administrators' \in {Administrators \cup {id}, Administrators \ {id}}
    <3>1. users' = [users EXCEPT ![id] = doc]
      BY <1>3 DEF doc
    <3>2. /\ AliveIds' = IF doc.deleted THEN AliveIds \ {id} ELSE AliveIds \cup {id}
          /\ Administrators' = IF doc.role = "admin" THEN Administrators \cup {id}
                                                    ELSE Administrators \ {id}
      BY <2>1, <2>2, <3>1, DocReplaced
    <3> QED
      BY <2>1, <2>3, <3>2
  <2>5. CASE Administrators' = Administrators
    BY <1>1, <2>4, <2>5 DEF People!vars
  <2>6. CASE Administrators' # Administrators
    <3>1. Administrators' = IF id \in Administrators THEN Administrators \ {id}
                                                      ELSE Administrators \cup {id}
      BY <2>4, <2>6
    <3> QED
      BY <1>1, <2>1, <2>4, <3>1 DEF People!ChangeRole
  <2> QED
    BY <2>5, <2>6
<1> QED
  BY <1>2, <1>3 DEF UpdateUser

LEMMA SoftDeleteHides ==
    ASSUME TypeOK, NEW r \in Requests, NEW id \in issuedIds, SoftDeleteUser(r, id)
    PROVE  People!SoftDelete(id) \/ UNCHANGED People!vars
<1>1. issuedIds' = issuedIds
  BY DEF SoftDeleteUser
<1>2. CASE users' = users
  BY <1>1, <1>2, DirectorySame
<1>3. CASE Alive(id) /\ users' = [users EXCEPT ![id].deleted = TRUE]
  <2> DEFINE doc == [users[id] EXCEPT !.deleted = TRUE]
  <2>1. id \in DOMAIN users /\ users[id] \in UserDoc /\ id \in AliveIds
    BY <1>3 DEF Alive, Exists, TypeOK, AliveIds, LockedOut
  <2>2. doc \in UserDoc /\ doc.deleted /\ doc.role = users[id].role
    BY <2>1 DEF UserDoc
  <2>3. users' = [users EXCEPT ![id] = doc]
    BY <1>3
  <2> HIDE DEF doc
  <2>4. AliveIds' = AliveIds \ {id} /\ Administrators' = Administrators
    BY <2>1, <2>2, <2>3, DocReplaced DEF Administrators
  <2> QED
    BY <1>1, <2>1, <2>4 DEF People!SoftDelete
<1> QED
  BY <1>2, <1>3 DEF SoftDeleteUser

LEMMA RestoreShows ==
    ASSUME TypeOK, NEW r \in Requests, NEW id \in issuedIds, RestoreUser(r, id)
    PROVE  People!Restore(id) \/ UNCHANGED People!vars
<1>1. issuedIds' = issuedIds
  BY DEF RestoreUser
<1>2. CASE users' = users
  BY <1>1, <1>2, DirectorySame
<1>3. CASE /\ Exists(id) /\ users[id].deleted
           /\ users' = [users EXCEPT ![id] = Restored(users[id])]
  <2> DEFINE doc == Restored(users[id])
  <2>1. id \in DOMAIN users /\ users[id] \in UserDoc /\ id \notin AliveIds
    BY <1>3 DEF Exists, TypeOK, AliveIds, LockedOut
  <2>2. doc \in UserDoc /\ ~doc.deleted /\ doc.role = users[id].role
    BY <2>1 DEF UserDoc, Restored
  <2> HIDE DEF doc
  <2>3. AliveIds' = AliveIds \cup {id} /\ Administrators' = Administrators
    BY <1>3, <2>1, <2>2, DocReplaced DEF Administrators, doc
  <2> QED
    BY <1>1, <2>1, <2>3 DEF People!Restore
<1> QED
  BY <1>2, <1>3 DEF RestoreUser

LEMMA PurgePurges ==
    ASSUME TypeOK, NEW r \in Requests, NEW id \in issuedIds, PurgeUser(r, id)
    PROVE  People!Purge(id)
<1>1. issuedIds' = issuedIds /\ users' = [i \in DOMAIN users \ {id} |-> users[i]]
  BY DEF PurgeUser
<1>2. AliveIds' = AliveIds \ {id} /\ Administrators' = Administrators \ {id}
  BY <1>1 DEF AliveIds, LockedOut, Administrators
<1> QED
  BY <1>1, <1>2 DEF People!Purge

LEMMA InitialDirectory == Init => People!Init
  BY DEF Init, People!Init, AliveIds, LockedOut, Administrators

LEMMA StepsAreOfDirectory ==
    ASSUME TypeOK, [Next]_vars
    PROVE  [People!Next]_(People!vars)
<1> USE DEF TypeOK, People!Next
<1>1. ASSUME NEW r \in Requests, NEW e \in Emails, NEW p \in Passwords, NEW id \in UserIds,
             Register(r, id, e, p)
      PROVE  People!Next
  BY <1>1, CreateRegisters DEF Register
<1>2. ASSUME NEW e \in Emails, NEW p \in Passwords, NEW id \in UserIds, NEW role \in Roles,
             RegisterCommand(id, e, p, role)
      PROVE  People!Next
  BY <1>2, CreateRegisters DEF RegisterCommand
<1>3. ASSUME NEW r \in Requests, NEW id \in issuedIds, NEW changed \in (SUBSET Fields) \ {{}},
             NEW e \in Emails, NEW p \in Passwords, NEW role \in Roles,
             UpdateUser(r, id, changed, e, p, role)
      PROVE  [People!Next]_(People!vars)
  BY <1>3, UpdateChangesRole
<1>4. ASSUME NEW r \in Requests, NEW id \in issuedIds, SoftDeleteUser(r, id)
      PROVE  [People!Next]_(People!vars)
  BY <1>4, SoftDeleteHides
<1>5. ASSUME NEW r \in Requests, NEW id \in issuedIds, RestoreUser(r, id)
      PROVE  [People!Next]_(People!vars)
  BY <1>5, RestoreShows
<1>6. ASSUME NEW r \in Requests, NEW id \in issuedIds, PurgeUser(r, id)
      PROVE  People!Next
  BY <1>6, PurgePurges
<1>7. CASE UNCHANGED <<users, issuedIds>>
  BY <1>7, DirectorySame
<1> QED
  BY <1>1, <1>2, <1>3, <1>4, <1>5, <1>6, <1>7
     DEF Next, SignUpOrIn, EnterRoute, Act, Login, IssueToken, Expire, Enter, EnterCommand,
         RestoreLookup, Return, vars

(* The users collection is the environment module Chats is proved in: what *)
(* holds of the chats among the users of Directory holds of them among the *)
(* users of gocha (Storage.CreateUser, UpdateUser, SoftDeleteUser,         *)
(* RestoreUser, DeleteUser).                                               *)
THEOREM AccountsImplementDirectory == Spec => ImplementsDirectory
<1>1. TypeOK /\ [Next]_vars => [People!Next]_(People!vars)
  BY StepsAreOfDirectory
<1> QED
  BY <1>1, InitialDirectory, TypeCorrect, PTL DEF Spec, ImplementsDirectory, People!Spec

-----------------------------------------------------------------------------
(* The chats over the collection *)

(* The server with both: its account routes and its chat routes, which let *)
(* in the bearers of tokens and see of the collection what the directory   *)
(* shows.                                                                  *)
CONSTANTS ChatIds, ChatRequests, MaxMessages

VARIABLES chats, closed, messages, chatReq

Talk == INSTANCE Chats_proofs WITH
    issued     <- issuedIds,
    alive      <- AliveIds,
    admins     <- Administrators,
    req        <- chatReq,
    Requests   <- ChatRequests,
    MaxAdmins  <- Cardinality(UserIds),
    MaxDeleted <- Cardinality(UserIds)

chatVars == <<chats, closed, messages, chatReq>>

ServerInit ==
    /\ Init
    /\ chats = Talk!NoDocuments /\ closed = Talk!NoDocuments /\ messages = {}
    /\ chatReq = [r \in ChatRequests |-> Talk!Idle]

(* Auth in front of the chat routes is the one in front of the others. *)
Authenticated(r) ==
    chatReq[r] = Talk!Idle =>
        \E t \in tokens : Accepts(t) /\ chatReq'[r].caller = t.sub

ServerNext ==
    \/ Next /\ UNCHANGED chatVars
    \/ UNCHANGED vars /\ \E r \in ChatRequests : Talk!Handle(r) /\ Authenticated(r)

ServerSpec == ServerInit /\ [][ServerNext]_<<vars, chatVars>>

(* The account routes of such a server are those of Accounts. *)
LEMMA ServersRunAccounts == ServerSpec => Spec
<1>1. ServerInit => Init
  BY DEF ServerInit
<1>2. [ServerNext]_<<vars, chatVars>> => [Next]_vars
  BY DEF ServerNext
<1> QED
  BY <1>1, <1>2, PTL DEF ServerSpec, Spec

LEMMA ServerStepsAreOfChats ==
    ASSUME IsFiniteSet(UserIds), TypeOK, TypeOK', [ServerNext]_<<vars, chatVars>>
    PROVE  [Talk!Next]_(Talk!vars)
<1>1. CASE Next /\ UNCHANGED chatVars
  <2>1. CASE People!Next
    <3>1. /\ Cardinality(Administrators') <= Cardinality(UserIds)
          /\ Cardinality(issuedIds' \ AliveIds') <= Cardinality(UserIds)
      <4>1. Administrators' \in SUBSET UserIds /\ issuedIds' \ AliveIds' \in SUBSET UserIds
        BY DEF TypeOK, Administrators
      <4> QED
        BY <4>1, FS_Subset
    <3>2. Talk!Users!Next
      BY <2>1 DEF People!Next, People!Register, People!SoftDelete, People!Restore,
                  People!ChangeRole, People!Purge, Talk!Users!Next, Talk!Users!Register,
                  Talk!Users!SoftDelete, Talk!Users!Restore, Talk!Users!ChangeRole,
                  Talk!Users!Purge
    <3>3. /\ Talk!Cardinality(Administrators') = Cardinality(Administrators')
          /\ Talk!Cardinality(issuedIds' \ AliveIds') = Cardinality(issuedIds' \ AliveIds')
      BY DEF Talk!Cardinality, Cardinality
    <3> QED
      BY <1>1, <3>1, <3>2, <3>3 DEF Talk!Next, Talk!UserStep, chatVars
  <2>2. CASE UNCHANGED People!vars
    BY <1>1, <2>2 DEF People!vars, Talk!vars, chatVars
  <2> QED
    BY <1>1, <2>1, <2>2, StepsAreOfDirectory
<1>2. CASE \E r \in ChatRequests : Talk!Handle(r)
  BY <1>2 DEF Talk!Next
<1>3. CASE UNCHANGED <<vars, chatVars>>
  BY <1>3, DirectorySame DEF vars, chatVars, People!vars, Talk!vars
<1> QED
  BY <1>1, <1>2, <1>3 DEF ServerNext

(* The chats of a server whose users are those of Accounts behave as Chats *)
(* says, so what is proved of Chats in the users of Directory holds of     *)
(* them.                                                                   *)
THEOREM ServersRunChats ==
    ASSUME IsFiniteSet(UserIds)
    PROVE  ServerSpec => Talk!Spec
<1>1. ServerInit => Talk!Init
  BY InitialDirectory DEF ServerInit, Talk!Init, Talk!Users!Init, People!Init
<1>2. TypeOK /\ TypeOK' /\ [ServerNext]_<<vars, chatVars>> => [Talk!Next]_(Talk!vars)
  BY ServerStepsAreOfChats
<1> QED
  BY <1>1, <1>2, ServersRunAccounts, TypeCorrect, PTL DEF ServerSpec, Talk!Spec

(* In a group of a real server only its participants write and read, and   *)
(* the participants of every chat have or had an account, whatever the     *)
(* account routes and gochactrl do to the accounts between the check and   *)
(* the write (chatForRequest, Storage.CountExisting, DeleteUser).          *)
THEOREM ServersKeepGroupsPrivate ==
    ASSUME IsFiniteSet(UserIds)
    PROVE  ServerSpec => [](Talk!GroupsArePrivate /\ Talk!RostersSound)
  BY ServersRunChats, Talk!GroupsStayPrivate, Talk!RostersAreSound, PTL

(* With the real users collection under them, the chat handlers implement  *)
(* operations that happen at once (Handler.Create, AddParticipants,        *)
(* SendMessage).                                                           *)
THEOREM ServersServeRooms ==
    ASSUME IsFiniteSet(UserIds)
    PROVE  ServerSpec => Talk!ImplementsChatRooms
  BY ServersRunChats, Talk!HandlersImplementRooms, PTL

(* Whoever is let in to a chat route has an alive account and a token that *)
(* was obtained with the password the account has at that moment           *)
(* (Handler.authenticate, setupRouter).                                    *)
ChatsNeedThePassword ==
    [][\A r \in ChatRequests :
          chatReq[r] = Talk!Idle /\ chatReq'[r] # Talk!Idle =>
              \E t \in tokens : /\ chatReq'[r].caller = t.sub
                              /\ Alive(t.sub)
                              /\ t.pwd = users[t.sub].pwd]_<<vars, chatVars>>

LEMMA EntriesAreAuthenticated ==
    ASSUME NEW r \in ChatRequests, [ServerNext]_<<vars, chatVars>>,
           chatReq \in [ChatRequests -> Talk!Request],
           chatReq[r] = Talk!Idle, chatReq'[r] # Talk!Idle
    PROVE  \E t \in tokens : Accepts(t) /\ chatReq'[r].caller = t.sub
<1>1. PICK q \in ChatRequests : Talk!Handle(q) /\ Authenticated(q)
  BY DEF ServerNext, chatVars
<1>2. q # r => chatReq'[r] = chatReq[r]
  BY <1>1 DEF Talk!Handle, Talk!Enter, Talk!Refuse, Talk!CheckParticipants, Talk!InsertChat,
              Talk!LoadForAdd, Talk!CheckInvited, Talk!AddParticipants, Talk!DeleteChat,
              Talk!LoadForSend, Talk!LoadForList, Talk!ChatForRequest, Talk!CreateMessage,
              Talk!MessagesByChat, Talk!Set
<1> QED
  BY <1>1, <1>2 DEF Authenticated

(* The two halves of the server together: what is proved of the tokens     *)
(* holds of everybody the chats deal with.                                 *)
THEOREM ChatsAreForPasswordHolders ==
    ASSUME IsFiniteSet(UserIds)
    PROVE  ServerSpec => ChatsNeedThePassword
<1> DEFINE Proved(r) == \E t \in tokens : /\ chatReq'[r].caller = t.sub
                                         /\ Alive(t.sub)
                                         /\ t.pwd = users[t.sub].pwd
           Step == \A r \in ChatRequests :
                      chatReq[r] = Talk!Idle /\ chatReq'[r] # Talk!Idle => Proved(r)
<1>1. Talk!TypeOK /\ TokenProvesPassword /\ [ServerNext]_<<vars, chatVars>> => Step
  <2> SUFFICES ASSUME Talk!TypeOK, TokenProvesPassword, [ServerNext]_<<vars, chatVars>>,
                      NEW r \in ChatRequests, chatReq[r] = Talk!Idle, chatReq'[r] # Talk!Idle
               PROVE  Proved(r)
    OBVIOUS
  <2>1. chatReq \in [ChatRequests -> Talk!Request]
    BY DEF Talk!TypeOK
  <2>2. PICK t \in tokens : Accepts(t) /\ chatReq'[r].caller = t.sub
    BY <2>1, EntriesAreAuthenticated
  <2> QED
    BY <2>2 DEF TokenProvesPassword, Accepts
<1> QED
  BY <1>1, ServersRunAccounts, ServersRunChats, TokensProvePasswords, Talk!TypeCorrect, PTL
     DEF ServerSpec, ChatsNeedThePassword

=============================================================================
