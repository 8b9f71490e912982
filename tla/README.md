# Formal models of gocha

TLA+ specifications of the gocha chat server (`internal/`, `main.go`, `cmd/gochactrl`, `pkg/ethora`)
and of its web client (`web/src`), the TLC configurations that check them on small instances, and
TLAPS proofs of their main properties for every value of the constants.

## The system

Components, the state each keeps, what it does, and what makes it correct.

| Component | State | Operations | Correct when |
|---|---|---|---|
| Accounts and authentication (`internal/users`) | the users collection (email, password hash, role, token version, deleted or not); signed tokens in clients' hands | register, login, Auth and RequirePermission, update, soft delete, restore, gochactrl register/delete/restore | no token outlives the password it was obtained with; a stale role opens nothing; emails stay unique; a restore's error is true; accounts come and go as the chats expect |
| Permission registry (`internal/permissions`) | none | `Has` | it is the one table everything asks |
| Chats and messages (`internal/chats`) | chats (type, roster, creator), messages | create, add participants, delete, send, list | rosters sound, grown by their owners only; groups private; deletion final; nobody can tell that a handler checks first and writes later |
| Provisioning (`internal/users/service.go`, `storage.go`) | one account in three places: document, XMPP credentials, mirrored account | Register, EnsureSystemUser, InitSystemUser, HardDeleteUser, DeleteAllUsers | one system account, restored by a later start and spared by delete-all; no mirror gone before its account; nothing left of what was purged |
| Ethora mirror (`internal/mirror`, `pkg/ethora`) | none of its own; the platform's accounts | MirrorUser, DeleteUser, DeleteUsers (a batch, then one by one) | what is not reported as failed is gone |
| Server process (`main.go`, `internal/xmppclient`) | listener, database client, XMPP connection of the system account | start, serve, shut down, reconnect | it serves with its system account in place, stops when told and takes the database from no request before its time |
| gochactrl (`cmd/gochactrl`) | none | the commands, on the same storage, while servers run | as for accounts and provisioning |
| Web: session (`stores/auth.ts`, `api/client.ts`, `router`, `main.ts`, `App.vue`) | token in localStorage and in the store, user, XMPP credentials, current route | sign in, log out, `/me`, guard, 401 interceptor, reload | store and storage agree; guarded pages need a session; a 401 ends at login |
| Web: chat page (`ChatView.vue`) | messages shown, offset, refresh timer | load, load older, send, refresh | what is shown is the chat's, each message once |
| Web: XMPP (`stores/xmpp.ts`) | the connection and its last status | connect, disconnect, events | logout reaches every connection; a green dot is the current one's |
| Web: user administration (`UsersView.vue`) | one page of users, the edit form, the last deleted id | page, edit, save, delete, restore | only what was typed is sent, to whom it was typed for; one save at a time; the buttons come back |
| Web: chat list (`stores/chats.ts`, `ChatsView.vue`) | a list in each tab, one in localStorage | create, open, forget, delete | what was put on it stays until it is taken off, unless a stale tab writes over it |
| Configuration, CORS, validation, test support | none that changes | pure functions of their input | unit tests cover them |

**How they interact.** Handlers call the storage; each storage call is one MongoDB operation, atomic
for one document and for nothing more. There are no transactions and no locks: a handler reads,
decides, and writes while other handlers, other servers and gochactrl do the same.
Registration and deletion also call the chat platform over HTTP, with failures logged and forgotten.
The web client talks to the server only; its components share the auth store, localStorage, the
router and one axios instance with interceptors, and every `await` lets other events in.

**What is hard.** Checks made before the write they protect (existence of participants, access to a
group, the caller's role); stateless tokens that must be revocable, with soft deletion undoing and
password changes not; one account in three stores without a transaction, with crashes, timeouts and
lost answers between them; servers starting at once; delete-all against a starting server; answers
that reach the web client after it has moved on; a start and a stop with deadlines, around requests
that have deadlines of their own; tabs that share localStorage. PROJECT.json lists these as hazards, each with its
line and the properties that cover it.

## Modules

| Module | Models | Notes |
|---|---|---|
| `Permissions` | `permissions.go` | roles, permissions, `Has`; extended by Accounts and Chats |
| `Accounts` | `internal/users`, the user routes, gochactrl on accounts | shown to implement SessionTable and Directory |
| `SessionTable` | no code: what access tokens promise | abstract: sessions end when the password changes or the account goes |
| `Directory` | what the chats ask of the users collection: who has registered, who is alive, who is an administrator | abstract; implemented by Accounts, the environment of Chats |
| `Chats` | `internal/chats` | its users change as Directory says; shown to implement ChatRooms |
| `ChatRooms` | no code: what the chat service promises | abstract: every operation is decided and done in one step |
| `Provisioning` | the three places of an account, the system account, the wipe | platform calls fail with or without effect; any process may stop anywhere |
| `EthoraMirror` | `internal/mirror/ethora.go` and the batch endpoint behind it | the platform is external |
| `ServerLifecycle` | `main.go`, `internal/xmppclient`: start, system account, XMPP goroutine, listener, stop | composes `Provisioning` (as `Store`) with servers, the requests they serve and gochactrl; shown to implement it |
| `WebSession` | the session of the web client | vue-router is external |
| `WebXmpp` | `stores/xmpp.ts` | any number of connections, most of them being stopped; @xmpp/client is external |
| `TabSession` | no code: what a tab does with its session | abstract: implemented by WebSession, which takes the connection for one value, and by WebXmpp, which takes the session as given |
| `ChatView` | the chat page's list, timer, loads and sending | the server is two actions that serve a request at any moment |
| `UserAdmin` | `UsersView.vue` and the calls it makes | other administrators change the same accounts |
| `ChatList` | `stores/chats.ts`, `ChatsView.vue` | any number of tabs over one localStorage, each with a copy of the list as it was when read |
| `Accounts_proofs`, `Chats_proofs`, `Provisioning_proofs`, `EthoraMirror_proofs`, `ServerLifecycle_proofs`, `WebSession_proofs`, `WebXmpp_proofs`, `WebPages_proofs` | theorems | see below |
| `MCAccounts`, `MCChats`, `MCProvisioning`, `MCEthoraMirror`, `MCServerLifecycle`, `MCUserAdmin` | symmetry sets and constants for TLC | |

**How a handler becomes actions.** In `Accounts` and `Chats` every request is a record
`[pc, ...]` in the function `req`: the step it is at and what it has read so far. One action is the
code from one database call up to the next; a check that fails is the action `Refuse` or `Return`.
`Login` reads the user and checks the password, `IssueToken` signs what was read then. `Enter` is
Auth and RequirePermission with their single read. In `Chats`, `CheckParticipants`/`InsertChat`,
`LoadForAdd`/`CheckInvited`/`AddParticipants` and `LoadForSend`/`CreateMessage` are the reads and
writes of one handler. The same goes for the processes (servers, HTTP registrations, gochactrl
commands) of `Provisioning`. In `WebSession` an action is one turn of the browser's event loop; in
`ChatView` a request is asked, served and delivered in three actions, so that messages arrive
between any two of them; in `UserAdmin` a call is an activation of a handler, from its first await
(`Execute` or `Fail` at the server) to the action that goes on with the answer.

A server in `ServerLifecycle` has a phase for each stretch of `main`: `ensuring` is
`EnsureSystemUser`, whose database and platform calls are the actions of `Provisioning`; `starting`
goes from `NotifyContext` to the listener's goroutine, `serving` is the select, `draining` is
`Shutdown`, `closing` the deferred `Disconnect`. `late` says that the deadline of the phase has
passed, `told` that the signal has come. `listener` and `xmpp` are the goroutines. A registration
over HTTP lives in the server that accepted it (`host`) and dies with it. gochactrl runs next to
the servers, without delete-all, which to a server is deletions and stays with `Provisioning`. The
configuration decides whether there is mirroring and whether there is a websocket to connect to.

Some state exists for the properties only and no guard reads it: `pwd` in a token (which password
was proved for it), `closed` in `Chats` (deleted chats as they were; its keys also say which ids
are used up), `erased` in `Provisioning`, `known` in `EthoraMirror`, `wasAlive` and, in its answer, `lookup` in a
restore, `typed` in `UserAdmin`; `known`, `behind` and `atRisk` in `ChatList`.

**Abstractions.** A password stands for its hash; names, texts, times and validation are left out;
a document id is never issued twice; in `Directory` a purged user may come back as a plain user, which
`Accounts` does not let happen and nothing in `Chats` needs to know; a `DeleteMany` over several
documents is one step; expiry may take a token at any moment.
The id of the system account follows from a flag on the document, since only its fixed email
tells it apart: an administrator who gives it another email (`PATCH /users/{id}`) is not modelled.
`WebSession` has one tab, cross-origin requests as `.env.development` sets them up (so the cookie
plays no part), and `/chats` pages behaving like home. `ChatView` orders messages by number,
so two with the same `created_at`, which MongoDB may order either way, are not modelled, and it
leaves out the panel for adding participants. In `WebXmpp` a stopped connection is assumed to close
and never to open again, and the websocket's address to be valid. `UserAdmin` keeps its page open:
what is in flight when it is left has nobody to come back to; confirmations and what is only shown
(notices, errors, the id of the Undo button) are left out, and so is the trimming of a display name.
`ChatList` keeps the ids of chats and not their names; a tab begins there when it first asks for the
list.

## Runs

| Run | Instance | Shows |
|---|---|---|
| `accounts` | 2 ids, 2 emails, 2 passwords, 2 requests, versions to 2, 1 token | type invariant, `TokenProvesPassword`, `EmailUnique`, `RestoreAnswersTrue`, `RevocationPermanent`, `NoStalePrivilege`, `ImplementsSessionTable`, `ImplementsDirectory` |
| `chats` | 3 users, at most 1 deleted at a time, 1 chat, 2 requests, 1 message, 1 administrator | type invariant, `RostersSound`, `GroupsArePrivate`, `ChatsOnlyAdvance`, `OnlyOwnersInvite`, `ImplementsChatRooms` |
| `provisioning` | 2 ids, 1 server, 2 clients | type invariant, `OneSystemAccount`, `SettledPurgeLeavesNothing`, `MirrorOutlivesAccount`, `SystemOutlivesWipe` |
| `server_lifecycle` | 2 ids, 1 server, 1 gochactrl, 1 registration over HTTP, 2 configurations, fair | type invariant, `DrainsBeforeDisconnect`, `StopsWhenTold`, `SystemComesBack`, `ImplementsProvisioning` |
| `mirror` | 3 ids, 2 deletions | type invariant, `UnreportedIsGone` |
| `web_session` | 2 users (1 administrator), 2 requests in flight, 1 revocation | type invariant, `StoreMatchesStorage`, `ProtectedNeedsSession`, `ImplementsTabSession` |
| `web_xmpp` | 2 users, 3 connections | type invariant, `NavbarShowsCurrent`, `ImplementsTabSession` |
| `chat_view` | 2 chats, pages of 2, 3 messages, 2 requests of the user, 1 switch, fair | type invariant, `ButtonsComeBack`, `RefreshHeals` |
| `user_admin` | 1 user with 1 field and a password, 2 calls, 2 pages, fair | `OnlyTypedIsSent`, `SavingIsOneSave`, `ButtonsComeBack` |
| `chat_list` | 2 tabs, 2 chats | `ListIsKept` |
| `web_bounce` | as `web_session` | violation: a 401 ends at home, not at login (`DroppedTokenLeadsToLogin`) |
| `system_offline` | as `server_lifecycle` | violation: the system account never connects (`SystemConnects`) |

**Why the bounds are enough.** The races are between two parties, so two requests (or two
clients and a server) meet in every order; a third would repeat what one of the two can do, since a
request that is done starts again as any other. Two accounts are needed for an email to be taken, two
passwords for one to be stale, versions up to 2 for a password that is changed and changed back. One token
suffices for properties of single tokens, because each one is compared with its account only. Three
users make a creator, an invited participant and an outsider; one of them may be deleted while a
request that has counted them is still to write. Three mirrored ids make batches that
are neither single nor everything. Three messages and pages of two give a full page, a partial one
and an overlap. Three connections are a current one and two that are still being stopped, for the
same user or another. The composition needs one server, because starters that meet are in
`provisioning` already, and one registration of each kind. A page of users needs a second one, full
or empty, and a handler another one to overlap with; one account is enough for a row that has become
old and for a form that is opened again before or while it is saved, which is all that two could show
of what a form sends. Two tabs and two chats are a tab that changes the list, a stale one that writes
over it, and a chat for each; without its exception `ListIsKept` fails in four steps.
The bounds `MaxVersion`, `MaxTokens`, `MaxMessages`, `MaxAdmins`, `MaxDeleted`, `MaxRevocations`, `MaxSwitches`,
`MaxInFlight`, `Slots` and `MaxOffset` are guards of the actions that would exceed them; the proofs hold
for every value of theirs.

Deadlock is checked in every run.
The symmetry sets permute constants no action tells apart, in runs of safety properties only.

**Fairness** is assumed in three modules.

- `ServerLifecycle`: a server that is down is started again by whoever supervises it, and what main
  waits for comes: weak fairness of `Boot`, `CreateSystem`, `GiveUp`, `ServeWithoutXmpp`, `Shutdown`,
  `Timeout`, `Drained` and `Exit`. All of them stay enabled until they are taken or the process is
  killed, the deadlines are timers, and calls to the platform end with the client's timeout. Strong
  fairness of `LookupSystem`, `RestoreSystem`, `ServeWithXmpp` and `Connect`: a kill, an expired
  budget or a failing read does not hit every start at the same place. Nothing is assumed of
  requests, signals, administrators, gochactrl or the platform's answers.
- `ChatView`: the interval timer ticks, and a request for the newest messages is served and its
  answer delivered, unless it fails; a failure stops the timer, and `RefreshHeals` speaks of pages
  whose timer runs. Nothing is assumed of older pages, of sending or of the user.
- `UserAdmin`: a request ends with an answer or an error, as the browser and the server's own 60 s
  timeout see to, and the handler that awaits it goes on. Nothing is assumed of the user.

## Findings

Two with runs of their own:

1. **A 401 does not end at login** (`web_bounce`). The interceptor clears localStorage and not the
   store, so the guard sends the bounce to home.
2. **A system account that never connects** (`system_offline`). When the registration of the system
   account is cut short, or its credentials cannot be stored, no later start mirrors it again: the
   account is there, its credentials are not, and the server serves without XMPP for good, while the
   README says that it connects and stays connected.

Disagreements with a comment or a doc that the models' steps show and no run is about:

- `DeleteAllUsers` looks the system account up and, finding none, deletes with an empty filter; an
  account created in between is deleted, although comments and README say it never is
  (`storage.go:320`). `SystemOutlivesWipe` is what does hold: an account found is spared.
- Sending appends to the list, and a refresh may have put the message there already; an older page is
  asked for by the length of the list and overlaps when messages have come in: the list is not
  "oldest-first (chat order)" as `ChatView.vue:32` has it. `RefreshHeals` is what does hold.
- Any error of the second read of `RestoreUser`, a timeout included, is taken for a missing document
  (`storage.go:258`). `RestoreAnswersTrue` is what does hold.
- Next and Previous of the users page move the offset before the load, which may fail or be overtaken:
  "Showing 21-40" then stands over the first page (`UsersView.vue:41`).
- Each tab writes its whole list of chats, as it read it once, so a chat that another tab has added
  since is lost and one it has forgotten is back (`chats.ts:40`), while the comment above says that the
  registry has the chats you created or opened (`chats.ts:7`). `ListIsKept` is what does hold: only
  chats changed behind a stale tab's back are ever wrong, and until they are changed again.
- The chat page's timer refreshes away older pages, although the comment above it says that it pulls
  near the bottom only (`ChatView.vue:89`; scrolling is not modelled).

Also met, without a document that says otherwise:

- A hard deletion while the account is still being registered leaves its credentials behind
  (`storage.go:272`); `SettledPurgeLeavesNothing` is what does hold.
- A 401 drops the token in localStorage, whatever token the refused request carried.
- The web client's user may be that of an earlier session when `/me` is answered late; a second
  sign-in after a failed `/me` keeps the XMPP connection of the first user.
- A late event of a stopped XMPP connection makes the dot grey, or clears the address, while the next
  one is online, and a late error of its start shows in the next session. The other way round
  `NavbarShowsCurrent` holds.
- Enter sends a message again while the first send is unanswered; after one failed refresh the timer
  is off while the box says on. The roster in the panel for participants stays when the page goes on to
  another chat.
- A chat whose creation was answered too late for the page, or not at all, exists and is on no list.
- Edit is not disabled while a save is under way: the form of the next user is closed when the save
  of the first succeeds, and the notice then names the wrong one (`UsersView.vue:93`).

## Proofs

All proof modules hold for every set of users, emails, passwords, chats, ids, processes and requests
and every bound. `Accounts` assumes that its bounds are natural numbers and that the operator is not
a user id, `Provisioning` and `ServerLifecycle` that no process is both server and client,
`EthoraMirror` that the ids are finitely many, `WebSession` and `WebXmpp` that "none" is neither a
user nor a token or connection, `UserAdmin` that it is neither a user nor a call, that users are
finitely many numbers and that a page has room for one; `ChatView` that its bounds are natural
numbers and its chats finitely many; `Chats` and `ChatList` assume nothing.

- `Accounts_proofs`: `TypeCorrect`, `InvariantHolds`, `TokensProvePasswords`, `EmailsUnique`,
  `RestoresAnswerTruly`, `RevocationIsPermanent`, `NoStalePrivilege` (as `PrivilegeIsFresh`).
  `TokenProvesPassword` is not inductive: a login may have read claims and not signed them yet, and
  a token that is behind could be caught up with. The inductive invariant says of every token
  *and of every pending claim* that its version is at most its account's, and that an equal
  version means an equal password. A restore between its two reads gets a conjunct of its own.
  `TokensImplementSessions` is the refinement of `SessionTable`: a session is a token not
  revoked; each action maps to one step of the table or to a stutter (an update without a password, a
  login not yet signed, the expiry of a revoked token).
  `AccountsImplementDirectory` is the other refinement, of what the chats take for granted: a role
  changes only while its account is alive, since the update filters deleted documents out. On it rests
  the composition at the end of the module: `ServerSpec` is a server with the account routes of
  `Accounts` and the chat routes of `Chats` (as `Talk`), which are entered with a token that
  `authenticate` accepts. For finitely many ids `ServersRunChats` shows that such a server takes only
  steps of `Chats`, so that `ServersKeepGroupsPrivate` and `ServersServeRooms` carry its properties
  over, and `ChatsAreForPasswordHolders` joins what is proved of tokens with what the chats do: whoever is let in
  has an alive account and its current password. The composition is proved and has no run, because
  its state space is the product of two large ones.
- `Chats_proofs`: `TypeCorrect`, `InvariantHolds`, `RostersAreSound`, `GroupsStayPrivate`,
  `ChatsAreOnlyAdvanced`, `OnlyOwnersAdd`, `HandlersImplementRooms`. The handlers check
  and then write, so the invariant also covers what a request has checked and is about to write.
  An old check stays good because chats only advance (`ChatsAdvance`): type and creator never
  change, a roster only grows, a deleted chat is never changed, no user is forgotten.
  That is also why `HandlersImplementRooms` holds: a write is mapped to the operation of `ChatRooms`,
  with what was checked calls ago standing for the condition at that moment; all other steps are
  stutters. `ChatRooms` asks for people who are *known* rather than alive, and lets a post arrive in a
  room that has been closed: the two things a check made earlier cannot keep.

- `Provisioning_proofs`: `TypeCorrect`, `InvariantHolds`, `OneSystemAccountEver`,
  `SettledPurgesLeaveNothing`, `MirrorsOutliveAccounts`, `SystemSurvivesWipes`. A process acts on what
  it read some calls ago, so the inductive invariant says of every process what is still true of that
  (`ProcessSound`) and of every finished purge what stays true (`PurgeSound`). Both survive the steps
  of the others because the stores only change in certain ways: an id is issued once, no document
  changes its system flag, no registration starts over, credentials and mirrors come from
  registrations in flight only.
- `ServerLifecycle_proofs`: `Implements`, that the composition only takes steps of `Provisioning`;
  the one thing to see is that a process that ends together with its requests is a crash of those
  that had begun something. What is proved about `Provisioning` (instantiated as `Proved`) therefore
  holds of real servers: `ServersKeepOneSystemAccount`, `PurgesLeaveNothingBehind`,
  `MirrorsOutliveAccountsOfServers`, and the part of `TypeCorrect` about the stores. The rest of
  `TypeCorrect` needs that a request that runs has a server (`HostsMatch`) and that main itself is at
  the store only while it makes sure of the system account (`PhasesMatch`). `DrainsFirst` follows
  from an invariant that a listener is open only while main is in its select.
- `EthoraMirror_proofs`: `TypeCorrect`, `InvariantHolds`, `UnreportedAreGone`. While the fallback
  runs, an account may also be one still to be tried (`Accounted`), and what was mirrored before a
  deletion began is not mirrored again (`Tracked`).
- `WebSession_proofs`: `TypeCorrect`, `InvariantHolds`, `StorageIsTheStores`, `ConnectionsHaveSessions`,
  `PagesHaveSessions`, `PagesImplementTab`. The invariant adds that no navigation under way leads to a
  protected page when there is no token (`Allowed`); lemmas about `Push` and `Resume` show that the
  router only makes such navigations, for any store and any late answer. The refinement of `TabSession` needs
  `StoreMatchesStorage`: a reload starts from localStorage, and the token there is the store's or none.
- `WebXmpp_proofs`: `TypeCorrect`, `InvariantHolds`, `NoConnectionIsOrphaned`, `NavbarIsOfCurrent`,
  `StoreImplementsTab`. What is alive and not being stopped is the current connection
  (`NoOrphanConnection`), and conversely the current one has not been stopped and is somebody's
  (`CurrentRuns`). The dot is right because of both, and both together turn the states of all
  connections into the one value, `Connected`, that `TabSession` has.
- `WebPages_proofs`: of `UserAdmin`, `AdminInvariantHolds`, `OnlyTypedIsEverSent`, `SavesAreOneAtATime`,
  `SavesOverwriteNothing`. `OnlyTypedIsSent` needs that whatever in the form differs from its row was
  typed (`TypedKnown`), for every form that replaces another while a save goes on.
  `SavingIsOneSave` is proved as `OneSave`, which names the save instead of counting; each action
  puts one call in one slot, and `SetStep` says when that is right. `SavesOverwriteNothing` is what
  follows for the server: an update changes fields typed for that user and no others.
  `ChatButtonsComeBack` proves the type invariant and `ButtonsComeBack` of `ChatView` (as `View`)
  together, since whether a request is a load can be told from its type only; that messages stay
  within their bound is a fact about cardinalities (`RoomBounds`). `TabsKeepTheList` proves
  `ListIsKept` of `ChatList` (as `List`) for any number of tabs. A tab that writes is right about all
  but what it is behind on and what was at risk already, and that is what is at risk afterwards; every
  other tab is now behind on the chat it changed. It needs that a tab that is closed waits for no
  answer. The three pages share a module, where `View` and
  `List` are instances with variables of their own; nothing relates them to `UserAdmin`.

`ConnectionNeedsSession` and `NoOrphanConnection` are proved, and no run checks them by name: what breaks
either breaks `ImplementsTabSession` too, at once or at the next logout.

**Model-checked only:** liveness (`StopsWhenTold`, `SystemComesBack`, `RefreshHeals` and
`ButtonsComeBack` of `UserAdmin`), which is outside the prover's reach, and the two findings. Every
invariant and action property of a passing run is proved.

## Not modelled, and the plan

Left out for good: configuration, CORS, validation, logging, the listings of users on the server
(reads without effect), string handling, test support. They are sequential and covered by unit tests.
The panel for adding participants in `ChatView.vue` is one request at a time over state of its own.

Left for later: the composition of `ServerLifecycle` carries over the invariants of `Provisioning` and
not yet the wipe, which it leaves out; more than one tab in `WebSession`.
