------------------------------ MODULE ChatList ------------------------------
(***************************************************************************)
(* The list of chats the browser keeps (web/src/stores/chats.ts) and the   *)
(* page that fills it (web/src/views/ChatsView.vue), in any number of tabs *)
(* over one localStorage.  A tab reads localStorage once, when a page      *)
(* first asks for the list, and writes its whole list at every change; no  *)
(* tab hears of what another one writes.                                   *)
(*                                                                         *)
(* Only ids are kept of chats; the directory of users, the forms and the   *)
(* navigation to the new chat are left out.                                *)
(***************************************************************************)
EXTENDS FiniteSets

CONSTANTS Tabs, Chats

VARIABLES
    taken, exists,  \* at the server: ids ever used, chats there are
    stored,         \* gocha_chats in localStorage
    open, chats,    \* the tabs that are open; the store of each
    creating,       \* POST /chats under way, for each tab: the new ids
    deleting,       \* DELETE /chats/{id} under way, for each tab
    \* what the user has done, for the properties only:
    known,          \* put on the list in some tab, and not taken off it since
    behind,         \* for each tab: put on or taken off elsewhere since it read the list
    atRisk          \* changed elsewhere when a tab that was behind wrote, and not since

server == <<taken, exists>>
registry == <<stored, chats, known, behind, atRisk>>
vars == <<server, registry, open, creating, deleting>>

-----------------------------------------------------------------------------
(* The store *)

(* load(), when the page of the chats or of one chat is first shown. *)
Load(t) ==
    /\ t \notin open
    /\ open' = open \cup {t}
    /\ chats' = [chats EXCEPT ![t] = stored]
    /\ UNCHANGED <<server, stored, creating, deleting, known, behind, atRisk>>

(* The tab is closed, or reloaded and then loads the list again: its       *)
(* requests have nobody to come back to.                                   *)
Close(t) ==
    /\ t \in open
    /\ open' = open \ {t}
    /\ chats' = [chats EXCEPT ![t] = {}]
    /\ creating' = [creating EXCEPT ![t] = {}]
    /\ deleting' = [deleting EXCEPT ![t] = {}]
    /\ behind' = [behind EXCEPT ![t] = {}]
    /\ UNCHANGED <<server, stored, known, atRisk>>

Remember(t, c) ==
    /\ chats' = [chats EXCEPT ![t] = @ \cup {c}]
    /\ stored' = chats'[t]

MutantForget(t, c) ==
    /\ chats' = [chats EXCEPT ![t] = @ \ {c}]
    /\ UNCHANGED stored

Forget(t, c) ==
    /\ chats' = [chats EXCEPT ![t] = @ \ {c}]
    /\ stored' = chats'[t]

-----------------------------------------------------------------------------
(* What the user makes of it: the chat is put on the list or taken off it  *)
(* in one tab.  The other tabs do not know, and what this tab does not     *)
(* know of the others' changes may now be overwritten.                     *)

Changed(t, c) ==
    /\ behind' = [u \in Tabs |-> IF u \in open \ {t} THEN behind[u] \cup {c} ELSE behind[u] \ {c}]
    /\ atRisk' = (atRisk \cup behind[t]) \ {c}

PutOn(t, c) ==
    Remember(t, c) /\ Changed(t, c) /\ known' = known \cup {c}

TakeOff(t, c) ==
    Forget(t, c) /\ Changed(t, c) /\ known' = known \ {c}

-----------------------------------------------------------------------------
(* The page *)

(* The server has made the chat; the answer is on its way, or is lost.     *)
(* The button is disabled meanwhile, but not on a page opened anew.        *)
Create(t, c) ==
    /\ t \in open /\ c \notin taken
    /\ taken' = taken \cup {c} /\ exists' = exists \cup {c}
    /\ creating' = [creating EXCEPT ![t] = @ \cup {c}]
    /\ UNCHANGED <<registry, open, deleting>>

Created(t, c) ==
    /\ c \in creating[t]
    /\ creating' = [creating EXCEPT ![t] = @ \ {c}]
    /\ UNCHANGED registry \/ PutOn(t, c)
    /\ UNCHANGED <<server, open, deleting>>

(* Any id is taken, whether there is such a chat or not. *)
OnOpen(t, c) ==
    /\ t \in open
    /\ PutOn(t, c)
    /\ UNCHANGED <<server, open, creating, deleting>>

OnForget(t, c) ==
    /\ t \in open /\ c \in chats[t]
    /\ TakeOff(t, c)
    /\ UNCHANGED <<server, open, creating, deleting>>

Remove(t, c) ==
    /\ t \in open /\ c \in chats[t]
    /\ deleting' = [deleting EXCEPT ![t] = @ \cup {c}]
    /\ UNCHANGED <<server, registry, open, creating>>

(* An error, a 404 included, leaves the chat on the list. *)
Removed(t, c) ==
    /\ c \in deleting[t]
    /\ deleting' = [deleting EXCEPT ![t] = @ \ {c}]
    /\ \/ c \in exists /\ exists' = exists \ {c} /\ (UNCHANGED registry \/ TakeOff(t, c))
       \/ UNCHANGED <<exists, registry>>
    /\ UNCHANGED <<taken, open, creating>>

-----------------------------------------------------------------------------

Init ==
    /\ taken \in SUBSET Chats /\ exists = taken
    /\ stored = {} /\ open = {} /\ known = {} /\ atRisk = {}
    /\ chats = [t \in Tabs |-> {}]
    /\ creating = [t \in Tabs |-> {}] /\ deleting = [t \in Tabs |-> {}]
    /\ behind = [t \in Tabs |-> {}]

Next ==
    \E t \in Tabs :
        \/ Load(t) \/ Close(t)
        \/ \E c \in Chats : Create(t, c) \/ Created(t, c) \/ OnOpen(t, c) \/ OnForget(t, c) \/ Remove(t, c) \/ Removed(t, c)

Spec == Init /\ [][Next]_vars

-----------------------------------------------------------------------------
(* Properties *)

(* What several tabs make of one list.  Put on it are the chats opened by  *)
(* id, and those whose creation was answered while the tab was there (one  *)
(* whose answer is lost stays unknown to the browser); taken off are those *)
(* forgotten, or deleted with an answer.  The list in localStorage is      *)
(* right about every chat but those at risk: changed in another tab after  *)
(* some tab had read the list, and before that tab changed anything.  A    *)
(* tab is right about the chats that, besides, were not changed elsewhere  *)
(* since it read the list.  So a chat is neither lost nor back again       *)
(* without a stale tab, and changing it once more settles it (load,        *)
(* remember, forget, persist).                                             *)
ListIsKept ==
    /\ stored \ atRisk = known \ atRisk
    /\ \A t \in open : chats[t] \ (behind[t] \cup atRisk) = known \ (behind[t] \cup atRisk)

=============================================================================
