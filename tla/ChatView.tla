------------------------------ MODULE ChatView ------------------------------
(***************************************************************************)
(* The page of one chat (web/src/views/ChatView.vue): the list of messages *)
(* it shows, the refresh timer, loading older pages and sending.  Each     *)
(* request is asked, served by the server at some moment, and delivered at *)
(* another, in any order; meanwhile the page goes on, shows another chat   *)
(* or is left, and others write.                                           *)
(*                                                                         *)
(* A message is its chat and its number there, in the order of created_at. *)
(* Requests alike in all are kept as one.  A page that was left hears of   *)
(* no answer; what it was still sending is then like a message of somebody *)
(* else.  Scrolling, texts and the panel for participants are left out.    *)
(***************************************************************************)
EXTENDS Naturals, Sequences, FiniteSets

CONSTANTS
    Chats,
    None,           \* no chat is open
    Page,           \* messages in a page: PAGE
    MaxMessages,    \* bound: messages of all chats together
    MaxSwitches,    \* bound: times an open page goes on to another chat
    MaxInFlight     \* bound: requests in flight when the user starts another

ASSUME ChatsAssumption == None \notin Chats /\ Page \in Nat \ {0}
ASSUME BoundsAssumption == IsFiniteSet(Chats) /\ {MaxMessages, MaxSwitches} \subseteq Nat

VARIABLES
    count,          \* at the server: messages of each chat
    switches,
    chat,           \* chatId, while the page is open
    shown, hasMore, \* the list, oldest first
    loading, sending,
    autoRefresh, timer,
    requests        \* asked or served, not yet delivered

server == <<count>>
buttons == <<loading, sending>>
refresh == <<autoRefresh, timer>>
vars == <<count, switches, chat, shown, hasMore, loading, sending, autoRefresh, timer, requests>>

-----------------------------------------------------------------------------
(* Messages and requests *)

Message == [chat : Chats, n : 1..MaxMessages]

Load == [kind : {"latest"}, chat : Chats, offset : {0}] \cup
        [kind : {"older"}, chat : Chats, offset : Nat]

Request ==
    [pc : {"asked"}, load : Load] \cup [pc : {"asked"}, send : Chats]
    \cup [pc : {"served"}, kind : {"latest", "older"}, page : Seq(Message)]
    \cup [pc : {"served"}, kind : {"send"}, message : Message]

(* A page, newest first at the server, reversed on arrival. *)
MutantListing(c, offset) ==
    [i \in 1..(IF count[c] < offset + Page THEN IF count[c] < offset THEN 0 ELSE count[c] - offset
               ELSE Page) |-> [chat |-> c, n |-> offset + i]]

Listing(c, offset) ==
    LET last == IF count[c] > offset THEN count[c] - offset ELSE 0
        first == IF last > Page THEN last - Page ELSE 0
    IN  [i \in 1..(last - first) |-> [chat |-> c, n |-> first + i]]

Loads(q) == IF q.pc = "asked" THEN "load" \in DOMAIN q ELSE q.kind # "send"

Quiet == Cardinality(requests) < MaxInFlight

Ask(q) == requests' = requests \cup {q}

(* loadLatest and loadOlder, up to their await. *)
AskLoad(kind, c, offset) ==
    /\ Ask([pc |-> "asked", load |-> [kind |-> kind, chat |-> c, offset |-> offset]])
    /\ loading' = TRUE

-----------------------------------------------------------------------------
(* The page and its user *)

Open(c) ==
    /\ chat = None
    /\ chat' = c
    /\ shown' = <<>> /\ hasMore' = FALSE /\ sending' = FALSE
    /\ autoRefresh' = TRUE /\ timer' = TRUE
    /\ AskLoad("latest", c, 0)
    /\ UNCHANGED <<server, switches>>

(* The same component goes on with another chat (watch on chatId). *)
Switch(c) ==
    /\ Quiet /\ chat \notin {None, c} /\ switches < MaxSwitches
    /\ switches' = switches + 1
    /\ chat' = c
    /\ AskLoad("latest", c, 0)
    /\ UNCHANGED <<server, shown, hasMore, sending, refresh>>

TimerAtLeave(on) == FALSE

Leave ==
    /\ chat # None
    /\ chat' = None
    /\ timer' = TimerAtLeave(timer)
    /\ shown' = <<>> /\ hasMore' = FALSE /\ loading' = FALSE /\ sending' = FALSE
    /\ requests' = {}
    /\ UNCHANGED <<server, switches, autoRefresh>>

Refresh ==
    /\ Quiet /\ chat # None /\ ~loading
    /\ AskLoad("latest", chat, 0)
    /\ UNCHANGED <<server, switches, chat, shown, hasMore, sending, refresh>>

(* Every five seconds, near the bottom or not, loading or not. *)
Tick ==
    /\ timer /\ chat # None
    /\ AskLoad("latest", chat, 0)
    /\ UNCHANGED <<server, switches, chat, shown, hasMore, sending, refresh>>

LoadOlder ==
    /\ Quiet /\ chat # None /\ hasMore /\ ~loading
    /\ AskLoad("older", chat, Len(shown))
    /\ UNCHANGED <<server, switches, chat, shown, hasMore, sending, refresh>>

(* Enter in the text field sends whether or not the button is disabled. *)
OnSend ==
    /\ Quiet /\ chat # None
    /\ Ask([pc |-> "asked", send |-> chat])
    /\ sending' = TRUE
    /\ UNCHANGED <<server, switches, chat, shown, hasMore, loading, refresh>>

ToggleAuto ==
    /\ chat # None
    /\ autoRefresh' = ~autoRefresh
    /\ timer' = autoRefresh'
    /\ UNCHANGED <<server, switches, chat, shown, hasMore, buttons, requests>>

-----------------------------------------------------------------------------
(* The server *)

Posted == {m \in Chats \X (1..MaxMessages) : m[2] <= count[m[1]]}

Room == Cardinality(Posted) < MaxMessages

Post(c) ==
    /\ Room
    /\ count' = [count EXCEPT ![c] = @ + 1]
    /\ UNCHANGED <<switches, chat, shown, hasMore, buttons, refresh, requests>>

ServeLoad(q) ==
    /\ q.pc = "asked" /\ Loads(q)
    /\ requests' = (requests \ {q}) \cup
          {[pc |-> "served", kind |-> q.load.kind, page |-> Listing(q.load.chat, q.load.offset)]}
    /\ UNCHANGED <<server, switches, chat, shown, hasMore, buttons, refresh>>

ServeSend(q) ==
    /\ q.pc = "asked" /\ ~Loads(q)
    /\ Room
    /\ count' = [count EXCEPT ![q.send] = @ + 1]
    /\ requests' = (requests \ {q}) \cup
          {[pc |-> "served", kind |-> "send", message |-> [chat |-> q.send, n |-> count'[q.send]]]}
    /\ UNCHANGED <<switches, chat, shown, hasMore, buttons, refresh>>

-----------------------------------------------------------------------------
(* Answers.  Each handler writes to the list as it is by then. *)

Forget(q) == requests' = requests \ {q}

(* The finally blocks. *)
MutantEnded(q, failed) ==
    IF Loads(q) THEN loading' = (failed /\ loading) /\ UNCHANGED sending
    ELSE sending' = (failed /\ sending) /\ UNCHANGED loading

Ended(q, failed) ==
    IF Loads(q) THEN loading' = FALSE /\ UNCHANGED sending
    ELSE sending' = FALSE /\ UNCHANGED loading

DeliverLatest(q) ==
    /\ q.pc = "served" /\ q.kind = "latest"
    /\ shown' = q.page
    /\ hasMore' = (Len(q.page) = Page)
    /\ Forget(q) /\ Ended(q, FALSE)
    /\ UNCHANGED <<server, switches, chat, refresh>>

MutantPrepended(page, old) == <<page>> \o old

Prepended(page, old) == page \o old

DeliverOlder(q) ==
    /\ q.pc = "served" /\ q.kind = "older"
    /\ shown' = Prepended(q.page, shown)
    /\ hasMore' = (Len(q.page) = Page)
    /\ Forget(q) /\ Ended(q, FALSE)
    /\ UNCHANGED <<server, switches, chat, refresh>>

DeliverSent(q) ==
    /\ q.pc = "served" /\ q.kind = "send"
    /\ shown' = Append(shown, q.message)
    /\ Forget(q) /\ Ended(q, FALSE)
    /\ UNCHANGED <<server, switches, chat, hasMore, refresh>>

(* An error, or no answer, served or not; loadLatest then stops the timer. *)
StopsTimer(q) == IF q.pc = "asked" THEN Loads(q) /\ q.load.kind = "latest" ELSE q.kind = "latest"

Fails(q) ==
    /\ Forget(q) /\ Ended(q, TRUE)
    /\ timer' = (timer /\ ~StopsTimer(q))
    /\ UNCHANGED <<server, switches, chat, shown, hasMore, autoRefresh>>

-----------------------------------------------------------------------------

Init ==
    /\ count = [c \in Chats |-> 0]
    /\ switches = 0 /\ chat = None
    /\ shown = <<>> /\ hasMore = FALSE /\ loading = FALSE /\ sending = FALSE
    /\ autoRefresh = TRUE /\ timer = FALSE
    /\ requests = {}

User == Leave \/ Refresh \/ LoadOlder \/ OnSend \/ ToggleAuto \/ \E c \in Chats : Open(c) \/ Switch(c)

Serve == \E q \in requests : ServeLoad(q) \/ ServeSend(q)

Deliver == \E q \in requests : DeliverLatest(q) \/ DeliverOlder(q) \/ DeliverSent(q)

Next == User \/ Tick \/ Serve \/ Deliver \/ (\E q \in requests : Fails(q)) \/ (\E c \in Chats : Post(c))

(* The timer ticks, and a request for the newest messages is answered, or  *)
(* fails, however many others there are.                                   *)
ServeLatest(c) == \E q \in requests : ServeLoad(q) /\ q.load.chat = c /\ q.load.kind = "latest"

Fairness ==
    /\ WF_vars(Tick)
    /\ \A c \in Chats : WF_vars(ServeLatest(c))
    /\ WF_vars(\E q \in requests : DeliverLatest(q))

Spec == Init /\ [][Next]_vars /\ Fairness

-----------------------------------------------------------------------------
(* Properties *)

TypeOK ==
    /\ count \in [Chats -> 0..MaxMessages] /\ switches \in 0..MaxSwitches
    /\ chat \in Chats \cup {None}
    /\ shown \in Seq(Message)
    /\ {hasMore, loading, sending, autoRefresh, timer} \subseteq BOOLEAN
    /\ requests \subseteq Request

(* The buttons come back: Refresh, Load older and Send are disabled only   *)
(* while a request that will enable them again is in flight, although the  *)
(* loads share one flag and the timer does not ask for it (the finally     *)
(* blocks of loadLatest, loadOlder and onSend).                            *)
ButtonsComeBack ==
    /\ loading => \E q \in requests : Loads(q)
    /\ sending => \E q \in requests : ~Loads(q)

UpToDate ==
    LET first == IF count[chat] > Page THEN count[chat] - Page ELSE 0
    IN  /\ Len(shown) = count[chat] - first
        /\ \A i \in 1..Len(shown) : shown[i] = [chat |-> chat, n |-> first + i]

(* As long as the timer runs, the page comes back again and again to the   *)
(* newest messages of the chat it is for, whatever late answers of another *)
(* chat, of older pages or of an earlier refresh have done to the list     *)
(* (startAuto, loadLatest).                                                *)
RefreshHeals == []<>(chat = None \/ ~timer \/ UpToDate)

=============================================================================
