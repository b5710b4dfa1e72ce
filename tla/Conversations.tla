---------------------------- MODULE Conversations ----------------------------
(***************************************************************************)
(* The conversations of one user: the messages the others write, the       *)
(* messages page that is open in the user's browser, and the two event     *)
(* streams that keep its badge and its open conversation up to date.       *)
(*                                                                         *)
(* Message n is the n-th by createdAt. A row's createdAt is taken before   *)
(* the row can be seen. A time is the number of messages created by then,  *)
(* so that message n is later than t when n > t.                           *)
(*                                                                         *)
(* call[s] is a request of the page in flight in slot s, which runs on the *)
(* server up to its query and then travels back. stream[k] is an           *)
(* EventSource and the server's end of it.                                 *)
(*                                                                         *)
(* found, late and crossed are history variables.                          *)
(***************************************************************************)
EXTENDS Naturals, FiniteSets

CONSTANTS
    Convs,        \* the user's conversations
    MaxMessages,  \* bound: messages
    Slots,        \* requests of the page in flight at the same time
    MaxActions,   \* bound: selections, focuses and messages of the user
    MaxFailures,  \* bound: requests and connections that are lost
    None          \* no value

ASSUME ConversationsAssumption ==
    /\ MaxMessages \in Nat
    /\ MaxActions \in Nat
    /\ MaxFailures \in Nat
    /\ None \notin Nat
    /\ None \notin Convs

VARIABLES
    created,   \* messages created so far
    home,      \* conversation of each message
    rows,      \* messages that can be seen by a query
    mine,      \* messages the user wrote
    readAt,    \* participantLastReadAt of the user, 0 when never
    selected,  \* selectedId of the page
    shown,     \* messages on the page
    badge,     \* totalUnread of the badge
    call,      \* requests in flight
    stream,    \* event streams
    seen,      \* lastSeenLatestId of the page
    actions,   \* what the user did so far
    failures,  \* requests and connections lost so far
    found,     \* history: messages a query has found for the user
    late,      \* history: messages that a mark covered before they could be seen
    crossed    \* history: a selection while messages were being loaded

database == <<created, home, rows, mine, readAt>>
page     == <<selected, shown, badge, seen>>
history  == <<found, late, crossed>>
vars == <<database, page, call, stream, actions, failures, history>>

----------------------------------------------------------------------------
(* Messages, requests and streams *)

Messages == 1..MaxMessages
Kinds    == {"badges", "chat"}

Of(c)   == {m \in rows : home[m] = c}
Unread  == {m \in rows \ mine : m > readAt[home[m]]}

\* messageLatestId of a conversation, 0 when it is empty
Latest(c) == IF Of(c) = {} THEN 0 ELSE CHOOSE m \in Of(c) : \A n \in Of(c) : n =< m

LoadSteps == {"send.insert", "load.mark", "load.find", "load.arrive"}
ListSteps == {"list.count", "list.arrive", "fetch.count", "fetch.arrive"}

\* conv: the conversation; msg: the message to be inserted; result: the
\* messages that were found; total: the unread ones; lists: loadList follows.
Calls == [pc : {"idle"} \cup LoadSteps \cup ListSteps, conv : Convs \cup {None},
          msg : Messages \cup {None}, result : SUBSET Messages, total : Nat, lists : BOOLEAN]

Idle == [pc |-> "idle", conv |-> None, msg |-> None, result |-> {}, total |-> 0, lists |-> FALSE]

Load(c, lists) == [Idle EXCEPT !.pc = "load.mark", !.conv = c, !.lists = lists]
List           == [Idle EXCEPT !.pc = "list.count"]

\* sent: what the connection told last. The page hears it at once: what a
\* request brings may be older than an event, never the reverse.
Streams == [open : BOOLEAN, sent : Nat \cup {None}]
Closed  == [open |-> FALSE, sent |-> None]

At(s, pc)       == call[s].pc = pc
Become(s, c)    == call' = [call EXCEPT ![s] = c]
Begin(s, c)     == call[s] = Idle /\ Become(s, c)
Finish(s)       == Become(s, Idle)
Loads(s)        == call[s].pc \in LoadSteps
Acts            == actions < MaxActions /\ actions' = actions + 1

TypeOK ==
    /\ created \in 0..MaxMessages
    /\ home \in [Messages -> Convs \cup {None}]
    /\ rows \subseteq 1..created /\ mine \subseteq 1..created
    /\ readAt \in [Convs -> 0..MaxMessages]
    /\ selected \in Convs \cup {None} /\ shown \subseteq Messages /\ badge \in Nat
    /\ seen \in Nat \cup {None}
    /\ call \in [Slots -> Calls]
    /\ stream \in [Kinds -> Streams]
    /\ actions \in 0..MaxActions /\ failures \in 0..MaxFailures
    /\ found \subseteq Messages /\ late \subseteq Messages /\ crossed \in BOOLEAN

Init ==
    /\ created = 0 /\ home = [m \in Messages |-> None] /\ rows = {} /\ mine = {}
    /\ readAt = [c \in Convs |-> 0]
    /\ selected = None /\ shown = {} /\ badge = 0 /\ seen = None
    /\ call = [s \in Slots |-> Idle]
    /\ stream = [k \in Kinds |-> Closed]
    /\ actions = 0 /\ failures = 0
    /\ found = {} /\ late = {} /\ crossed = FALSE

----------------------------------------------------------------------------
(* Messages are written *)

\* message.create is called: createdAt is taken.
Stamp(c) ==
    /\ created < MaxMessages
    /\ created' = created + 1
    /\ home' = [home EXCEPT ![created + 1] = c]

\* Somebody else writes to the user.
Post(c) ==
    /\ Stamp(c)
    /\ UNCHANGED <<rows, mine, readAt, page, call, stream, actions, failures, history>>

Insert(m) ==
    /\ m =< created /\ m \notin rows \cup mine
    /\ rows' = rows \cup {m}
    /\ UNCHANGED <<created, home, mine, readAt, page, call, stream, actions, failures, history>>

\* The user writes to the conversation that is open.
Send(s) ==
    /\ selected # None
    /\ Acts
    /\ Stamp(selected)
    /\ mine' = mine \cup {created + 1}
    /\ Begin(s, [Idle EXCEPT !.pc = "send.insert", !.conv = selected, !.msg = created + 1])
    /\ UNCHANGED <<rows, readAt, page, stream, failures, history>>

\* Then the messages of that conversation are loaded, whichever is open now.
SendInsert(s) ==
    /\ At(s, "send.insert")
    /\ rows' = rows \cup {call[s].msg}
    /\ Become(s, Load(call[s].conv, TRUE))
    /\ UNCHANGED <<created, home, mine, readAt, page, stream, actions, failures, history>>

----------------------------------------------------------------------------
(* GET /api/conversations/[id]/messages *)

\* Mutants: the mark is cleared; every conversation is marked.
LoadMark_Clears(s) ==
    /\ At(s, "load.mark")
    /\ readAt' = [readAt EXCEPT ![call[s].conv] = None]
    /\ Become(s, [call[s] EXCEPT !.pc = "load.find"])
    /\ UNCHANGED <<created, home, rows, mine, page, stream, actions, failures, history>>

LoadMark_EveryConversation(s) ==
    /\ At(s, "load.mark")
    /\ readAt' = [c \in Convs |-> created]
    /\ late' = late \cup {m \in 1..created : m \notin rows}
    /\ Become(s, [call[s] EXCEPT !.pc = "load.find"])
    /\ UNCHANGED <<created, home, rows, mine, page, stream, actions, failures, found, crossed>>

\* The conversation is marked as read up to now ...
LoadMark(s) ==
    /\ At(s, "load.mark")
    /\ readAt' = [readAt EXCEPT ![call[s].conv] = created]
    /\ late' = late \cup {m \in 1..created : home[m] = call[s].conv /\ m \notin rows}
    /\ Become(s, [call[s] EXCEPT !.pc = "load.find"])
    /\ UNCHANGED <<created, home, rows, mine, page, stream, actions, failures, found, crossed>>

\* ... and its messages are read.
LoadFind(s) ==
    /\ At(s, "load.find")
    /\ Become(s, [call[s] EXCEPT !.pc = "load.arrive", !.result = Of(call[s].conv)])
    /\ found' = found \cup Of(call[s].conv)
    /\ UNCHANGED <<database, page, stream, actions, failures, late, crossed>>

\* loadMessages does not look at what is selected now.
LoadArrive(s) ==
    /\ At(s, "load.arrive")
    /\ shown' = call[s].result
    /\ Become(s, IF call[s].lists THEN List ELSE Idle)
    /\ UNCHANGED <<database, selected, badge, seen, stream, actions, failures, history>>

----------------------------------------------------------------------------
(* GET /api/conversations, for the page (list) or for its badge (fetch) *)

Count(s) ==
    /\ call[s].pc \in {"list.count", "fetch.count"}
    /\ Become(s, [call[s] EXCEPT !.pc = IF @ = "list.count" THEN "list.arrive" ELSE "fetch.arrive",
                                 !.total = Cardinality(Unread)])
    /\ UNCHANGED <<database, page, stream, actions, failures, history>>

CountArrive(s) ==
    /\ call[s].pc \in {"list.arrive", "fetch.arrive"}
    /\ badge' = call[s].total
    /\ Finish(s)
    /\ UNCHANGED <<database, selected, shown, seen, stream, actions, failures, history>>

\* fetchUnreadTotal: on mounting and whenever the page gets the focus
Focus(s) ==
    /\ Acts
    /\ \A other \in Slots : call[other].pc \notin {"fetch.count", "fetch.arrive"}
    /\ Begin(s, [Idle EXCEPT !.pc = "fetch.count"])
    /\ UNCHANGED <<database, page, stream, failures, history>>

\* A request is lost: the page keeps what it shows, the badge shows none.
Lose(s) ==
    /\ call[s] # Idle
    /\ failures < MaxFailures
    /\ failures' = failures + 1
    /\ badge' = IF call[s].pc \in {"fetch.count", "fetch.arrive"} THEN 0 ELSE badge
    /\ Finish(s)
    /\ UNCHANGED <<database, selected, shown, seen, stream, actions, history>>

----------------------------------------------------------------------------
(* The page and its event streams *)

\* Mutant: the messages are not loaded.
Select_Unloaded(s, c) ==
    /\ c # selected
    /\ Acts
    /\ selected' = c /\ seen' = None
    /\ Begin(s, List)
    /\ stream' = [stream EXCEPT !["chat"] = Closed]
    /\ crossed' = (crossed \/ \E other \in Slots : Loads(other))
    /\ UNCHANGED <<database, shown, badge, failures, found, late>>

\* The messages of the old selection stay until the new ones arrive.
Select(s, c) ==
    /\ c # selected
    /\ Acts
    /\ selected' = c /\ seen' = None
    /\ Begin(s, Load(c, TRUE))
    /\ stream' = [stream EXCEPT !["chat"] = Closed]
    /\ crossed' = (crossed \/ \E other \in Slots : Loads(other))
    /\ UNCHANGED <<database, shown, badge, failures, found, late>>

\* Mutant: the first event of every connection is taken for what the page has.
Open_Forgets(k) ==
    /\ k = "chat" => selected # None
    /\ ~stream[k].open
    /\ stream' = [stream EXCEPT ![k].open = TRUE]
    /\ seen' = IF k = "chat" THEN None ELSE seen
    /\ UNCHANGED <<database, selected, shown, badge, call, actions, failures, history>>

Open(k) ==
    /\ k = "chat" => selected # None
    /\ ~stream[k].open
    /\ stream' = [stream EXCEPT ![k].open = TRUE]
    /\ UNCHANGED <<database, page, call, actions, failures, history>>

\* What a stream reports: the unread messages or the latest of the conversation.
News(k) == IF k = "badges" THEN Cardinality(Unread) ELSE Latest(selected)

\* Every POLL_MS, and once before the connection can time out
Tick(k) ==
    /\ stream[k].open
    /\ News(k) # stream[k].sent
    /\ stream' = [stream EXCEPT ![k].sent = News(k)]
    /\ UNCHANGED <<database, selected, shown, actions, failures, history>>

BadgeEvent ==
    /\ Tick("badges")
    /\ badge' = News("badges")
    /\ UNCHANGED <<seen, call>>

\* The first event only says where the conversation stands; any other that
\* differs loads the messages and the list again.
ChatEvent ==
    /\ Tick("chat")
    /\ seen' = News("chat")
    /\ \/ seen \in {None, News("chat")} /\ UNCHANGED call
       \/ /\ seen \notin {None, News("chat")}
          /\ \E s, other \in Slots :
                /\ s # other /\ call[s] = Idle /\ call[other] = Idle
                /\ call' = [call EXCEPT ![s] = Load(selected, FALSE), ![other] = List]
    /\ UNCHANGED badge

\* Mutant: what a connection told is remembered by the next one.
End_Remembers(k) ==
    /\ stream[k].open /\ stream[k].sent # None
    /\ stream' = [stream EXCEPT ![k].open = FALSE]
    /\ UNCHANGED <<database, page, call, actions, failures, history>>

\* STREAM_MS are over; onerror makes the page connect again, to a new start.
End(k) ==
    /\ stream[k].open /\ stream[k].sent # None
    /\ stream' = [stream EXCEPT ![k] = Closed]
    /\ UNCHANGED <<database, page, call, actions, failures, history>>

Drop(k) ==
    /\ stream[k].open
    /\ failures < MaxFailures
    /\ failures' = failures + 1
    /\ stream' = [stream EXCEPT ![k] = Closed]
    /\ UNCHANGED <<database, page, call, actions, history>>

----------------------------------------------------------------------------

Proceed(s) == SendInsert(s) \/ LoadMark(s) \/ LoadFind(s) \/ LoadArrive(s) \/ Count(s) \/ CountArrive(s)

Next ==
    \/ \E c \in Convs : Post(c)
    \/ \E m \in Messages : Insert(m)
    \/ \E s \in Slots :
        \/ Proceed(s) \/ Send(s) \/ Focus(s) \/ Lose(s)
        \/ \E c \in Convs : Select(s, c)
    \/ \E k \in Kinds : Open(k) \/ End(k) \/ Drop(k)
    \/ BadgeEvent \/ ChatEvent

\* Requests are answered, and both ends of a stream go on: the page connects
\* again, the server looks every POLL_MS and closes after STREAM_MS.
Fairness ==
    /\ \A s \in Slots : WF_vars(Proceed(s))
    /\ \A k \in Kinds : WF_vars(Open(k)) /\ WF_vars(End(k))
    /\ WF_vars(BadgeEvent) /\ WF_vars(ChatEvent)

Spec == Init /\ [][Next]_vars /\ Fairness

----------------------------------------------------------------------------
(* Properties *)

\* A message counts as read only when the user was sent it: unless a request
\* was lost or the message was still being inserted when the mark was set.
ReadWasFound ==
    failures = 0 => \A m \in rows \ mine :
        m \in Unread \/ m \in found \cup late \/ \E s \in Slots : At(s, "load.find") /\ call[s].conv = home[m]

\* The page shows the messages of the conversation that is selected, or is
\* loading them; unless a selection crossed a load or a request was lost.
ShownIsSelected ==
    failures = 0 /\ ~crossed => \/ \A m \in shown : home[m] = selected
                                \/ \E s \in Slots : Loads(s) /\ call[s].conv = selected

\* A message that appears in the open conversation after the first event is
\* shown, unless the user leaves it or a request is lost.
NewsIsShown ==
    \A m \in Messages :
        (m \in Of(selected) /\ seen # None /\ seen < m) ~> (m \in shown \/ home[m] # selected \/ failures > 0)

\* In the end the badge tells the number of unread messages, whatever order
\* the requests and events that set it arrived in.
BadgeSettles == <>[](badge = Cardinality(Unread))
=============================================================================
