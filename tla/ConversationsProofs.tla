------------------------ MODULE ConversationsProofs ------------------------
(***************************************************************************)
(* Proofs about Conversations, for any conversations and request slots and *)
(* any number of messages, actions and failures.                           *)
(***************************************************************************)
EXTENDS Conversations, FiniteSetTheorems, WellFoundedInduction, TLAPS

----------------------------------------------------------------------------
(* The inductive invariant *)

\* Nothing is read in advance. A message that a mark covers before it can be
\* seen is late.
MarksInv ==
    /\ \A c \in Convs : readAt[c] =< created
    /\ \A m \in 1..created : home[m] \in Convs
    /\ \A m \in (1..created) \ (rows \cup mine) : m =< readAt[home[m]] => m \in late

\* What a request knows
Knows(c) ==
    /\ c.pc \in LoadSteps => c.conv \in Convs
    /\ c.pc = "send.insert" => c.msg \in mine
    /\ c.result \subseteq rows
    /\ c.pc = "load.arrive" => \A m \in c.result : home[m] = c.conv
    /\ c.pc \in LoadSteps /\ ~crossed => c.conv = selected

CallsKnow == \A s \in Slots : Knows(call[s])

\* The chat stream belongs to a selected conversation.
ChatInv == stream["chat"].open => selected # None

IInv == TypeOK /\ MarksInv /\ CallsKnow /\ shown \subseteq rows /\ ChatInv /\ ReadWasFound /\ ShownIsSelected

----------------------------------------------------------------------------
(* The numbers that are counted and reported *)

LEMMA UnreadIsNat ==
  ASSUME TypeOK
  PROVE  Cardinality(Unread) \in Nat
<1>1. IsFiniteSet(1..created)
  BY ConversationsAssumption, FS_Interval DEF TypeOK
<1>2. Unread \subseteq 1..created
  BY DEF TypeOK, Unread
<1>. QED  BY <1>1, <1>2, FS_Subset, FS_CardinalityType

LEMMA LatestIsNat ==
  ASSUME TypeOK, NEW c
  PROVE  Latest(c) \in Nat
<1>1. CASE Of(c) = {}
  BY <1>1 DEF Latest
<1>2. CASE Of(c) # {}
  <2>. DEFINE Gap == {created - m : m \in Of(c)}
  <2>1. Of(c) \subseteq 1..created /\ created \in Nat
    <3>1. rows \subseteq 1..created /\ created \in Nat
      BY ConversationsAssumption DEF TypeOK
    <3>. QED  BY <3>1 DEF Of
  <2>2. Gap \subseteq Nat /\ Gap # {}
    BY <1>2, <2>1
  <2>3. PICK gap \in Gap : \A other \in Gap : gap =< other
    <3>1. PICK gap \in Gap : \A other \in Gap : <<other, gap>> \notin OpToRel(<, Nat)
      <4>. HIDE DEF Gap
      <4>. QED  BY <2>2, NatLessThanWellFounded, WFMin
    <3>2. \A other \in Gap : ~(other < gap)
      <4>. HIDE DEF Gap
      <4>. QED  BY <2>2, <3>1 DEF OpToRel
    <3>3. \A other \in Gap : gap =< other
      <4>. HIDE DEF Gap
      <4>. QED  BY <2>2, <3>2
    <3>. QED  BY <3>3
  <2>4. PICK m \in Of(c) : gap = created - m
    BY <2>3
  <2>5. ASSUME NEW n \in Of(c)
        PROVE  n =< m
    <3>1. created - n \in Gap
      OBVIOUS
    <3>2. gap =< created - n
      <4>. HIDE DEF Gap
      <4>. QED  BY <2>3, <3>1
    <3>3. n \in Nat /\ m \in Nat
      BY <2>1, <2>4
    <3>. QED  BY <2>1, <2>4, <3>2, <3>3
  <2>6. Latest(c) \in Of(c)
    BY <1>2, <2>4, <2>5 DEF Latest
  <2>. QED  BY <2>1, <2>6
<1>. QED  BY <1>1, <1>2

LEMMA NewsIsNat ==
  ASSUME TypeOK, NEW k \in Kinds
  PROVE  News(k) \in Nat
BY UnreadIsNat, LatestIsNat DEF News

----------------------------------------------------------------------------
(* The request slots *)

\* The request in slot s becomes c and the others stand still.
Moves(s, c) ==
    /\ c \in Calls
    /\ call' \in [Slots -> Calls]
    /\ call'[s] = c
    /\ \A other \in Slots \ {s} : call'[other] = call[other]

LEMMA IdleIsACall == Idle \in Calls
BY DEF Idle, Calls

LEMMA LoadIsACall ==
  ASSUME NEW c \in Convs \cup {None}, NEW lists \in BOOLEAN
  PROVE  /\ Load(c, lists) \in Calls
         /\ Load(c, lists).pc = "load.mark" /\ Load(c, lists).conv = c
         /\ Load(c, lists).result = {}
BY DEF Load, Idle, Calls, LoadSteps

LEMMA ListIsACall == List \in Calls /\ List.pc = "list.count" /\ List.result = {}
BY DEF List, Idle, Calls, ListSteps

LEMMA SlotEffect ==
  ASSUME NEW s \in Slots, NEW c \in Calls, TypeOK, Become(s, c)
  PROVE  Moves(s, c)
BY DEF TypeOK, Become, Moves

LEMMA CallFields ==
  ASSUME NEW s \in Slots, TypeOK
  PROVE  /\ call[s] \in Calls
         /\ call[s].conv \in Convs \cup {None} /\ call[s].msg \in Messages \cup {None}
         /\ call[s].result \subseteq Messages /\ call[s].total \in Nat /\ call[s].lists \in BOOLEAN
BY DEF TypeOK, Calls

\* Calls that load nothing know everything they need.
LEMMA QuietKnows ==
  ASSUME NEW c \in Calls, c.pc \notin LoadSteps, c.result = {}
  PROVE  Knows(c) /\ Knows(c)'
BY DEF Knows, LoadSteps

----------------------------------------------------------------------------
(* What a step leaves alone *)

\* Rows are only added, a message keeps its conversation, and the selection
\* changes only when nothing is loaded unless it is crossed.
Grows ==
    /\ created =< created' /\ created' \in Nat
    /\ rows \subseteq rows' /\ mine \subseteq mine'
    /\ \A m \in 1..created : home'[m] = home[m]
    /\ ~crossed' => ~crossed

LEMMA OthersKnow ==
  ASSUME IInv, Grows, NEW other \in Slots, call'[other] = call[other],
         ~crossed' => selected' = selected \/ ~Loads(other)
  PROVE  Knows(call[other])'
<1>1. Knows(call[other]) /\ created \in Nat /\ rows \subseteq 1..created
  BY ConversationsAssumption DEF IInv, TypeOK, CallsKnow
<1>. PICK d : d = call[other]
  OBVIOUS
<1>2. /\ d.pc \in LoadSteps => d.conv \in Convs
      /\ d.pc = "send.insert" => d.msg \in mine'
      /\ d.result \subseteq rows'
  <2>1. Knows(d)
    BY <1>1
  <2>2. mine \subseteq mine' /\ rows \subseteq rows'
    BY DEF Grows
  <2>. QED  BY <2>1, <2>2 DEF Knows
<1>3. d.pc = "load.arrive" => \A m \in d.result : home'[m] = d.conv
  <2>1. d.result \subseteq 1..created
    BY <1>1 DEF Knows
  <2>. QED  BY <1>1, <2>1 DEF Knows, Grows
<1>4. d.pc \in LoadSteps /\ ~crossed' => d.conv = selected'
  BY <1>1 DEF Knows, Grows, Loads
<1>. QED  BY <1>2, <1>3, <1>4 DEF Knows

\* A step of one request that changes neither the messages nor the selection.
LEMMA CallStep ==
  ASSUME IInv, TypeOK', NEW s \in Slots, NEW c \in Calls, Moves(s, c), Knows(c)',
         UNCHANGED <<created, home, rows, mine, readAt, selected, shown, stream, late, crossed>>,
         found \subseteq found', failures =< failures',
         failures' = 0 => call[s].pc # "load.find" \/ Of(call[s].conv) \subseteq found',
         failures' = 0 /\ Loads(s) => c.pc \in LoadSteps /\ c.conv = call[s].conv
  PROVE  IInv'
<1>1. MarksInv' /\ ChatInv' /\ (shown \subseteq rows)'
  BY DEF IInv, MarksInv, ChatInv
<1>2. CallsKnow'
  <2>. SUFFICES ASSUME NEW other \in Slots
                PROVE  Knows(call[other])'
    BY DEF CallsKnow
  <2>1. Grows
    BY DEF Grows, IInv, TypeOK
  <2>. QED  BY <2>1, OthersKnow DEF Moves
<1>3. failures' = 0 => failures = 0
  BY DEF IInv, TypeOK
<1>4. ReadWasFound'
  <2>. SUFFICES ASSUME failures' = 0, NEW m \in rows \ mine, m \notin Unread, m \notin found' \cup late
                PROVE  \E any \in Slots : call'[any].pc = "load.find" /\ call'[any].conv = home[m]
    BY DEF ReadWasFound, Unread, At
  <2>1. PICK any \in Slots : At(any, "load.find") /\ call[any].conv = home[m]
    BY <1>3 DEF IInv, ReadWasFound
  <2>2. any # s
    BY <2>1 DEF At, Of
  <2>. QED  BY <2>1, <2>2 DEF Moves, At
<1>5. ShownIsSelected'
  <2>. SUFFICES ASSUME failures' = 0, ~crossed, \E m \in shown : home[m] # selected
                PROVE  \E any \in Slots : call'[any].pc \in LoadSteps /\ call'[any].conv = selected
    BY DEF ShownIsSelected, Loads
  <2>1. PICK any \in Slots : Loads(any) /\ call[any].conv = selected
    BY <1>3 DEF IInv, ShownIsSelected
  <2>2. CASE any = s
    BY <2>1, <2>2 DEF Moves
  <2>3. CASE any # s
    BY <2>1, <2>3 DEF Moves, Loads
  <2>. QED  BY <2>2, <2>3
<1>. QED  BY <1>1, <1>2, <1>4, <1>5 DEF IInv

\* A step of the streams alone
LEMMA StreamStep ==
  ASSUME IInv, UNCHANGED <<database, selected, shown, call, actions, history>>,
         badge' \in Nat, seen' \in Nat \cup {None}, stream' \in [Kinds -> Streams],
         failures' \in 0..MaxFailures, failures =< failures',
         stream'["chat"].open => selected # None
  PROVE  IInv'
<1>1. UNCHANGED <<created, home, rows, mine, readAt, found, late, crossed>>
  BY DEF database, history
<1>2. TypeOK'
  BY <1>1 DEF IInv, TypeOK
<1>3. MarksInv' /\ (shown \subseteq rows)' /\ ChatInv'
  BY <1>1 DEF IInv, MarksInv, ChatInv
<1>4. CallsKnow'
  BY <1>1 DEF IInv, CallsKnow, Knows
<1>5. failures' = 0 => failures = 0
  BY DEF IInv, TypeOK
<1>6. ReadWasFound' /\ ShownIsSelected'
  BY <1>1, <1>5 DEF IInv, ReadWasFound, ShownIsSelected, Unread, At, Loads
<1>. QED  BY <1>2, <1>3, <1>4, <1>6 DEF IInv

----------------------------------------------------------------------------
(* Messages are written *)

LEMMA StampEffect ==
  ASSUME IInv, NEW c \in Convs, Stamp(c)
  PROVE  /\ created' = created + 1 /\ created' \in 0..MaxMessages /\ created \in Nat
         /\ home' \in [Messages -> Convs \cup {None}]
         /\ home'[created + 1] = c
         /\ \A m \in 1..created : home'[m] = home[m]
         /\ rows \subseteq 1..created /\ mine \subseteq 1..created
<1>1. created \in Nat /\ created < MaxMessages /\ MaxMessages \in Nat /\ created + 1 \in Messages
  BY ConversationsAssumption DEF IInv, TypeOK, Stamp, Messages
<1>2. home \in [Messages -> Convs \cup {None}] /\ home' = [home EXCEPT ![created + 1] = c] /\ created' = created + 1
      /\ rows \subseteq 1..created /\ mine \subseteq 1..created
  BY DEF IInv, TypeOK, Stamp
<1>3. 1..created \subseteq Messages /\ created + 1 \notin 1..created
  BY <1>1 DEF Messages
<1>. QED  BY <1>1, <1>2, <1>3

\* A new message is later than every mark.
LEMMA StampKeepsMarks ==
  ASSUME IInv, NEW c \in Convs, Stamp(c), UNCHANGED <<rows, readAt, late>>, mine \subseteq mine'
  PROVE  MarksInv'
<1>1. /\ created' = created + 1 /\ created \in Nat /\ home'[created + 1] = c
      /\ \A m \in 1..created : home'[m] = home[m]
  BY StampEffect
<1>2. \A d \in Convs : readAt[d] \in Nat /\ readAt[d] =< created
  BY DEF IInv, TypeOK, MarksInv
<1>3. \A d \in Convs : readAt'[d] =< created'
  BY <1>1, <1>2
<1>4. ASSUME NEW m \in 1..created'
      PROVE  home'[m] \in Convs /\ (m \notin rows \cup mine' /\ m =< readAt[home'[m]] => m \in late)
  <2>1. CASE m = created + 1
    BY <1>1, <1>2, <2>1
  <2>2. CASE m # created + 1
    <3>1. m \in 1..created
      BY <1>1, <2>2
    <3>. QED  BY <1>1, <3>1 DEF IInv, MarksInv
  <2>. QED  BY <2>1, <2>2
<1>. QED  BY <1>3, <1>4 DEF MarksInv

LEMMA PostKeepsIInv ==
  ASSUME IInv, NEW c \in Convs, Post(c)
  PROVE  IInv'
<1>1. /\ Stamp(c)
      /\ UNCHANGED <<rows, mine, readAt, selected, shown, badge, seen, call, stream, actions, failures, found, late, crossed>>
  BY DEF Post, page, history
<1>2. /\ created' = created + 1 /\ created' \in 0..MaxMessages /\ created \in Nat
      /\ home' \in [Messages -> Convs \cup {None}]
      /\ \A m \in 1..created : home'[m] = home[m]
      /\ rows \subseteq 1..created /\ mine \subseteq 1..created
  BY <1>1, StampEffect
<1>3. TypeOK'
  BY <1>1, <1>2 DEF IInv, TypeOK
<1>4. MarksInv'
  BY <1>1, StampKeepsMarks
<1>5. CallsKnow'
  <2>1. Grows
    BY <1>1, <1>2 DEF Grows
  <2>. QED  BY <1>1, <2>1, OthersKnow DEF CallsKnow
<1>6. (shown \subseteq rows)' /\ ChatInv'
  BY <1>1 DEF IInv, ChatInv
<1>7. \A m \in rows : home'[m] = home[m]
  BY <1>2
<1>8. ReadWasFound' /\ ShownIsSelected'
  BY <1>1, <1>7 DEF IInv, ReadWasFound, ShownIsSelected, Unread, At, Loads
<1>. QED  BY <1>3, <1>4, <1>5, <1>6, <1>8 DEF IInv

LEMMA InsertKeepsIInv ==
  ASSUME IInv, NEW m \in Messages, Insert(m)
  PROVE  IInv'
<1>1. /\ m \in 1..created /\ m \notin rows \cup mine /\ rows' = rows \cup {m}
      /\ UNCHANGED <<created, home, mine, readAt, selected, shown, badge, seen, call, stream, actions, failures, found, late, crossed>>
  BY DEF Insert, page, history, Messages, IInv, TypeOK
<1>2. TypeOK'
  BY <1>1 DEF IInv, TypeOK
<1>3. MarksInv' /\ (shown \subseteq rows)' /\ ChatInv'
  BY <1>1 DEF IInv, MarksInv, ChatInv
<1>4. CallsKnow'
  <2>1. Grows
    BY <1>1 DEF Grows, IInv, TypeOK
  <2>. QED  BY <1>1, <2>1, OthersKnow DEF CallsKnow
<1>5. ReadWasFound'
  <2>. SUFFICES ASSUME failures = 0, NEW n \in rows' \ mine, n \notin Unread', n \notin found \cup late
                PROVE  \E s \in Slots : At(s, "load.find") /\ call[s].conv = home[n]
    BY <1>1 DEF ReadWasFound, At
  <2>1. n \in 1..created /\ home[n] \in Convs /\ ~(n > readAt[home[n]])
    BY <1>1 DEF IInv, TypeOK, MarksInv, Unread
  <2>2. readAt[home[n]] \in Nat /\ n \in Nat
    BY <2>1 DEF IInv, TypeOK
  <2>3. n # m
    BY <1>1, <2>1, <2>2 DEF IInv, MarksInv
  <2>. QED  BY <1>1, <2>3 DEF IInv, ReadWasFound, Unread
<1>6. ShownIsSelected'
  BY <1>1 DEF IInv, ShownIsSelected, Loads
<1>. QED  BY <1>2, <1>3, <1>4, <1>5, <1>6 DEF IInv

LEMMA SendKeepsIInv ==
  ASSUME IInv, NEW s \in Slots, Send(s)
  PROVE  IInv'
<1>. PICK c : c = [Idle EXCEPT !.pc = "send.insert", !.conv = selected, !.msg = created + 1]
  OBVIOUS
<1>1. /\ selected \in Convs /\ Stamp(selected) /\ mine' = mine \cup {created + 1} /\ Begin(s, c)
      /\ actions < MaxActions /\ actions' = actions + 1
      /\ UNCHANGED <<rows, readAt, selected, shown, badge, seen, stream, failures, found, late, crossed>>
  BY DEF Send, Acts, page, history, IInv, TypeOK
<1>2. /\ created' = created + 1 /\ created' \in 0..MaxMessages /\ created \in Nat
      /\ home' \in [Messages -> Convs \cup {None}]
      /\ \A m \in 1..created : home'[m] = home[m]
      /\ rows \subseteq 1..created /\ mine \subseteq 1..created
  BY <1>1, StampEffect
<1>3. /\ c \in Calls /\ c.pc = "send.insert" /\ c.conv = selected /\ c.msg = created + 1 /\ c.result = {}
  <2>1. created + 1 \in Messages
    BY <1>1, ConversationsAssumption DEF Stamp, Messages, IInv, TypeOK
  <2>. QED  BY <1>1, <2>1 DEF Idle, Calls, LoadSteps
<1>4. Moves(s, c) /\ call[s] = Idle
  BY <1>1, <1>3, SlotEffect DEF Begin, IInv
<1>5. TypeOK'
  <2>1. actions' \in 0..MaxActions
    BY <1>1, ConversationsAssumption DEF IInv, TypeOK
  <2>2. rows' \subseteq 1..created' /\ mine' \subseteq 1..created'
    BY <1>1, <1>2
  <2>. QED  BY <1>1, <1>2, <1>4, <2>1, <2>2 DEF IInv, TypeOK, Moves
<1>6. MarksInv'
  BY <1>1, StampKeepsMarks
<1>7. CallsKnow'
  <2>. SUFFICES ASSUME NEW other \in Slots
                PROVE  Knows(call[other])'
    BY DEF CallsKnow
  <2>1. CASE other = s
    BY <1>1, <1>3, <1>4, <2>1 DEF Knows, Moves
  <2>2. CASE other # s
    <3>1. Grows
      BY <1>1, <1>2 DEF Grows
    <3>. QED  BY <1>1, <1>4, <2>2, <3>1, OthersKnow DEF Moves
  <2>. QED  BY <2>1, <2>2
<1>8. (shown \subseteq rows)' /\ ChatInv'
  BY <1>1 DEF IInv, ChatInv
<1>9. \A m \in rows : home'[m] = home[m] /\ (m \in mine' <=> m \in mine)
  BY <1>1, <1>2
<1>10. \A any \in Slots : Loads(any) \/ At(any, "load.find") => call'[any] = call[any]
  BY <1>4 DEF Moves, Loads, At, Idle, LoadSteps
<1>11. ReadWasFound' /\ ShownIsSelected'
  BY <1>1, <1>9, <1>10 DEF IInv, ReadWasFound, ShownIsSelected, Unread, At, Loads
<1>. QED  BY <1>5, <1>6, <1>7, <1>8, <1>11 DEF IInv

LEMMA SendInsertKeepsIInv ==
  ASSUME IInv, NEW s \in Slots, SendInsert(s)
  PROVE  IInv'
<1>. PICK c : c = Load(call[s].conv, TRUE)
  OBVIOUS
<1>1. /\ At(s, "send.insert") /\ rows' = rows \cup {call[s].msg} /\ Become(s, c) /\ Loads(s) /\ Knows(call[s])
      /\ UNCHANGED <<created, home, mine, readAt, selected, shown, badge, seen, stream, actions, failures, found, late, crossed>>
  BY DEF SendInsert, page, history, At, Loads, LoadSteps, IInv, CallsKnow
<1>2. call[s].msg \in mine /\ call[s].conv \in Convs /\ (~crossed => call[s].conv = selected)
  BY <1>1 DEF Knows, At, LoadSteps
<1>3. c \in Calls /\ c.pc = "load.mark" /\ c.conv = call[s].conv /\ c.result = {} /\ Moves(s, c)
  BY <1>1, <1>2, LoadIsACall, SlotEffect DEF IInv
<1>4. TypeOK'
  BY <1>1, <1>2, <1>3 DEF IInv, TypeOK, Moves
<1>5. MarksInv' /\ ChatInv' /\ (shown \subseteq rows)'
  BY <1>1, <1>2 DEF IInv, MarksInv, ChatInv
<1>6. CallsKnow'
  <2>. SUFFICES ASSUME NEW other \in Slots
                PROVE  Knows(call[other])'
    BY DEF CallsKnow
  <2>1. CASE other = s
    BY <1>1, <1>2, <1>3, <2>1 DEF Knows, Moves
  <2>2. CASE other # s
    <3>1. Grows
      BY <1>1 DEF Grows, IInv, TypeOK
    <3>. QED  BY <1>1, <1>3, <2>2, <3>1, OthersKnow DEF Moves
  <2>. QED  BY <2>1, <2>2
<1>7. ReadWasFound'
  BY <1>1, <1>2, <1>3 DEF IInv, ReadWasFound, Unread, At, Moves
<1>8. ShownIsSelected'
  BY <1>1, <1>3 DEF IInv, ShownIsSelected, Loads, Moves, LoadSteps
<1>. QED  BY <1>4, <1>5, <1>6, <1>7, <1>8 DEF IInv

----------------------------------------------------------------------------
(* Messages are loaded *)

LEMMA LoadMarkKeepsIInv ==
  ASSUME IInv, NEW s \in Slots, LoadMark(s)
  PROVE  IInv'
<1>. PICK conv : conv = call[s].conv
  OBVIOUS
<1>. PICK c : c = [call[s] EXCEPT !.pc = "load.find"]
  OBVIOUS
<1>1. /\ At(s, "load.mark") /\ Become(s, c) /\ Loads(s) /\ Knows(call[s]) /\ conv \in Convs
      /\ readAt' = [readAt EXCEPT ![conv] = created]
      /\ late' = late \cup {m \in 1..created : home[m] = conv /\ m \notin rows}
      /\ UNCHANGED <<created, home, rows, mine, selected, shown, badge, seen, stream, actions, failures, found, crossed>>
  BY DEF LoadMark, page, At, Loads, LoadSteps, IInv, CallsKnow, Knows
<1>2. c \in Calls /\ c.pc = "load.find" /\ c.conv = conv /\ c.result = call[s].result /\ Moves(s, c)
  <2>1. c \in Calls /\ c.pc = "load.find" /\ c.conv = conv /\ c.result = call[s].result
    BY CallFields DEF Calls, LoadSteps, IInv
  <2>. QED  BY <1>1, <2>1, SlotEffect DEF IInv
<1>3. created \in Nat /\ 1..created \subseteq Messages /\ \A d \in Convs : readAt[d] \in Nat
  BY ConversationsAssumption DEF IInv, TypeOK, Messages
<1>4. /\ readAt'[conv] = created
      /\ \A d \in Convs \ {conv} : readAt'[d] = readAt[d]
  BY <1>1 DEF IInv, TypeOK
<1>5. TypeOK'
  <2>1. late' \subseteq Messages
    BY <1>1, <1>3 DEF IInv, TypeOK
  <2>2. readAt' \in [Convs -> 0..MaxMessages]
    BY <1>1 DEF IInv, TypeOK
  <2>. QED  BY <1>1, <1>2, <2>1, <2>2 DEF IInv, TypeOK, Moves
<1>6. MarksInv'
  <2>1. \A d \in Convs : readAt'[d] =< created
    BY <1>3, <1>4 DEF IInv, MarksInv
  <2>2. ASSUME NEW m \in (1..created) \ (rows \cup mine), m =< readAt'[home[m]]
        PROVE  m \in late'
    BY <1>1, <1>4, <2>2 DEF IInv, MarksInv
  <2>3. \A m \in 1..created : home[m] \in Convs
    BY DEF IInv, MarksInv
  <2>. QED  BY <1>1, <2>1, <2>2, <2>3 DEF MarksInv
<1>7. CallsKnow'
  <2>. SUFFICES ASSUME NEW other \in Slots
                PROVE  Knows(call[other])'
    BY DEF CallsKnow
  <2>1. CASE other = s
    BY <1>1, <1>2, <2>1 DEF Knows, Moves, At, LoadSteps
  <2>2. CASE other # s
    <3>1. Grows
      BY <1>1, <1>3 DEF Grows
    <3>. QED  BY <1>1, <1>2, <2>2, <3>1, OthersKnow DEF Moves
  <2>. QED  BY <2>1, <2>2
<1>8. (shown \subseteq rows)' /\ ChatInv'
  BY <1>1 DEF IInv, ChatInv
<1>9. ReadWasFound'
  <2>. SUFFICES ASSUME failures = 0, NEW m \in rows \ mine, m \notin Unread', m \notin found \cup late'
                PROVE  \E any \in Slots : call'[any].pc = "load.find" /\ call'[any].conv = home[m]
    BY <1>1 DEF ReadWasFound, At
  <2>1. CASE home[m] = conv
    BY <1>2, <2>1 DEF Moves
  <2>2. CASE home[m] # conv
    <3>1. m \in 1..created /\ home[m] \in Convs
      BY DEF IInv, TypeOK, MarksInv
    <3>2. m \notin Unread
      BY <1>1, <1>4, <2>2, <3>1 DEF Unread
    <3>3. PICK any \in Slots : At(any, "load.find") /\ call[any].conv = home[m]
      BY <1>1, <3>2 DEF IInv, ReadWasFound
    <3>4. any # s
      BY <1>1, <3>3 DEF At
    <3>. QED  BY <1>2, <3>3, <3>4 DEF Moves, At
  <2>. QED  BY <2>1, <2>2
<1>10. ShownIsSelected'
  BY <1>1, <1>2 DEF IInv, ShownIsSelected, Loads, Moves, LoadSteps
<1>. QED  BY <1>5, <1>6, <1>7, <1>8, <1>9, <1>10 DEF IInv

LEMMA LoadFindKeepsIInv ==
  ASSUME IInv, NEW s \in Slots, LoadFind(s)
  PROVE  IInv'
<1>. PICK c : c = [call[s] EXCEPT !.pc = "load.arrive", !.result = Of(call[s].conv)]
  OBVIOUS
<1>1. /\ At(s, "load.find") /\ Become(s, c) /\ Loads(s) /\ Knows(call[s])
      /\ found' = found \cup Of(call[s].conv)
      /\ UNCHANGED <<created, home, rows, mine, readAt, selected, shown, badge, seen, stream, actions, failures, late, crossed>>
  BY DEF LoadFind, database, page, At, Loads, LoadSteps, IInv, CallsKnow
<1>2. Of(call[s].conv) \subseteq rows /\ Of(call[s].conv) \subseteq Messages
  <2>1. rows \subseteq Messages
    BY ConversationsAssumption DEF IInv, TypeOK, Messages
  <2>. QED  BY <2>1 DEF Of
<1>3. c \in Calls /\ c.pc = "load.arrive" /\ c.conv = call[s].conv /\ c.result = Of(call[s].conv)
  BY <1>2, CallFields DEF Calls, LoadSteps, IInv
<1>4. Moves(s, c)
  BY <1>1, <1>3, SlotEffect DEF IInv
<1>5. TypeOK'
  BY <1>1, <1>2, <1>4 DEF IInv, TypeOK, Moves
<1>6. Knows(c)'
  <2>1. \A m \in c.result : home[m] = c.conv
    BY <1>3 DEF Of
  <2>. QED  BY <1>1, <1>2, <1>3, <2>1 DEF Knows, At, LoadSteps
<1>7. found \subseteq found' /\ failures =< failures' /\ Of(call[s].conv) \subseteq found' /\ c.pc \in LoadSteps
  BY <1>1, <1>3, ConversationsAssumption DEF IInv, TypeOK, LoadSteps
<1>. QED  BY <1>1, <1>3, <1>4, <1>5, <1>6, <1>7, CallStep

LEMMA LoadArriveKeepsIInv ==
  ASSUME IInv, NEW s \in Slots, LoadArrive(s)
  PROVE  IInv'
<1>. PICK c : c = IF call[s].lists THEN List ELSE Idle
  OBVIOUS
<1>1. /\ At(s, "load.arrive") /\ Become(s, c) /\ Knows(call[s]) /\ shown' = call[s].result
      /\ UNCHANGED <<created, home, rows, mine, readAt, selected, badge, seen, stream, actions, failures, found, late, crossed>>
  BY DEF LoadArrive, database, history, IInv, CallsKnow
<1>2. c \in Calls /\ c.pc \notin LoadSteps /\ c.result = {} /\ Moves(s, c)
  <2>1. c \in Calls /\ c.pc \notin LoadSteps /\ c.result = {}
    BY ListIsACall, IdleIsACall DEF Idle, LoadSteps
  <2>. QED  BY <1>1, <2>1, SlotEffect DEF IInv
<1>3. /\ call[s].result \subseteq rows
      /\ \A m \in call[s].result : home[m] = call[s].conv
      /\ ~crossed => call[s].conv = selected
  BY <1>1 DEF Knows, At, LoadSteps
<1>4. TypeOK'
  BY <1>1, <1>2, CallFields DEF IInv, TypeOK, Moves
<1>5. MarksInv' /\ ChatInv' /\ (shown \subseteq rows)'
  BY <1>1, <1>3 DEF IInv, MarksInv, ChatInv
<1>6. CallsKnow'
  <2>. SUFFICES ASSUME NEW other \in Slots
                PROVE  Knows(call[other])'
    BY DEF CallsKnow
  <2>1. CASE other = s
    BY <1>2, <2>1, QuietKnows DEF Knows, Moves
  <2>2. CASE other # s
    <3>1. Grows
      BY <1>1 DEF Grows, IInv, TypeOK
    <3>. QED  BY <1>1, <1>2, <2>2, <3>1, OthersKnow DEF Moves
  <2>. QED  BY <2>1, <2>2
<1>7. ReadWasFound'
  <2>1. \A any \in Slots : At(any, "load.find") => call'[any] = call[any]
    BY <1>1, <1>2 DEF Moves, At
  <2>. QED  BY <1>1, <2>1 DEF IInv, ReadWasFound, Unread, At
<1>8. ShownIsSelected'
  BY <1>1, <1>3 DEF ShownIsSelected
<1>. QED  BY <1>4, <1>5, <1>6, <1>7, <1>8 DEF IInv

----------------------------------------------------------------------------
(* Other requests *)

LEMMA CountKeepsIInv ==
  ASSUME IInv, NEW s \in Slots, Count(s)
  PROVE  IInv'
<1>. PICK pc : pc = IF call[s].pc = "list.count" THEN "list.arrive" ELSE "fetch.arrive"
  OBVIOUS
<1>. PICK c : c = [call[s] EXCEPT !.pc = pc, !.total = Cardinality(Unread)]
  OBVIOUS
<1>1. /\ call[s].pc \in {"list.count", "fetch.count"} /\ Become(s, c) /\ Knows(call[s])
      /\ UNCHANGED <<created, home, rows, mine, readAt, selected, shown, badge, seen, stream, actions, failures, found, late, crossed>>
  BY DEF Count, database, page, history, IInv, CallsKnow
<1>2. pc \in {"list.arrive", "fetch.arrive"} /\ Cardinality(Unread) \in Nat
  BY UnreadIsNat DEF IInv
<1>3. c \in Calls /\ c.pc = pc /\ c.result = call[s].result
  BY <1>2, CallFields DEF Calls, ListSteps, IInv
<1>4. Moves(s, c)
  BY <1>1, <1>3, SlotEffect DEF IInv
<1>5. TypeOK'
  BY <1>1, <1>4 DEF IInv, TypeOK, Moves
<1>6. Knows(c)' /\ ~Loads(s) /\ call[s].pc # "load.find"
  BY <1>1, <1>2, <1>3 DEF Knows, LoadSteps, Loads
<1>7. found \subseteq found' /\ failures =< failures'
  BY <1>1, ConversationsAssumption DEF IInv, TypeOK
<1>. QED  BY <1>1, <1>3, <1>4, <1>5, <1>6, <1>7, CallStep

\* Requests that end without a word about messages, or begin
LEMMA QuietCallStep ==
  ASSUME IInv, NEW s \in Slots, NEW c \in Calls, c.pc \notin LoadSteps, c.result = {}, Become(s, c),
         UNCHANGED <<created, home, rows, mine, readAt, selected, shown, seen, stream, found, late, crossed>>,
         badge' \in Nat, actions' \in 0..MaxActions, failures' \in 0..MaxFailures, failures =< failures',
         failures' = 0 => ~Loads(s)
  PROVE  IInv'
<1>1. Moves(s, c)
  BY SlotEffect DEF IInv
<1>2. TypeOK'
  BY <1>1 DEF IInv, TypeOK, Moves
<1>3. Knows(c)'
  BY QuietKnows
<1>4. failures' = 0 => call[s].pc # "load.find"
  BY DEF Loads, LoadSteps
<1>. QED  BY <1>1, <1>2, <1>3, <1>4, CallStep

LEMMA OtherRequestsKeepIInv ==
  ASSUME IInv, NEW s \in Slots, CountArrive(s) \/ Focus(s) \/ Lose(s)
  PROVE  IInv'
<1>. Idle.pc \notin LoadSteps /\ Idle.result = {} /\ Idle \in Calls
  BY IdleIsACall DEF Idle, LoadSteps
<1>1. CASE CountArrive(s)
  <2>1. /\ Become(s, Idle) /\ badge' \in Nat /\ ~Loads(s)
        /\ UNCHANGED <<created, home, rows, mine, readAt, selected, shown, seen, stream, actions, failures, found, late, crossed>>
    BY <1>1, CallFields DEF CountArrive, Finish, Loads, LoadSteps, database, history, IInv
  <2>2. actions' \in 0..MaxActions /\ failures' \in 0..MaxFailures /\ failures =< failures'
    BY <2>1, ConversationsAssumption DEF IInv, TypeOK
  <2>. QED  BY <2>1, <2>2, QuietCallStep
<1>2. CASE Focus(s)
  <2>. PICK c : c = [Idle EXCEPT !.pc = "fetch.count"]
    OBVIOUS
  <2>1. c \in Calls /\ c.pc \notin LoadSteps /\ c.result = {}
    BY DEF Idle, Calls, LoadSteps, ListSteps
  <2>2. /\ Become(s, c) /\ ~Loads(s)
        /\ UNCHANGED <<created, home, rows, mine, readAt, selected, shown, badge, seen, stream, failures, found, late, crossed>>
    BY <1>2 DEF Focus, Begin, Loads, Idle, LoadSteps, database, page, history
  <2>3. badge' \in Nat /\ actions' \in 0..MaxActions /\ failures' \in 0..MaxFailures /\ failures =< failures'
    BY <1>2, <2>2, ConversationsAssumption DEF Focus, Acts, IInv, TypeOK
  <2>. QED  BY <2>1, <2>2, <2>3, QuietCallStep
<1>3. CASE Lose(s)
  <2>1. /\ Become(s, Idle) /\ badge' \in Nat
        /\ UNCHANGED <<created, home, rows, mine, readAt, selected, shown, seen, stream, actions, found, late, crossed>>
    BY <1>3 DEF Lose, Finish, database, history, IInv, TypeOK
  <2>2. actions' \in 0..MaxActions /\ failures' \in 0..MaxFailures /\ failures =< failures' /\ failures' # 0
    BY <1>3, <2>1, ConversationsAssumption DEF Lose, IInv, TypeOK
  <2>. QED  BY <2>1, <2>2, QuietCallStep
<1>. QED  BY <1>1, <1>2, <1>3

----------------------------------------------------------------------------
(* The page and its streams *)

LEMMA SelectKeepsIInv ==
  ASSUME IInv, NEW s \in Slots, NEW conv \in Convs, Select(s, conv)
  PROVE  IInv'
<1>. PICK c : c = Load(conv, TRUE)
  OBVIOUS
<1>1. /\ actions < MaxActions /\ actions' = actions + 1
      /\ selected' = conv /\ seen' = None /\ Begin(s, c)
      /\ stream' = [stream EXCEPT !["chat"] = Closed]
      /\ crossed' = (crossed \/ \E other \in Slots : Loads(other))
      /\ UNCHANGED <<created, home, rows, mine, readAt, shown, badge, failures, found, late>>
  BY DEF Select, Acts, database
<1>2. c \in Calls /\ c.pc = "load.mark" /\ c.conv = conv /\ c.result = {} /\ Moves(s, c) /\ call[s] = Idle
  BY <1>1, LoadIsACall, SlotEffect DEF Begin, IInv
<1>3. TypeOK'
  <2>1. actions' \in 0..MaxActions
    BY <1>1, ConversationsAssumption DEF IInv, TypeOK
  <2>2. stream' \in [Kinds -> Streams]
    BY <1>1 DEF IInv, TypeOK, Closed, Streams
  <2>3. crossed' \in BOOLEAN
    BY <1>1 DEF IInv, TypeOK
  <2>. QED  BY <1>1, <1>2, <2>1, <2>2, <2>3 DEF IInv, TypeOK, Moves
<1>4. MarksInv' /\ (shown \subseteq rows)'
  BY <1>1 DEF IInv, MarksInv
<1>5. ChatInv'
  BY <1>1 DEF ChatInv, Closed, IInv, TypeOK, Kinds
<1>6. CallsKnow'
  <2>. SUFFICES ASSUME NEW other \in Slots
                PROVE  Knows(call[other])'
    BY DEF CallsKnow
  <2>1. CASE other = s
    BY <1>1, <1>2, <2>1 DEF Knows, Moves
  <2>2. CASE other # s
    <3>1. Grows
      BY <1>1 DEF Grows, IInv, TypeOK
    <3>2. ~crossed' => ~Loads(other)
      BY <1>1
    <3>. QED  BY <1>2, <2>2, <3>1, <3>2, OthersKnow DEF Moves
  <2>. QED  BY <2>1, <2>2
<1>7. ReadWasFound'
  <2>1. \A any \in Slots : At(any, "load.find") => call'[any] = call[any]
    BY <1>2 DEF Moves, At, Idle
  <2>. QED  BY <1>1, <2>1 DEF IInv, ReadWasFound, Unread, At
<1>8. ShownIsSelected'
  BY <1>1, <1>2 DEF ShownIsSelected, Loads, Moves, LoadSteps
<1>. QED  BY <1>3, <1>4, <1>5, <1>6, <1>7, <1>8 DEF IInv

LEMMA StreamsKeepIInv ==
  ASSUME IInv, (\E k \in Kinds : Open(k) \/ End(k) \/ Drop(k)) \/ BadgeEvent
  PROVE  IInv'
<1>. DEFINE Quiet == UNCHANGED <<database, selected, shown, call, actions, history>>
            Types == badge' \in Nat /\ seen' \in Nat \cup {None} /\ stream' \in [Kinds -> Streams]
                     /\ failures' \in 0..MaxFailures /\ failures =< failures'
<1>. badge \in Nat /\ seen \in Nat \cup {None} /\ stream \in [Kinds -> Streams] /\ "chat" \in Kinds
     /\ failures \in 0..MaxFailures /\ failures =< failures /\ (stream["chat"].open => selected # None)
  BY ConversationsAssumption DEF IInv, TypeOK, Kinds, ChatInv
<1>1. ASSUME NEW k \in Kinds, Open(k)
      PROVE  IInv'
  <2>1. Quiet /\ Types /\ (stream'["chat"].open => selected # None)
    BY <1>1 DEF Open, page, Streams
  <2>. QED  BY <2>1, StreamStep
<1>2. ASSUME NEW k \in Kinds, End(k)
      PROVE  IInv'
  <2>1. Quiet /\ Types /\ (stream'["chat"].open => selected # None)
    BY <1>2 DEF End, page, Streams, Closed
  <2>. QED  BY <2>1, StreamStep
<1>3. ASSUME NEW k \in Kinds, Drop(k)
      PROVE  IInv'
  <2>1. stream' \in [Kinds -> Streams] /\ (stream'["chat"].open => selected # None)
    BY <1>3 DEF Drop, Streams, Closed
  <2>2. failures' \in 0..MaxFailures /\ failures =< failures'
    BY <1>3, ConversationsAssumption DEF Drop
  <2>3. Quiet /\ Types
    BY <1>3, <2>1, <2>2 DEF Drop, page
  <2>. QED  BY <2>1, <2>3, StreamStep
<1>4. CASE BadgeEvent
  <2>1. News("badges") \in Nat
    BY NewsIsNat DEF IInv, Kinds
  <2>2. stream' \in [Kinds -> Streams] /\ (stream'["chat"].open => selected # None)
    BY <1>4, <2>1 DEF BadgeEvent, Tick, Streams, Kinds
  <2>3. Quiet /\ Types
    BY <1>4, <2>1, <2>2 DEF BadgeEvent, Tick
  <2>. QED  BY <2>2, <2>3, StreamStep
<1>. QED  BY <1>1, <1>2, <1>3, <1>4

LEMMA ChatEventKeepsIInv ==
  ASSUME IInv, ChatEvent
  PROVE  IInv'
<1>1. /\ stream["chat"].open /\ selected \in Convs /\ seen' = News("chat") /\ News("chat") \in Nat
      /\ stream' = [stream EXCEPT !["chat"].sent = News("chat")]
      /\ UNCHANGED <<database, selected, shown, badge, actions, failures, history>>
  BY NewsIsNat DEF ChatEvent, Tick, IInv, ChatInv, TypeOK, Kinds
<1>2. stream' \in [Kinds -> Streams] /\ failures \in 0..MaxFailures /\ failures =< failures
  BY <1>1, ConversationsAssumption DEF IInv, TypeOK, Streams, Kinds
<1>3. CASE UNCHANGED call
  <2>1. UNCHANGED <<database, selected, shown, call, actions, history>>
    BY <1>1, <1>3
  <2>2. badge' \in Nat /\ seen' \in Nat \cup {None} /\ failures' \in 0..MaxFailures /\ failures =< failures'
    BY <1>1, <1>2 DEF IInv, TypeOK
  <2>3. selected # None
    BY <1>1, ConversationsAssumption
  <2>. QED  BY <1>2, <2>1, <2>2, <2>3, StreamStep
<1>4. CASE call' # call
  <2>1. PICK s \in Slots, other \in Slots :
             /\ s # other /\ call[s] = Idle /\ call[other] = Idle
             /\ call' = [call EXCEPT ![s] = Load(selected, FALSE), ![other] = List]
    BY <1>4 DEF ChatEvent
  <2>. PICK c : c = Load(selected, FALSE)
    OBVIOUS
  <2>2. c \in Calls /\ c.pc = "load.mark" /\ c.conv = selected /\ c.result = {}
    BY <1>1, LoadIsACall
  <2>3. /\ call' \in [Slots -> Calls] /\ call'[s] = c /\ call'[other] = List
        /\ \A any \in Slots \ {s, other} : call'[any] = call[any]
    BY <2>1, <2>2, ListIsACall DEF IInv, TypeOK
  <2>4. UNCHANGED <<created, home, rows, mine, readAt, selected, shown, badge, actions, failures, found, late, crossed>>
    BY <1>1 DEF database, history
  <2>5. TypeOK'
    BY <1>1, <1>2, <2>3, <2>4 DEF IInv, TypeOK
  <2>6. MarksInv' /\ ChatInv' /\ (shown \subseteq rows)'
    BY <1>1, <2>4 DEF IInv, MarksInv, ChatInv
  <2>7. CallsKnow'
    <3>. SUFFICES ASSUME NEW any \in Slots
                  PROVE  Knows(call[any])'
      BY DEF CallsKnow
    <3>1. CASE any = s
      BY <1>1, <2>2, <2>3, <2>4, <3>1 DEF Knows
    <3>2. CASE any = other
      BY <2>3, <3>2, ListIsACall, QuietKnows DEF Knows, LoadSteps
    <3>3. CASE any \notin {s, other}
      <4>1. Grows
        BY <2>4 DEF Grows, IInv, TypeOK
      <4>. QED  BY <2>3, <2>4, <3>3, <4>1, OthersKnow
    <3>. QED  BY <3>1, <3>2, <3>3
  <2>8. \A any \in Slots : Loads(any) \/ At(any, "load.find") => call'[any] = call[any]
    BY <2>1, <2>3 DEF Loads, At, Idle, LoadSteps
  <2>9. ReadWasFound' /\ ShownIsSelected'
    BY <2>4, <2>8 DEF IInv, ReadWasFound, ShownIsSelected, Unread, At, Loads
  <2>. QED  BY <2>5, <2>6, <2>7, <2>9 DEF IInv
<1>. QED  BY <1>3, <1>4

----------------------------------------------------------------------------
(* The inductive invariant *)

LEMMA InitIInv == Init => IInv
<1>. SUFFICES ASSUME Init
              PROVE  IInv
  OBVIOUS
<1>1. TypeOK
  <2>1. call \in [Slots -> Calls] /\ stream \in [Kinds -> Streams]
    BY IdleIsACall DEF Init, Closed, Streams
  <2>2. 0 \in 0..MaxMessages /\ 0 \in 0..MaxActions /\ 0 \in 0..MaxFailures
    BY ConversationsAssumption
  <2>. QED  BY <2>1, <2>2 DEF Init, TypeOK
<1>2. MarksInv /\ shown \subseteq rows /\ ChatInv
  BY DEF Init, MarksInv, ChatInv, Closed, Kinds
<1>3. CallsKnow
  BY DEF Init, CallsKnow, Knows, Idle, LoadSteps
<1>4. ReadWasFound /\ ShownIsSelected
  BY DEF Init, ReadWasFound, ShownIsSelected
<1>. QED  BY <1>1, <1>2, <1>3, <1>4 DEF IInv

LEMMA NextIInv == IInv /\ [Next]_vars => IInv'
<1>. SUFFICES ASSUME IInv, [Next]_vars
              PROVE  IInv'
  OBVIOUS
<1>1. ASSUME NEW s \in Slots, Proceed(s)
      PROVE  IInv'
  BY <1>1, SendInsertKeepsIInv, LoadMarkKeepsIInv, LoadFindKeepsIInv, LoadArriveKeepsIInv, CountKeepsIInv,
     OtherRequestsKeepIInv DEF Proceed
<1>2. CASE UNCHANGED vars
  <2>1. UNCHANGED <<database, selected, shown, badge, seen, call, stream, actions, failures, history>>
    BY <1>2 DEF vars, page
  <2>2. badge \in Nat /\ seen \in Nat \cup {None} /\ stream \in [Kinds -> Streams]
        /\ failures \in 0..MaxFailures /\ failures =< failures /\ (stream["chat"].open => selected # None)
    BY ConversationsAssumption DEF IInv, TypeOK, ChatInv
  <2>. QED  BY <2>1, <2>2, StreamStep
<1>. QED  BY <1>1, <1>2, PostKeepsIInv, InsertKeepsIInv, SendKeepsIInv, OtherRequestsKeepIInv, SelectKeepsIInv,
         StreamsKeepIInv, ChatEventKeepsIInv DEF Next

LEMMA Inductive == Spec => []IInv
BY InitIInv, NextIInv, PTL DEF Spec

----------------------------------------------------------------------------
(* What follows *)

\* Every variable keeps its type.
THEOREM TypeCorrect == Spec => []TypeOK
<1>1. IInv => TypeOK
  BY DEF IInv
<1>. QED  BY <1>1, Inductive, PTL

\* What counts as read was sent to the user.
THEOREM ReadIsFound == Spec => []ReadWasFound
<1>1. IInv => ReadWasFound
  BY DEF IInv
<1>. QED  BY <1>1, Inductive, PTL

\* The page shows the conversation that is selected.
THEOREM SelectedIsShown == Spec => []ShownIsSelected
<1>1. IInv => ShownIsSelected
  BY DEF IInv
<1>. QED  BY <1>1, Inductive, PTL
=============================================================================
