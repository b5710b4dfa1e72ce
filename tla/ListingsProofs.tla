--------------------------- MODULE ListingsProofs ---------------------------
(***************************************************************************)
(* Proofs about Listings, for any set of parts, payments and concurrent    *)
(* invocations, and any number of changes, days and crashes.               *)
(***************************************************************************)
EXTENDS Listings, TLAPS

----------------------------------------------------------------------------
(* The inductive invariant *)

\* What an edit or a decision knows of the listing unless it is raced
ChangeKnows(c) ==
    /\ c.pc = "edit.update" => c.rev = revision + (IF status \in Decisions THEN 1 ELSE 0)
    /\ c.pc = "log" => by = "owner"
    /\ c.pc \in {"decide.record", "decide.notify"} => by = "moderator" /\ status = c.to
    /\ c.pc = "decide.notify" => event = c.to

ChangesKnow == Exists /\ ~raced => \A hd \in Handlers : ChangeKnows(call[hd])

OneChange == ~raced => \A hd, other \in Handlers : Moderates(hd) /\ Moderates(other) => hd = other

OwnerPublishes == Exists /\ by = "owner" => status = Published(content)

\* The steps that are still to tell of a change
Telling == {"log", "decide.record", "decide.notify"}

Told ==
    Exists /\ ~raced /\ crashes = 0 /\ (\A hd \in Handlers : call[hd].pc \notin Telling) =>
        /\ by = "moderator" => event = status /\ notice = status
        /\ by = "owner" /\ content = Parts => event = status

DecisionIsMade ==
    \A hd \in Handlers : call[hd].pc \in {"decide.update", "decide.record", "decide.notify"} => call[hd].to \in Decisions

ModerationInv == OwnerPublishes /\ RevisionCountsEdits /\ OneChange /\ ChangesKnow /\ Told

\* What the settlement of a boost knows unless it is raced
BoostKnows(c) ==
    /\ c.pc \in BoostingSteps => payment[c.pay] = "PENDING" /\ c.pay \in Payments
    /\ c.pc = "boost.update" => c.exp = nextBoostExpiry(bought, c.at)

BoostsKnow == Exists /\ ~boostRaced => \A hd \in Handlers : BoostKnows(call[hd])

OneBoost == ~boostRaced => \A hd, other \in Handlers : Boosts(hd) /\ Boosts(other) => hd = other

NothingBought ==
    status = "ABSENT" =>
        /\ boost = 0 /\ bought = 0
        /\ \A p \in Payments : payment[p] = "NONE"
        /\ \A hd \in Handlers : ~Boosts(hd)

BoostInv == BoostIsWhatWasBought /\ OneBoost /\ BoostsKnow /\ NothingBought

IInv == TypeOK /\ DecisionIsMade /\ ModerationInv /\ BoostInv

----------------------------------------------------------------------------
(* The invocation slots *)

\* The invocation in slot hd becomes c and the others stand still.
Moves(hd, c) ==
    /\ c \in Calls
    /\ call' \in [Handlers -> Calls]
    /\ call'[hd] = c
    /\ \A other \in Handlers \ {hd} : call'[other] = call[other]

LEMMA IdleIsACall == Idle \in Calls
BY DEF Idle, Calls

LEMMA SlotEffect ==
  ASSUME NEW hd \in Handlers, NEW c \in Calls, TypeOK, Become(hd, c)
  PROVE  Moves(hd, c)
BY DEF TypeOK, Become, Moves

LEMMA FinishEffect ==
  ASSUME NEW hd \in Handlers, TypeOK, Finish(hd)
  PROVE  Moves(hd, Idle)
BY IdleIsACall, SlotEffect DEF Finish

LEMMA BeginEffect ==
  ASSUME NEW hd \in Handlers, NEW c \in Calls, TypeOK, Begin(hd, c)
  PROVE  Moves(hd, c) /\ call[hd] = Idle
BY SlotEffect DEF Begin

LEMMA ContinueEffect ==
  ASSUME NEW hd \in Handlers, NEW pc \in ModeratingSteps, TypeOK, Continue(hd, pc)
  PROVE  \E c \in Calls : Moves(hd, c) /\ c.pc = pc /\ c.to = call[hd].to
<1>. DEFINE c == [call[hd] EXCEPT !.pc = pc]
<1>1. c \in Calls /\ c.pc = pc /\ c.to = call[hd].to
  BY DEF TypeOK, Calls
<1>. QED  BY <1>1, SlotEffect DEF Continue

LEMMA CallFields ==
  ASSUME NEW hd \in Handlers, TypeOK
  PROVE  /\ call[hd] \in Calls
         /\ call[hd].parts \subseteq Parts
         /\ call[hd].rev \in Nat /\ call[hd].at \in Nat /\ call[hd].exp \in Nat
         /\ call[hd].to \in Decisions \cup {None}
         /\ call[hd].pay \in Payments \cup {None}
BY DEF TypeOK, Calls

LEMMA ExpiryIsNat ==
  ASSUME NEW current \in Nat, NEW day \in Nat
  PROVE  nextBoostExpiry(current, day) \in Nat
BY ListingsAssumption DEF nextBoostExpiry

----------------------------------------------------------------------------
(* What a step leaves alone *)

\* Boosts keep their invariant when only an edit or a decision moves.
LEMMA BoostsUntouched ==
  ASSUME IInv, NEW hd \in Handlers, NEW c \in Calls, Moves(hd, c), UNCHANGED boosts,
         c.pc \notin BoostingSteps, status' = "ABSENT" => status = "ABSENT",
         Exists' => Exists \/ status = "ABSENT"
  PROVE  BoostInv'
<1>. USE DEF boosts, IInv, BoostInv, Moves
<1>1. BoostIsWhatWasBought'
  BY DEF BoostIsWhatWasBought, NothingBought
<1>2. OneBoost'
  BY DEF OneBoost, Boosts
<1>3. NothingBought'
  BY DEF NothingBought, Boosts
<1>4. BoostsKnow'
  <2>. SUFFICES ASSUME Exists', ~boostRaced, NEW other \in Handlers
                PROVE  BoostKnows(call[other])'
    BY DEF BoostsKnow
  <2>1. CASE other = hd
    BY <2>1 DEF BoostKnows, BoostingSteps
  <2>2. CASE other # hd /\ Exists
    BY <2>2 DEF BoostsKnow, BoostKnows
  <2>3. CASE other # hd /\ status = "ABSENT"
    BY <2>3 DEF NothingBought, BoostKnows, Boosts, BoostingSteps
  <2>. QED  BY <2>1, <2>2, <2>3
<1>. QED  BY <1>1, <1>2, <1>3, <1>4

\* The listing keeps its invariant when no edit or decision moves.
LEMMA ModerationUntouched ==
  ASSUME IInv, NEW hd \in Handlers, NEW c \in Calls, Moves(hd, c), UNCHANGED <<listing, messages, raced>>,
         c.pc \notin ModeratingSteps, crashes' = 0 => crashes = 0 /\ ~Moderates(hd)
  PROVE  ModerationInv'
<1>. USE DEF listing, messages, IInv, ModerationInv, Moves
<1>1. OwnerPublishes' /\ RevisionCountsEdits'
  BY DEF OwnerPublishes, RevisionCountsEdits, Published, Exists
<1>2. OneChange'
  BY DEF OneChange, Moderates
<1>3. ChangesKnow'
  <2>. SUFFICES ASSUME Exists, ~raced, NEW other \in Handlers
                PROVE  ChangeKnows(call[other])'
    BY DEF ChangesKnow, Exists
  <2>1. CASE other = hd
    BY <2>1 DEF ChangeKnows, ModeratingSteps
  <2>2. CASE other # hd
    BY <2>2 DEF ChangesKnow, ChangeKnows
  <2>. QED  BY <2>1, <2>2
<1>4. Told'
  BY DEF Told, Exists, Moderates, Telling, ModeratingSteps
<1>. QED  BY <1>1, <1>2, <1>3, <1>4

LEMMA DecisionMoves ==
  ASSUME IInv, NEW hd \in Handlers, NEW c \in Calls, Moves(hd, c),
         c.pc \in {"decide.update", "decide.record", "decide.notify"} => c.to \in Decisions
  PROVE  DecisionIsMade'
BY DEF IInv, DecisionIsMade, Moves

----------------------------------------------------------------------------
(* Edits and decisions *)

\* Nobody else is changing the listing while hd is, unless they are raced.
LEMMA Alone ==
  ASSUME IInv, NEW hd \in Handlers, ~raced, Moderates(hd), NEW other \in Handlers \ {hd}
  PROVE  ~Moderates(other)
BY DEF IInv, ModerationInv, OneChange

LEMMA StartEffect ==
  ASSUME IInv, NEW hd \in Handlers, NEW c \in Calls, StartChanging(hd, c)
  PROVE  /\ Moves(hd, c) /\ call[hd] = Idle
         /\ changes' \in 0..MaxChanges
         /\ raced' \in BOOLEAN
         /\ ~raced' => ~raced /\ \A other \in Handlers : ~Moderates(other)
<1>1. Moves(hd, c) /\ call[hd] = Idle
  BY BeginEffect DEF StartChanging, IInv
<1>2. changes' \in 0..MaxChanges
  BY ListingsAssumption DEF StartChanging, IInv, TypeOK
<1>3. ~Moderates(hd)
  BY <1>1 DEF Moderates, Idle, ModeratingSteps
<1>. QED  BY <1>1, <1>2, <1>3 DEF StartChanging, IInv, TypeOK

LEMMA CreateKeepsIInv ==
  ASSUME IInv, NEW hd \in Handlers, NEW parts \in SUBSET Parts, Create(hd, parts)
  PROVE  IInv'
<1>. PICK c : c = [Idle EXCEPT !.pc = "log"]
  OBVIOUS
<1>1. c \in Calls /\ c.pc = "log"
  BY DEF Calls, Idle, ModeratingSteps
<1>2. /\ Moves(hd, c) /\ changes' \in 0..MaxChanges /\ raced' \in BOOLEAN
      /\ ~raced' => ~raced /\ \A other \in Handlers : ~Moderates(other)
  BY <1>1, StartEffect DEF Create
<1>3. /\ status = "ABSENT" /\ status' = Published(parts) /\ content' = parts /\ revision' = 1
      /\ by' = "owner" /\ edits' = 0 /\ UNCHANGED <<messages, boosts, now, crashes>>
      /\ status' \in {"APPROVED", "PENDING"}
  BY DEF Create, Published
<1>4. TypeOK'
  BY <1>2, <1>3 DEF IInv, TypeOK, Moves, Statuses, Decisions, messages, boosts
<1>5. BoostInv'
  BY <1>1, <1>2, <1>3, BoostsUntouched DEF Exists, Decisions, BoostingSteps
<1>6. OwnerPublishes' /\ RevisionCountsEdits'
  BY <1>3 DEF OwnerPublishes, RevisionCountsEdits, Published
<1>7. OneChange'
  BY <1>2 DEF OneChange, Moderates, Moves
<1>8. ChangesKnow'
  BY <1>1, <1>2, <1>3 DEF ChangesKnow, ChangeKnows, Moderates, Moves, ModeratingSteps
<1>9. Told'
  BY <1>1, <1>2 DEF Told, Telling, Moves
<1>10. DecisionIsMade'
  BY <1>1, <1>2, DecisionMoves
<1>. QED  BY <1>4, <1>5, <1>6, <1>7, <1>8, <1>9, <1>10 DEF IInv, ModerationInv

\* An edit or a decision begins.
LEMMA BeginKeepsIInv ==
  ASSUME IInv, NEW hd \in Handlers, NEW c \in Calls, StartChanging(hd, c),
         c.pc \in {"edit.update", "decide.update"}, ChangeKnows(c), c.pc = "decide.update" => c.to \in Decisions,
         UNCHANGED <<listing, messages, boosts, now, crashes>>
  PROVE  IInv'
<1>1. /\ Moves(hd, c) /\ call[hd] = Idle /\ changes' \in 0..MaxChanges /\ raced' \in BOOLEAN
      /\ ~raced' => ~raced /\ \A other \in Handlers : ~Moderates(other)
  BY StartEffect
<1>2. TypeOK'
  BY <1>1 DEF IInv, TypeOK, Moves, listing, messages, boosts
<1>3. BoostInv'
  BY <1>1, BoostsUntouched DEF BoostingSteps, listing, Exists
<1>4. OwnerPublishes' /\ RevisionCountsEdits'
  BY <1>1 DEF OwnerPublishes, RevisionCountsEdits, Published, Exists, IInv, ModerationInv, listing
<1>5. OneChange'
  BY <1>1 DEF OneChange, Moderates, Moves
<1>6. ChangesKnow'
  BY <1>1 DEF ChangesKnow, ChangeKnows, Moderates, Moves, ModeratingSteps, listing, messages
<1>7. Told'
  BY <1>1 DEF Told, Telling, Moves, IInv, ModerationInv, Exists, listing, messages, Moderates, ModeratingSteps
<1>8. DecisionIsMade'
  BY <1>1, DecisionMoves
<1>. QED  BY <1>2, <1>3, <1>4, <1>5, <1>6, <1>7, <1>8 DEF IInv, ModerationInv

LEMMA EditKeepsIInv ==
  ASSUME IInv, NEW hd \in Handlers, NEW given \in SUBSET Parts, NEW filled \in SUBSET given, Edit(hd, given, filled)
  PROVE  IInv'
<1>. PICK c : c = [Idle EXCEPT !.pc = "edit.update", !.parts = (content \ given) \cup filled,
                               !.rev = revision + (IF status \in Decisions THEN 1 ELSE 0)]
  OBVIOUS
<1>1. revision + (IF status \in Decisions THEN 1 ELSE 0) \in Nat /\ (content \ given) \cup filled \subseteq Parts
  BY DEF IInv, TypeOK
<1>2. c \in Calls /\ c.pc = "edit.update" /\ c.rev = revision + (IF status \in Decisions THEN 1 ELSE 0)
  BY <1>1 DEF Calls, Idle, ModeratingSteps
<1>3. ChangeKnows(c)
  BY <1>2 DEF ChangeKnows
<1>. QED  BY <1>2, <1>3, BeginKeepsIInv DEF Edit

LEMMA DecideKeepsIInv ==
  ASSUME IInv, NEW hd \in Handlers, NEW to \in Decisions, Decide(hd, to)
  PROVE  IInv'
<1>. PICK c : c = [Idle EXCEPT !.pc = "decide.update", !.to = to]
  OBVIOUS
<1>1. c \in Calls /\ c.pc = "decide.update"
  BY DEF Calls, Idle, ModeratingSteps
<1>2. ChangeKnows(c) /\ c.to \in Decisions
  BY <1>1 DEF ChangeKnows, Idle
<1>. QED  BY <1>1, <1>2, BeginKeepsIInv DEF Decide

\* An update finds the listing deleted.
LEMMA TooLateKeepsIInv ==
  ASSUME IInv, NEW hd \in Handlers, ~Exists, Finish(hd), UNCHANGED <<listing, messages, boosts, now, changes, crashes, raced>>
  PROVE  IInv'
<1>1. Moves(hd, Idle) /\ Idle.pc = "idle"
  BY FinishEffect DEF IInv, Idle
<1>2. TypeOK'
  BY <1>1 DEF IInv, TypeOK, Moves, listing, messages, boosts
<1>3. BoostInv'
  BY <1>1, IdleIsACall, BoostsUntouched DEF listing, Exists, BoostingSteps
<1>4. ~Exists'
  BY DEF listing, Exists
<1>5. OneChange'
  BY <1>1 DEF IInv, ModerationInv, OneChange, Moves, Moderates, ModeratingSteps
<1>6. ModerationInv'
  BY <1>4, <1>5 DEF ModerationInv, OwnerPublishes, RevisionCountsEdits, ChangesKnow, Told
<1>7. DecisionIsMade'
  BY <1>1, IdleIsACall, DecisionMoves
<1>. QED  BY <1>2, <1>3, <1>6, <1>7 DEF IInv

LEMMA EditUpdateKeepsIInv ==
  ASSUME IInv, NEW hd \in Handlers, EditUpdate(hd)
  PROVE  IInv'
<1>1. CASE ~Exists
  BY <1>1, TooLateKeepsIInv DEF EditUpdate
<1>2. CASE Exists
  <2>. PICK c : c = [Idle EXCEPT !.pc = "log"]
    OBVIOUS
  <2>1. c \in Calls /\ c.pc = "log"
    BY DEF Calls, Idle, ModeratingSteps
  <2>2. /\ content' = call[hd].parts /\ status' = Published(content') /\ revision' = call[hd].rev
        /\ by' = "owner" /\ edits' = edits + (IF status \in Decisions THEN 1 ELSE 0)
        /\ UNCHANGED <<messages, boosts, now, changes, crashes, raced>> /\ call[hd].pc = "edit.update"
    BY <1>2 DEF EditUpdate, At
  <2>3. Moves(hd, c) /\ status' \in {"APPROVED", "PENDING"} /\ Moderates(hd)
    BY <1>2, <2>1, <2>2, SlotEffect DEF EditUpdate, Published, Moderates, ModeratingSteps, IInv
  <2>4. TypeOK'
    BY <2>2, <2>3, CallFields DEF IInv, TypeOK, Moves, messages, boosts, Statuses, Decisions
  <2>5. BoostInv'
    BY <1>2, <2>1, <2>2, <2>3, BoostsUntouched DEF BoostingSteps
  <2>6. OwnerPublishes'
    BY <2>2 DEF OwnerPublishes, Published
  <2>7. RevisionCountsEdits'
    <3>. SUFFICES ASSUME ~raced
                  PROVE  revision' = 1 + edits'
      BY <2>2 DEF RevisionCountsEdits
    <3>1. revision = 1 + edits /\ call[hd].rev = revision + (IF status \in Decisions THEN 1 ELSE 0)
      BY <1>2, <2>2 DEF IInv, ModerationInv, RevisionCountsEdits, ChangesKnow, ChangeKnows
    <3>. QED  BY <2>2, <3>1 DEF IInv, TypeOK
  <2>8. OneChange'
    BY <2>2, <2>3 DEF IInv, ModerationInv, OneChange, Moderates, Moves
  <2>9. ChangesKnow'
    <3>. SUFFICES ASSUME ~raced, NEW other \in Handlers
                  PROVE  ChangeKnows(call[other])'
      BY <2>2 DEF ChangesKnow
    <3>1. CASE other = hd
      BY <2>1, <2>2, <2>3, <3>1 DEF ChangeKnows, Moves
    <3>2. CASE other # hd
      BY <2>3, <3>2, Alone DEF ChangeKnows, Moves, Moderates, ModeratingSteps
    <3>. QED  BY <3>1, <3>2
  <2>10. Told'
    BY <2>1, <2>3 DEF Told, Telling, Moves
  <2>11. DecisionIsMade'
    BY <2>1, <2>3, DecisionMoves
  <2>. QED  BY <2>4, <2>5, <2>6, <2>7, <2>8, <2>9, <2>10, <2>11 DEF IInv, ModerationInv
<1>. QED  BY <1>1, <1>2

LEMMA LogKeepsIInv ==
  ASSUME IInv, NEW hd \in Handlers, Log(hd)
  PROVE  IInv'
<1>1. /\ call[hd].pc = "log" /\ event' = "APPROVED" /\ UNCHANGED <<listing, notice, boosts, now, changes, crashes, raced>>
      /\ Moves(hd, Idle) /\ Idle.pc = "idle" /\ Moderates(hd)
  BY FinishEffect DEF Log, At, IInv, Idle, Moderates, ModeratingSteps
<1>2. TypeOK'
  BY <1>1 DEF IInv, TypeOK, Moves, listing, boosts, Decisions
<1>3. BoostInv'
  BY <1>1, IdleIsACall, BoostsUntouched DEF listing, Exists, BoostingSteps
<1>4. OwnerPublishes' /\ RevisionCountsEdits'
  BY <1>1 DEF OwnerPublishes, RevisionCountsEdits, Published, Exists, IInv, ModerationInv, listing
<1>5. OneChange'
  BY <1>1 DEF IInv, ModerationInv, OneChange, Moderates, Moves, ModeratingSteps
<1>6. ChangesKnow'
  <2>. SUFFICES ASSUME ~raced, NEW other \in Handlers
                PROVE  ChangeKnows(call[other])'
    BY <1>1 DEF ChangesKnow
  <2>. call'[other].pc \notin ModeratingSteps
    BY <1>1, Alone DEF Moves, Moderates, ModeratingSteps
  <2>. QED  BY DEF ChangeKnows, ModeratingSteps
<1>7. Told'
  <2>. SUFFICES ASSUME Exists, ~raced
                PROVE  by = "owner" /\ (content = Parts => status = "APPROVED")
    BY <1>1 DEF Told, Exists, listing
  <2>. QED  BY <1>1 DEF IInv, ModerationInv, ChangesKnow, ChangeKnows, OwnerPublishes, Published
<1>8. DecisionIsMade'
  BY <1>1, IdleIsACall, DecisionMoves
<1>. QED  BY <1>2, <1>3, <1>4, <1>5, <1>6, <1>7, <1>8 DEF IInv, ModerationInv

LEMMA DecideUpdateKeepsIInv ==
  ASSUME IInv, NEW hd \in Handlers, DecideUpdate(hd)
  PROVE  IInv'
<1>1. CASE ~Exists
  BY <1>1, TooLateKeepsIInv DEF DecideUpdate
<1>2. CASE Exists
  <2>1. /\ status' = call[hd].to /\ by' = "moderator" /\ UNCHANGED <<content, revision, edits>>
        /\ UNCHANGED <<messages, boosts, now, changes, crashes, raced>> /\ call[hd].pc = "decide.update"
        /\ Continue(hd, "decide.record") /\ Moderates(hd) /\ call[hd].to \in Decisions
    BY <1>2 DEF DecideUpdate, At, Moderates, ModeratingSteps, IInv, DecisionIsMade
  <2>2. PICK c \in Calls : Moves(hd, c) /\ c.pc = "decide.record" /\ c.to = call[hd].to
    BY <2>1, ContinueEffect DEF IInv, ModeratingSteps
  <2>3. TypeOK'
    BY <2>1, <2>2 DEF IInv, TypeOK, Moves, messages, boosts, Statuses, Decisions
  <2>4. BoostInv'
    BY <1>2, <2>1, <2>2, BoostsUntouched DEF BoostingSteps, Decisions
  <2>5. OwnerPublishes' /\ RevisionCountsEdits'
    BY <1>2, <2>1 DEF OwnerPublishes, RevisionCountsEdits, IInv, ModerationInv
  <2>6. OneChange'
    BY <2>1, <2>2 DEF IInv, ModerationInv, OneChange, Moderates, Moves
  <2>7. ChangesKnow'
    <3>. SUFFICES ASSUME ~raced, NEW other \in Handlers
                  PROVE  ChangeKnows(call[other])'
      BY <2>1 DEF ChangesKnow
    <3>1. CASE other = hd
      BY <2>1, <2>2, <3>1 DEF ChangeKnows, Moves
    <3>2. CASE other # hd
      BY <2>1, <2>2, <3>2, Alone DEF ChangeKnows, Moves, Moderates, ModeratingSteps
    <3>. QED  BY <3>1, <3>2
  <2>8. Told'
    BY <2>2 DEF Told, Telling, Moves
  <2>9. DecisionIsMade'
    BY <2>1, <2>2, DecisionMoves
  <2>. QED  BY <2>3, <2>4, <2>5, <2>6, <2>7, <2>8, <2>9 DEF IInv, ModerationInv
<1>. QED  BY <1>1, <1>2

\* The decision is recorded, then the owner is told.
LEMMA DecisionTold ==
  ASSUME IInv, NEW hd \in Handlers, DecideRecord(hd) \/ DecideNotify(hd)
  PROVE  IInv'
<1>1. PICK c \in Calls : /\ Moves(hd, c)
                         /\ At(hd, "decide.record") => c.pc = "decide.notify" /\ c.to = call[hd].to
                         /\ At(hd, "decide.notify") => c.pc = "idle"
  <2>1. CASE DecideRecord(hd)
    BY <2>1, ContinueEffect DEF DecideRecord, At, IInv, ModeratingSteps
  <2>2. CASE DecideNotify(hd)
    BY <2>2, IdleIsACall, FinishEffect DEF DecideNotify, At, IInv, Idle
  <2>. QED  BY <2>1, <2>2
<1>2. /\ call[hd].pc \in {"decide.record", "decide.notify"}
      /\ call[hd].pc = "decide.record" => event' = call[hd].to /\ notice' = notice
      /\ call[hd].pc = "decide.notify" => event' = event /\ notice' = call[hd].to
      /\ UNCHANGED <<listing, boosts, now, changes, crashes, raced>>
  BY DEF DecideRecord, DecideNotify, At
<1>3. Moderates(hd) /\ call[hd].to \in Decisions
  BY <1>2 DEF Moderates, ModeratingSteps, IInv, DecisionIsMade
<1>4. TypeOK'
  BY <1>1, <1>2, <1>3 DEF IInv, TypeOK, Moves, listing, boosts, Decisions
<1>5. BoostInv'
  BY <1>1, <1>2, BoostsUntouched DEF listing, Exists, BoostingSteps, At
<1>6. DecisionIsMade'
  BY <1>1, <1>2, <1>3, DecisionMoves DEF At
<1>7. OwnerPublishes' /\ RevisionCountsEdits'
  BY <1>2 DEF OwnerPublishes, RevisionCountsEdits, Published, Exists, IInv, ModerationInv, listing
<1>8. OneChange'
  BY <1>1, <1>2, <1>3 DEF IInv, ModerationInv, OneChange, Moderates, Moves, ModeratingSteps, At
<1>9. ASSUME Exists, ~raced
      PROVE  by = "moderator" /\ status = call[hd].to /\ (call[hd].pc = "decide.notify" => event = call[hd].to)
  BY <1>2, <1>9 DEF IInv, ModerationInv, ChangesKnow, ChangeKnows
<1>10. ChangesKnow'
  <2>. SUFFICES ASSUME Exists, ~raced, NEW other \in Handlers
                PROVE  ChangeKnows(call[other])'
    BY <1>2 DEF ChangesKnow, Exists, listing
  <2>1. CASE other = hd
    BY <1>1, <1>2, <1>9, <2>1 DEF ChangeKnows, Moves, At, listing
  <2>2. CASE other # hd
    BY <1>1, <1>3, <2>2, Alone DEF ChangeKnows, Moves, Moderates, ModeratingSteps
  <2>. QED  BY <2>1, <2>2
<1>11. Told'
  BY <1>1, <1>2, <1>9 DEF Told, Telling, Moves, Exists, listing, At
<1>. QED  BY <1>4, <1>5, <1>6, <1>7, <1>8, <1>10, <1>11 DEF IInv, ModerationInv

----------------------------------------------------------------------------
(* Boosts *)

\* Nobody else settles a boost while hd does, unless they are raced.
LEMMA AloneBoosting ==
  ASSUME IInv, NEW hd \in Handlers, ~boostRaced, Boosts(hd), NEW other \in Handlers \ {hd}
  PROVE  ~Boosts(other)
BY DEF IInv, BoostInv, OneBoost

LEMMA CheckoutKeepsIInv ==
  ASSUME IInv, NEW p \in Payments, Checkout(p) \/ Pay(p)
  PROVE  IInv'
<1>1. /\ UNCHANGED <<listing, messages, boost, bought, boostRaced, now, changes, call, crashes, raced>>
      /\ payment' \in [Payments -> {"NONE", "PENDING", "COMPLETED"}] /\ collected' \subseteq Payments
      /\ \A q \in Payments : payment'[q] # payment[q] => Exists /\ payment[q] = "NONE"
  BY DEF Checkout, Pay, IInv, TypeOK
<1>2. TypeOK' /\ DecisionIsMade'
  BY <1>1 DEF IInv, TypeOK, DecisionIsMade, listing, messages
<1>3. ModerationInv'
  <2>1. OwnerPublishes' /\ RevisionCountsEdits' /\ OneChange'
    BY <1>1 DEF IInv, ModerationInv, OwnerPublishes, RevisionCountsEdits, OneChange, Moderates, Published, Exists, listing
  <2>2. ChangesKnow' /\ Told'
    BY <1>1 DEF IInv, ModerationInv, ChangesKnow, ChangeKnows, Told, Exists, listing, messages
  <2>. QED  BY <2>1, <2>2 DEF ModerationInv
<1>4. BoostIsWhatWasBought' /\ OneBoost'
  BY <1>1 DEF IInv, BoostInv, BoostIsWhatWasBought, OneBoost, Boosts, Exists, listing
<1>5. BoostsKnow'
  <2>. SUFFICES ASSUME Exists, ~boostRaced, NEW hd \in Handlers
                PROVE  BoostKnows(call[hd])'
    BY <1>1 DEF BoostsKnow, Exists, listing
  <2>1. BoostKnows(call[hd])
    BY DEF IInv, BoostInv, BoostsKnow
  <2>. QED  BY <1>1, <2>1 DEF BoostKnows
<1>6. NothingBought'
  BY <1>1 DEF IInv, BoostInv, NothingBought, Boosts, Exists, Decisions, listing
<1>. QED  BY <1>2, <1>3, <1>4, <1>5, <1>6 DEF IInv, BoostInv

LEMMA DeliverKeepsIInv ==
  ASSUME IInv, NEW hd \in Handlers, NEW p \in Payments, Deliver(hd, p)
  PROVE  IInv'
<1>. PICK c : c = [Idle EXCEPT !.pc = "boost.read", !.pay = p]
  OBVIOUS
<1>1. c \in Calls /\ c.pc = "boost.read" /\ c.pay = p
  BY DEF Calls, Idle, BoostingSteps
<1>2. /\ Moves(hd, c) /\ call[hd] = Idle /\ payment[p] = "PENDING"
      /\ boostRaced' \in BOOLEAN /\ (~boostRaced' => ~boostRaced /\ \A other \in Handlers \ {hd} : ~Boosts(other))
      /\ UNCHANGED <<listing, messages, boost, payment, collected, bought, now, changes, crashes, raced>>
  BY <1>1, BeginEffect DEF Deliver, IInv, TypeOK
<1>3. TypeOK'
  BY <1>2 DEF IInv, TypeOK, Moves, listing, messages
<1>4. ModerationInv'
  <2>1. c.pc \notin ModeratingSteps /\ ~Moderates(hd)
    BY <1>1, <1>2 DEF ModeratingSteps, Moderates, Idle
  <2>2. UNCHANGED <<listing, messages, raced>> /\ (crashes' = 0 => crashes = 0)
    BY <1>2
  <2>. QED  BY <1>1, <1>2, <2>1, <2>2, ModerationUntouched
<1>5. DecisionIsMade'
  BY <1>1, <1>2, DecisionMoves
<1>6. BoostIsWhatWasBought' /\ NothingBought'
  BY <1>2 DEF IInv, BoostInv, BoostIsWhatWasBought, NothingBought, Exists, listing
<1>7. OneBoost'
  BY <1>2 DEF OneBoost, Boosts, Moves
<1>8. BoostsKnow'
  <2>. SUFFICES ASSUME ~boostRaced', NEW other \in Handlers
                PROVE  BoostKnows(call[other])'
    BY DEF BoostsKnow
  <2>1. CASE other = hd
    BY <1>1, <1>2, <2>1 DEF BoostKnows, Moves
  <2>2. CASE other # hd
    BY <1>2, <2>2 DEF BoostKnows, Moves, Boosts, BoostingSteps
  <2>. QED  BY <2>1, <2>2
<1>. QED  BY <1>3, <1>4, <1>5, <1>6, <1>7, <1>8 DEF IInv, BoostInv

LEMMA BoostReadKeepsIInv ==
  ASSUME IInv, NEW hd \in Handlers, BoostRead(hd)
  PROVE  IInv'
<1>. PICK exp : exp = nextBoostExpiry(IF Exists THEN boost ELSE 0, now)
  OBVIOUS
<1>. PICK c : c = [call[hd] EXCEPT !.pc = "boost.update", !.at = now, !.exp = exp]
  OBVIOUS
<1>1. exp \in Nat /\ now \in Nat /\ call[hd].pc = "boost.read" /\ call[hd] \in Calls
  BY ListingsAssumption, ExpiryIsNat DEF IInv, TypeOK, BoostRead, At
<1>2. c \in Calls /\ c.pc = "boost.update" /\ c.pay = call[hd].pay /\ c.at = now /\ c.exp = exp
  BY <1>1 DEF Calls, BoostingSteps
<1>3. Moves(hd, c) /\ UNCHANGED <<listing, messages, boosts, now, changes, crashes, raced>>
  BY <1>2, SlotEffect DEF BoostRead, IInv
<1>4. TypeOK'
  BY <1>3 DEF IInv, TypeOK, Moves, listing, messages, boosts
<1>5. ModerationInv'
  BY <1>1, <1>2, <1>3, ModerationUntouched DEF ModeratingSteps, Moderates
<1>6. DecisionIsMade'
  BY <1>2, <1>3, DecisionMoves
<1>7. BoostIsWhatWasBought'
  BY <1>3 DEF IInv, BoostInv, BoostIsWhatWasBought, Exists, listing, boosts
<1>8. OneBoost' /\ NothingBought'
  BY <1>1, <1>2, <1>3 DEF IInv, BoostInv, OneBoost, NothingBought, Boosts, BoostingSteps, Moves, listing, boosts
<1>9. BoostsKnow'
  <2>. SUFFICES ASSUME Exists, ~boostRaced, NEW other \in Handlers
                PROVE  BoostKnows(call[other])'
    BY <1>3 DEF BoostsKnow, Exists, listing, boosts
  <2>1. exp = nextBoostExpiry(bought, now) /\ payment[call[hd].pay] = "PENDING" /\ call[hd].pay \in Payments
    BY <1>1 DEF IInv, BoostInv, BoostIsWhatWasBought, BoostsKnow, BoostKnows, BoostingSteps
  <2>2. CASE other = hd
    BY <1>2, <1>3, <2>1, <2>2 DEF BoostKnows, Moves, boosts, nextBoostExpiry
  <2>3. CASE other # hd
    BY <1>3, <2>3 DEF BoostKnows, Moves, boosts, nextBoostExpiry, IInv, BoostInv, BoostsKnow
  <2>. QED  BY <2>2, <2>3
<1>. QED  BY <1>4, <1>5, <1>6, <1>7, <1>8, <1>9 DEF IInv, BoostInv

LEMMA BoostUpdateKeepsIInv ==
  ASSUME IInv, NEW hd \in Handlers, BoostUpdate(hd)
  PROVE  IInv'
<1>1. /\ call[hd].pc = "boost.update" /\ Moves(hd, Idle) /\ Idle.pc = "idle" /\ Boosts(hd)
      /\ UNCHANGED <<listing, messages, collected, boostRaced, now, changes, crashes, raced>>
  BY FinishEffect DEF BoostUpdate, At, IInv, Idle, Boosts, BoostingSteps
<1>2. \/ /\ Exists /\ boost' = call[hd].exp
         /\ payment' = [payment EXCEPT ![call[hd].pay] = "COMPLETED"]
         /\ bought' = IF payment[call[hd].pay] = "PENDING" THEN nextBoostExpiry(bought, call[hd].at) ELSE bought
      \/ ~Exists /\ UNCHANGED <<boost, payment, bought>>
  BY DEF BoostUpdate
<1>3. TypeOK'
  <2>1. boost' \in Nat /\ bought' \in Nat
    <3>1. call[hd].exp \in Nat /\ call[hd].at \in Nat /\ bought \in Nat /\ boost \in Nat
      BY CallFields DEF IInv, TypeOK
    <3>2. nextBoostExpiry(bought, call[hd].at) \in Nat
      BY <3>1, ExpiryIsNat
    <3>. QED  BY <1>2, <3>1, <3>2
  <2>2. payment' \in [Payments -> {"NONE", "PENDING", "COMPLETED"}]
    BY <1>2 DEF IInv, TypeOK
  <2>. QED  BY <1>1, <2>1, <2>2 DEF IInv, TypeOK, Moves, listing, messages
<1>4. ModerationInv'
  BY <1>1, IdleIsACall, ModerationUntouched DEF ModeratingSteps, Moderates
<1>5. DecisionIsMade'
  BY <1>1, IdleIsACall, DecisionMoves
<1>6. BoostIsWhatWasBought'
  <2>. SUFFICES ASSUME Exists, ~boostRaced
                PROVE  boost' = bought'
    BY <1>1 DEF BoostIsWhatWasBought, Exists, listing
  <2>1. payment[call[hd].pay] = "PENDING" /\ call[hd].exp = nextBoostExpiry(bought, call[hd].at)
    BY <1>1 DEF IInv, BoostInv, BoostsKnow, BoostKnows, BoostingSteps
  <2>. QED  BY <1>2, <2>1
<1>7. OneBoost'
  BY <1>1 DEF IInv, BoostInv, OneBoost, Moves, Boosts, BoostingSteps
<1>8. NothingBought'
  BY <1>1, <1>2 DEF IInv, BoostInv, NothingBought, Moves, Boosts, BoostingSteps, listing, Exists, Decisions
<1>9. BoostsKnow'
  <2>. SUFFICES ASSUME ~boostRaced, NEW other \in Handlers
                PROVE  BoostKnows(call[other])'
    BY <1>1 DEF BoostsKnow
  <2>. call'[other].pc \notin BoostingSteps
    BY <1>1, AloneBoosting DEF Moves, Boosts, BoostingSteps
  <2>. QED  BY DEF BoostKnows, BoostingSteps
<1>. QED  BY <1>3, <1>4, <1>5, <1>6, <1>7, <1>8, <1>9 DEF IInv, BoostInv

----------------------------------------------------------------------------
(* Deletion, time and crashes *)

LEMMA DeleteKeepsIInv ==
  ASSUME IInv, Delete
  PROVE  IInv'
<1>1. /\ status' = "DELETED" /\ Exists
      /\ UNCHANGED <<content, revision, by, edits, messages, boosts, now, changes, call, crashes, raced>>
  BY DEF Delete
<1>2. ~Exists'
  BY <1>1 DEF Exists, Decisions
<1>3. TypeOK' /\ DecisionIsMade'
  BY <1>1 DEF IInv, TypeOK, DecisionIsMade, messages, boosts, Statuses
<1>4. OneChange' /\ OneBoost' /\ NothingBought'
  BY <1>1 DEF IInv, ModerationInv, BoostInv, OneChange, OneBoost, NothingBought, Moderates, Boosts, boosts
<1>5. ModerationInv'
  BY <1>2, <1>4 DEF ModerationInv, OwnerPublishes, RevisionCountsEdits, ChangesKnow, Told
<1>6. BoostInv'
  BY <1>2, <1>4 DEF BoostInv, BoostIsWhatWasBought, BoostsKnow
<1>. QED  BY <1>3, <1>5, <1>6 DEF IInv

LEMMA CrashKeepsIInv ==
  ASSUME IInv, NEW hd \in Handlers, Crash(hd)
  PROVE  IInv'
<1>1. /\ Moves(hd, Idle) /\ Idle.pc = "idle" /\ crashes' = crashes + 1 /\ crashes < MaxCrashes
      /\ UNCHANGED <<listing, messages, boosts, now, changes, raced>>
  BY FinishEffect DEF Crash, IInv, Idle
<1>2. TypeOK' /\ crashes' # 0
  BY <1>1, ListingsAssumption DEF IInv, TypeOK, Moves, listing, messages, boosts
<1>3. ModerationInv'
  BY <1>1, <1>2, IdleIsACall, ModerationUntouched DEF ModeratingSteps
<1>4. BoostInv'
  BY <1>1, IdleIsACall, BoostsUntouched DEF listing, Exists, BoostingSteps
<1>5. DecisionIsMade'
  BY <1>1, IdleIsACall, DecisionMoves
<1>. QED  BY <1>2, <1>3, <1>4, <1>5 DEF IInv

\* Steps that change at most the day
LEMMA TickKeepsIInv ==
  ASSUME IInv, UNCHANGED <<listing, messages, boosts, changes, call, crashes, raced>>, now' \in 0..MaxTime
  PROVE  IInv'
<1>1. TypeOK' /\ DecisionIsMade'
  BY DEF IInv, TypeOK, DecisionIsMade, listing, messages, boosts
<1>2. OwnerPublishes' /\ RevisionCountsEdits' /\ OneChange'
  BY DEF IInv, ModerationInv, OwnerPublishes, RevisionCountsEdits, OneChange, Moderates, Published, Exists, listing
<1>3. ChangesKnow' /\ Told'
  BY DEF IInv, ModerationInv, ChangesKnow, ChangeKnows, Told, Exists, listing, messages
<1>4. BoostIsWhatWasBought' /\ OneBoost' /\ NothingBought'
  BY DEF IInv, BoostInv, BoostIsWhatWasBought, OneBoost, NothingBought, Boosts, Exists, listing, boosts
<1>5. BoostsKnow'
  BY DEF IInv, BoostInv, BoostsKnow, BoostKnows, nextBoostExpiry, Exists, listing, boosts
<1>. QED  BY <1>1, <1>2, <1>3, <1>4, <1>5 DEF IInv, ModerationInv, BoostInv

----------------------------------------------------------------------------
(* The inductive invariant *)

LEMMA InitIInv == Init => IInv
<1>. SUFFICES ASSUME Init
              PROVE  IInv
  OBVIOUS
<1>1. TypeOK
  <2>1. call \in [Handlers -> Calls] /\ 0 \in 0..MaxTime /\ 0 \in 0..MaxChanges /\ 0 \in 0..MaxCrashes
    BY IdleIsACall, ListingsAssumption DEF Init
  <2>. QED  BY <2>1 DEF Init, TypeOK, Statuses
<1>2. ~Exists /\ \A hd \in Handlers : call[hd].pc = "idle"
  BY DEF Init, Exists, Decisions, Idle
<1>3. DecisionIsMade /\ ModerationInv
  BY <1>2 DEF DecisionIsMade, ModerationInv, OwnerPublishes, RevisionCountsEdits, OneChange, ChangesKnow, Told, Moderates, ModeratingSteps
<1>4. BoostInv
  BY <1>2 DEF Init, BoostInv, BoostIsWhatWasBought, OneBoost, BoostsKnow, NothingBought, Boosts, BoostingSteps
<1>. QED  BY <1>1, <1>3, <1>4 DEF IInv

LEMMA NextIInv == IInv /\ [Next]_vars => IInv'
<1>. SUFFICES ASSUME IInv, [Next]_vars
              PROVE  IInv'
  OBVIOUS
<1>1. ASSUME NEW hd \in Handlers, Moderation(hd)
      PROVE  IInv'
  BY <1>1, CreateKeepsIInv, EditKeepsIInv, EditUpdateKeepsIInv, LogKeepsIInv, DecideKeepsIInv,
     DecideUpdateKeepsIInv, DecisionTold DEF Moderation
<1>2. ASSUME NEW hd \in Handlers, Boosting(hd)
      PROVE  IInv'
  BY <1>2, DeliverKeepsIInv, BoostReadKeepsIInv, BoostUpdateKeepsIInv DEF Boosting
<1>3. CASE Tick
  BY <1>3, TickKeepsIInv, ListingsAssumption DEF Tick, IInv, TypeOK
<1>4. CASE UNCHANGED vars
  BY <1>4, TickKeepsIInv DEF vars, IInv, TypeOK
<1>. QED  BY <1>1, <1>2, <1>3, <1>4, CheckoutKeepsIInv, DeleteKeepsIInv, CrashKeepsIInv DEF Next

LEMMA Inductive == Spec => []IInv
BY InitIInv, NextIInv, PTL DEF Spec

----------------------------------------------------------------------------
(* What follows *)

\* Every variable keeps its type.
THEOREM TypeCorrect == Spec => []TypeOK
<1>1. IInv => TypeOK
  BY DEF IInv
<1>. QED  BY <1>1, Inductive, PTL

\* An edit never publishes a listing that lacks something.
THEOREM OnlyCompletePublished == Spec => []PublishedIsComplete
<1>1. IInv => PublishedIsComplete
  BY DEF IInv, ModerationInv, OwnerPublishes, Published, PublishedIsComplete, Exists, Decisions
<1>. QED  BY <1>1, Inductive, PTL

\* The revision counts the edits that nothing overlapped.
THEOREM EditsCounted == Spec => []RevisionCountsEdits
<1>1. IInv => RevisionCountsEdits
  BY DEF IInv, ModerationInv
<1>. QED  BY <1>1, Inductive, PTL

\* The events and the notice agree with the status once nothing is under way.
THEOREM EventsAgree == Spec => []EventsTellStatus
<1>1. IInv => EventsTellStatus
  BY DEF IInv, ModerationInv, Told, Telling, EventsTellStatus, Moderates, ModeratingSteps
<1>. QED  BY <1>1, Inductive, PTL

\* Both together: the record tells what happened to the listing.
THEOREM RecordIsTrue == Spec => []RecordTellsChanges
BY EditsCounted, EventsAgree, PTL DEF RecordTellsChanges

\* A boost lasts as long as was paid for, unless two settlements overlap.
THEOREM BoostAsBought == Spec => []BoostIsWhatWasBought
<1>1. IInv => BoostIsWhatWasBought
  BY DEF IInv, BoostInv
<1>. QED  BY <1>1, Inductive, PTL
=============================================================================
