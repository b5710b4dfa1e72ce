------------------------------ MODULE Listings ------------------------------
(***************************************************************************)
(* One venue or service in the catalogue: its publication, the edits of    *)
(* its owner, the decisions of a moderator, and the boosts bought for it.  *)
(*                                                                         *)
(* Parts are what a service needs before it may be published (category,    *)
(* area, price, picture, description); a venue needs none of them, so that *)
(* it is the listing with Parts = {}.                                      *)
(*                                                                         *)
(* call[hd] is the invocation in flight in slot hd; every awaited query is *)
(* one step. Stripe delivers the event of a collected payment any number   *)
(* of times, also at the same time.                                        *)
(*                                                                         *)
(* by, edits, bought, raced and boostRaced are history variables.          *)
(***************************************************************************)
EXTENDS Naturals

CONSTANTS
    Parts,       \* what must be filled in before a listing is published
    Payments,    \* boosts that may be bought
    Days,        \* length of a boost
    Handlers,    \* invocations in flight at the same time
    MaxTime,     \* bound: the last day
    MaxChanges,  \* bound: edits and decisions
    MaxCrashes,  \* bound: invocations that die half way
    None         \* no value

ASSUME ListingsAssumption ==
    /\ Days \in Nat \ {0}
    /\ MaxTime \in Nat
    /\ MaxChanges \in Nat
    /\ MaxCrashes \in Nat
    /\ None \notin Payments

VARIABLES
    status,     \* moderationStatus, ABSENT or DELETED
    content,    \* the parts that are filled in
    revision,   \* contentRevision
    event,      \* toStatus of the last ListingModerationEvent
    notice,     \* the decision in the last notification to the owner
    boost,      \* boostExpiresAt, 0 when never boosted
    payment,    \* status of the Payment rows
    collected,  \* payments Stripe has collected
    now,        \* the current day
    changes,    \* edits and decisions begun
    call,       \* the in-flight invocations
    crashes,    \* invocations that have died so far
    by,         \* history: who wrote the status last
    edits,      \* history: edits of the listing once published or rejected
    bought,     \* history: the end of the days paid for
    raced,      \* history: two edits or decisions overlapped
    boostRaced  \* history: two settlements of boosts overlapped

listing  == <<status, content, revision, by, edits>>
messages == <<event, notice>>
boosts   == <<boost, payment, collected, bought, boostRaced>>
vars == <<listing, messages, boosts, now, changes, call, crashes, raced>>

----------------------------------------------------------------------------
(* Listings and invocations *)

Decisions == {"APPROVED", "REJECTED"}
Statuses  == {"ABSENT", "PENDING", "DELETED"} \cup Decisions
Exists    == status \in {"PENDING"} \cup Decisions

ModeratingSteps == {"edit.update", "log", "decide.update", "decide.record", "decide.notify"}
BoostingSteps   == {"boost.read", "boost.update"}

\* parts: the content to be written; rev: its revision; to: the decision;
\* pay: the payment to settle; at: the day on which exp was computed.
Calls == [pc : {"idle"} \cup ModeratingSteps \cup BoostingSteps,
          parts : SUBSET Parts, rev : Nat, to : Decisions \cup {None},
          pay : Payments \cup {None}, at : Nat, exp : Nat]

Idle == [pc |-> "idle", parts |-> {}, rev |-> 0, to |-> None, pay |-> None, at |-> 0, exp |-> 0]

At(hd, pc)       == call[hd].pc = pc
Become(hd, c)    == call' = [call EXCEPT ![hd] = c]
Begin(hd, c)     == call[hd] = Idle /\ Become(hd, c)
Continue(hd, pc) == Become(hd, [call[hd] EXCEPT !.pc = pc])
Finish(hd)       == Become(hd, Idle)

Moderates(hd) == call[hd].pc \in ModeratingSteps
Boosts(hd)    == call[hd].pc \in BoostingSteps

\* An edit or decision begins: it may overlap another.
StartChanging(hd, c) ==
    /\ changes < MaxChanges
    /\ changes' = changes + 1
    /\ Begin(hd, c)
    /\ raced' = (raced \/ \E other \in Handlers \ {hd} : Moderates(other))

TypeOK ==
    /\ status \in Statuses /\ content \subseteq Parts /\ revision \in Nat
    /\ event \in Decisions \cup {None} /\ notice \in Decisions \cup {None}
    /\ boost \in Nat
    /\ payment \in [Payments -> {"NONE", "PENDING", "COMPLETED"}]
    /\ collected \subseteq Payments
    /\ now \in 0..MaxTime /\ changes \in 0..MaxChanges /\ crashes \in 0..MaxCrashes
    /\ call \in [Handlers -> Calls]
    /\ by \in {"owner", "moderator"} /\ edits \in Nat /\ bought \in Nat
    /\ raced \in BOOLEAN /\ boostRaced \in BOOLEAN

Init ==
    /\ status = "ABSENT" /\ content = {} /\ revision = 0
    /\ event = None /\ notice = None
    /\ boost = 0 /\ payment = [p \in Payments |-> "NONE"] /\ collected = {}
    /\ now = 0 /\ changes = 0 /\ crashes = 0
    /\ call = [hd \in Handlers |-> Idle]
    /\ by = "owner" /\ edits = 0 /\ bought = 0
    /\ raced = FALSE /\ boostRaced = FALSE

----------------------------------------------------------------------------
(* The owner creates, edits and deletes the listing *)

\* Mutant: an incomplete listing is neither published nor pending.
Published_Draft(parts) == IF parts = Parts THEN "APPROVED" ELSE "DRAFT"

\* moderationFieldsForServiceCreate and ForServiceOwnerEdit: only a complete
\* listing is published, at once.
Published(parts) == IF parts = Parts THEN "APPROVED" ELSE "PENDING"

Create(hd, parts) ==
    /\ status = "ABSENT"
    /\ status' = Published(parts) /\ content' = parts /\ revision' = 1
    /\ by' = "owner" /\ edits' = 0
    /\ StartChanging(hd, [Idle EXCEPT !.pc = "log"])
    /\ UNCHANGED <<messages, boosts, now, crashes>>

\* Mutant: the revision is not raised.
Edit_SameRevision(hd, given, filled) ==
    /\ Exists
    /\ StartChanging(hd, [Idle EXCEPT !.pc = "edit.update",
                                      !.parts = (content \ given) \cup filled,
                                      !.rev = revision])
    /\ UNCHANGED <<listing, messages, boosts, now, crashes>>

\* The row is read; the fields the form does not give keep what was read.
Edit(hd, given, filled) ==
    /\ Exists
    /\ StartChanging(hd, [Idle EXCEPT !.pc = "edit.update",
                                      !.parts = (content \ given) \cup filled,
                                      !.rev = revision + (IF status \in Decisions THEN 1 ELSE 0)])
    /\ UNCHANGED <<listing, messages, boosts, now, crashes>>

\* Mutants: the listing is judged as it was before the edit; the event is lost.
EditUpdate_JudgesOld(hd) ==
    /\ At(hd, "edit.update") /\ Exists
    /\ status' = Published(content)
    /\ content' = call[hd].parts /\ revision' = call[hd].rev
    /\ by' = "owner"
    /\ edits' = edits + (IF status \in Decisions THEN 1 ELSE 0)
    /\ Become(hd, [Idle EXCEPT !.pc = "log"])
    /\ UNCHANGED <<messages, boosts, now, changes, crashes, raced>>

EditUpdate_NotLogged(hd) ==
    /\ At(hd, "edit.update") /\ Exists
    /\ content' = call[hd].parts /\ status' = Published(content') /\ revision' = call[hd].rev
    /\ by' = "owner"
    /\ edits' = edits + (IF status \in Decisions THEN 1 ELSE 0)
    /\ Finish(hd)
    /\ UNCHANGED <<messages, boosts, now, changes, crashes, raced>>

\* All fields are written, as computed from what was read.
EditUpdate(hd) ==
    /\ At(hd, "edit.update")
    /\ \/ /\ Exists
          /\ content' = call[hd].parts /\ status' = Published(content') /\ revision' = call[hd].rev
          /\ by' = "owner"
          /\ edits' = edits + (IF status \in Decisions THEN 1 ELSE 0)
          /\ Become(hd, [Idle EXCEPT !.pc = "log"])
       \/ ~Exists /\ Finish(hd) /\ UNCHANGED listing
    /\ UNCHANGED <<messages, boosts, now, changes, crashes, raced>>

\* logListingSubmittedForReview says APPROVED, whatever has become of it.
Log(hd) ==
    /\ At(hd, "log")
    /\ event' = "APPROVED"
    /\ Finish(hd)
    /\ UNCHANGED <<listing, notice, boosts, now, changes, crashes, raced>>

\* By the owner or an administrator
Delete ==
    /\ Exists
    /\ status' = "DELETED"
    /\ UNCHANGED <<content, revision, by, edits, messages, boosts, now, changes, call, crashes, raced>>

----------------------------------------------------------------------------
(* applyListingModerationDecision *)

Decide(hd, to) ==
    /\ Exists
    /\ StartChanging(hd, [Idle EXCEPT !.pc = "decide.update", !.to = to])
    /\ UNCHANGED <<listing, messages, boosts, now, crashes>>

\* The update looks at neither the status nor the revision that was read.
DecideUpdate(hd) ==
    /\ At(hd, "decide.update")
    /\ \/ /\ Exists
          /\ status' = call[hd].to /\ by' = "moderator"
          /\ Continue(hd, "decide.record")
          /\ UNCHANGED <<content, revision, edits>>
       \/ ~Exists /\ Finish(hd) /\ UNCHANGED listing
    /\ UNCHANGED <<messages, boosts, now, changes, crashes, raced>>

DecideRecord(hd) ==
    /\ At(hd, "decide.record")
    /\ event' = call[hd].to
    /\ Continue(hd, "decide.notify")
    /\ UNCHANGED <<listing, notice, boosts, now, changes, crashes, raced>>

DecideNotify(hd) ==
    /\ At(hd, "decide.notify")
    /\ notice' = call[hd].to
    /\ Finish(hd)
    /\ UNCHANGED <<listing, event, boosts, now, changes, crashes, raced>>

----------------------------------------------------------------------------
(* Boosts *)

Checkout(p) ==
    /\ Exists /\ payment[p] = "NONE"
    /\ payment' = [payment EXCEPT ![p] = "PENDING"]
    /\ UNCHANGED <<listing, messages, boost, collected, bought, boostRaced>>
    /\ UNCHANGED <<now, changes, call, crashes, raced>>

Pay(p) ==
    /\ payment[p] = "PENDING" /\ p \notin collected
    /\ collected' = collected \cup {p}
    /\ UNCHANGED <<listing, messages, boost, payment, bought, boostRaced>>
    /\ UNCHANGED <<now, changes, call, crashes, raced>>

\* Mutant: a payment that is COMPLETED is settled again.
Deliver_Again(hd, p) ==
    /\ p \in collected
    /\ Begin(hd, [Idle EXCEPT !.pc = "boost.read", !.pay = p])
    /\ boostRaced' = (boostRaced \/ \E other \in Handlers \ {hd} : Boosts(other))
    /\ UNCHANGED <<listing, messages, boost, payment, collected, bought, now, changes, crashes, raced>>

\* checkout.session.completed arrives, for the first time or again.
Deliver(hd, p) ==
    /\ p \in collected /\ payment[p] = "PENDING"
    /\ Begin(hd, [Idle EXCEPT !.pc = "boost.read", !.pay = p])
    /\ boostRaced' = (boostRaced \/ \E other \in Handlers \ {hd} : Boosts(other))
    /\ UNCHANGED <<listing, messages, boost, payment, collected, bought, now, changes, crashes, raced>>

nextBoostExpiry(current, day) == (IF current > day THEN current ELSE day) + Days

BoostRead(hd) ==
    /\ At(hd, "boost.read")
    /\ Become(hd, [call[hd] EXCEPT !.pc = "boost.update", !.at = now,
                                   !.exp = nextBoostExpiry(IF Exists THEN boost ELSE 0, now)])
    /\ UNCHANGED <<listing, messages, boosts, now, changes, crashes, raced>>

\* One transaction, which fails when the listing is gone. A payment gives its
\* days once: bought counts them from the day of its first settlement.
BoostUpdate(hd) ==
    /\ At(hd, "boost.update")
    /\ \/ /\ Exists
          /\ boost' = call[hd].exp
          /\ payment' = [payment EXCEPT ![call[hd].pay] = "COMPLETED"]
          /\ bought' = IF payment[call[hd].pay] = "PENDING" THEN nextBoostExpiry(bought, call[hd].at) ELSE bought
       \/ ~Exists /\ UNCHANGED <<boost, payment, bought>>
    /\ Finish(hd)
    /\ UNCHANGED <<listing, messages, collected, boostRaced, now, changes, crashes, raced>>

----------------------------------------------------------------------------

Tick ==
    /\ now < MaxTime
    /\ now' = now + 1
    /\ UNCHANGED <<listing, messages, boosts, changes, call, crashes, raced>>

Crash(hd) ==
    /\ call[hd] # Idle
    /\ crashes < MaxCrashes
    /\ crashes' = crashes + 1
    /\ Finish(hd)
    /\ UNCHANGED <<listing, messages, boosts, now, changes, raced>>

Moderation(hd) ==
    \/ \E parts \in SUBSET Parts : Create(hd, parts)
    \/ \E given \in SUBSET Parts : \E filled \in SUBSET given : Edit(hd, given, filled)
    \/ EditUpdate(hd) \/ Log(hd)
    \/ \E to \in Decisions : Decide(hd, to)
    \/ DecideUpdate(hd) \/ DecideRecord(hd) \/ DecideNotify(hd)

Boosting(hd) ==
    \/ \E p \in Payments : Deliver(hd, p)
    \/ BoostRead(hd) \/ BoostUpdate(hd)

Next ==
    \/ \E hd \in Handlers : Moderation(hd) \/ Boosting(hd) \/ Crash(hd)
    \/ \E p \in Payments : Checkout(p) \/ Pay(p)
    \/ Delete \/ Tick

Spec == Init /\ [][Next]_vars

----------------------------------------------------------------------------
(* Properties *)

\* However edits overlap each other and decisions, an edit never publishes an
\* incomplete listing ("published only when the MVP is complete").
PublishedIsComplete ==
    status = "APPROVED" /\ by = "owner" => content = Parts

\* Unless two of them overlapped, every edit of a listing that was published
\* or rejected is counted by its revision.
RevisionCountsEdits ==
    Exists /\ ~raced => revision = 1 + edits

\* Once nothing is under way the last event tells the status, and the owner
\* has been told of a decision; unless changes overlapped or one died.
\* (An incomplete edit is logged as APPROVED and is left out here.)
EventsTellStatus ==
    Exists /\ ~raced /\ crashes = 0 /\ (\A hd \in Handlers : ~Moderates(hd)) =>
        /\ by = "moderator" => event = status /\ notice = status
        /\ by = "owner" /\ content = Parts => event = status

\* What is on record of a listing - its revision, its last event, the owner's
\* notice - tells what happened to it.
RecordTellsChanges == RevisionCountsEdits /\ EventsTellStatus

\* Unless two settlements of the listing overlapped, the boost ends when the
\* days that were paid for do: a payment extends it once, however often its
\* event is delivered, and on top of the days that are left.
BoostIsWhatWasBought ==
    Exists /\ ~boostRaced => boost = bought
=============================================================================
