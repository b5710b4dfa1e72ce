------------------------------ MODULE Booking ------------------------------
(***************************************************************************)
(* The booking core of Halls Hub: venue inquiries, the supplier requests   *)
(* attached to them, the venue calendar, the payments of both and the      *)
(* Stripe sessions, events and refunds behind those payments.              *)
(*                                                                         *)
(* A request handler runs on its own serverless instance.  Every awaited   *)
(* Prisma or Stripe call is one step; between two of them any step of any  *)
(* other invocation may happen, and the invocation may die.  Only a        *)
(* prisma.$transaction is atomic.  call[hd] is the in-flight invocation    *)
(* in slot hd: the step it is about to take and the values it has read.    *)
(* A handler that writes without using what it read is one action.         *)
(*                                                                         *)
(* Negotiation threads, notifications and e-mails do not influence any of  *)
(* this state and are left out; the amount of a payment is abstracted to   *)
(* whether the target has a price at all (Priced) and whether that price   *)
(* may be zero (MayBeFree).                                                *)
(***************************************************************************)
EXTENDS Naturals, FiniteSets

CONSTANTS
    Inquiries,   \* ids of the inquiries that may be created
    Requests,    \* ids of the supplier service requests that may be created
    Payments,    \* ids of Payment rows: bounds the checkouts of a behaviour
    Handlers,    \* invocations in flight at the same time
    Slots,       \* (venue, date) pairs: the key of a VenueAvailability row
    VenueOf,     \* the venue of each slot
    SlotOf,      \* the venue and date of each inquiry
    ParentOf,    \* the inquiry of each service request, or None
    Priced,      \* targets whose price can be resolved at checkout
    MayBeFree,   \* those whose fixed price may be 0: bookingAmount wants more of a service
    Keyless,     \* may an instance run without Stripe's key, so that getStripe() is null?
    OwnerEdits,  \* does the owner also edit the calendar by hand?
    Deletions,   \* do providers delete venues and services?
    MaxCrashes,  \* bound: invocations that die half way
    None         \* no value

Targets == Inquiries \cup Requests

ASSUME BookingAssumption ==
    /\ Inquiries \cap Requests = {}
    /\ SlotOf \in [Inquiries -> Slots]
    /\ ParentOf \in [Requests -> Inquiries \cup {None}]
    /\ Priced \subseteq Targets
    /\ MayBeFree \subseteq Priced \cap Inquiries
    /\ Keyless \in BOOLEAN
    /\ OwnerEdits \in BOOLEAN
    /\ Deletions \in BOOLEAN
    /\ MaxCrashes \in Nat
    /\ None \notin Targets \cup Payments

VARIABLES
    status,        \* Inquiry.status and ServiceRequest.status
    booked,        \* slots with a VenueAvailability row BOOKED
    payment,       \* Payment.status
    payFor,        \* Payment.inquiryId or Payment.serviceRequestId; None when that row is deleted
    cancellations, \* payments that have a BookingCancellation row
    session,       \* Stripe: state of the checkout session of a payment; a session of 0 ends "free"
    refunded,      \* Stripe: payments whose charge has been refunded
    acked,         \* Stripe: events answered 200, no longer redelivered
    call,          \* the in-flight invocations
    crashes        \* invocations that have died so far

vars == <<status, booked, payment, payFor, cancellations,
          session, refunded, acked, call, crashes>>

----------------------------------------------------------------------------
(* Statuses *)

Undecided == {"NEW", "READ", "REPLIED"}
Statuses  == Undecided \cup {"ABSENT", "APPROVED", "REJECTED", "CANCELLED",
                             "PAID", "CANCELLED_BY_PROVIDER", "DELETED"}
PaymentStates == {"ABSENT", "PENDING", "COMPLETED", "REFUNDED"}
SessionStates == {"none", "open", "paid", "free", "expired"}

CanOwnerApprove(s) == s \in Undecided
CanOwnerReject(s)  == CanOwnerApprove(s)
CanSeekerCancel(s) == s \in Undecided \cup {"APPROVED"}
CanCheckout(s)     == s \notin {"ABSENT", "DELETED", "PAID", "CANCELLED_BY_PROVIDER", "CANCELLED"}

\* The session is completed, with a payment intent or, when nothing was to be
\* paid, without one: then the payment's stripePaymentId is null.
Completed(p) == session[p] \in {"paid", "free"}

Exists(t)    == status[t] \notin {"ABSENT", "DELETED"}
VenueGone(v) == \E i \in Inquiries : VenueOf[SlotOf[i]] = v /\ status[i] = "DELETED"

----------------------------------------------------------------------------
(* Invocations *)

Steps == {"idle", "create.insert",
          "approve.find", "approve.upsert", "approve.update",
          "end.update", "end.finalize", "end.release",
          "sync.update",
          "checkout.insert", "checkout.session",
          "settle.transaction", "settle.find", "settle.upsert",
          "refund.stripe", "refund.transaction", "refund.release"}

\* to and release: the status an ending invocation will write, and whether
\* it will free the date, both decided from the status it read.
Calls == [pc : Steps, tgt : Targets \cup {None}, pay : Payments \cup {None},
          to : Statuses, release : BOOLEAN]

Idle == [pc |-> "idle", tgt |-> None, pay |-> None,
         to |-> "ABSENT", release |-> FALSE]

Begin(hd, c)     == call[hd] = Idle /\ call' = [call EXCEPT ![hd] = c]
Continue(hd, pc) == call' = [call EXCEPT ![hd] = [@ EXCEPT !.pc = pc]]
Finish(hd)       == call' = [call EXCEPT ![hd] = Idle]

At(hd, pc) == call[hd].pc = pc
SlotAt(hd) == SlotOf[call[hd].tgt]
RowThere(hd) == status[call[hd].tgt] # "DELETED"

UNCHANGED_money    == UNCHANGED <<payment, payFor, cancellations, session, refunded, acked>>
UNCHANGED_bookings == UNCHANGED <<status, booked>>

TypeOK ==
    /\ status \in [Targets -> Statuses]
    /\ booked \subseteq Slots
    /\ payment \in [Payments -> PaymentStates]
    /\ payFor \in [Payments -> Targets \cup {None}]
    /\ cancellations \subseteq Payments
    /\ session \in [Payments -> SessionStates]
    /\ refunded \subseteq Payments
    /\ acked \subseteq Payments
    /\ call \in [Handlers -> Calls]
    /\ crashes \in 0..MaxCrashes

Init ==
    /\ status = [t \in Targets |-> "ABSENT"]
    /\ booked = {}
    /\ payment = [p \in Payments |-> "ABSENT"]
    /\ payFor = [p \in Payments |-> None]
    /\ cancellations = {}
    /\ session = [p \in Payments |-> "none"]
    /\ refunded = {}
    /\ acked = {}
    /\ call = [hd \in Handlers |-> Idle]
    /\ crashes = 0

----------------------------------------------------------------------------
(* Creating an inquiry and its service requests *)

\* POST /api/inquiries: the date is looked up first, the row created later.
CreateInquiry(hd, i) ==
    /\ status[i] = "ABSENT"
    /\ \A other \in Handlers : call[other].tgt # i
    /\ SlotOf[i] \notin booked
    /\ Begin(hd, [Idle EXCEPT !.pc = "create.insert", !.tgt = i])
    /\ UNCHANGED_bookings /\ UNCHANGED_money /\ UNCHANGED crashes

CreateInsert(hd) ==
    /\ At(hd, "create.insert") /\ RowThere(hd)
    /\ status' = [status EXCEPT ![call[hd].tgt] = "NEW"]
    /\ Finish(hd)
    /\ UNCHANGED booked /\ UNCHANGED_money /\ UNCHANGED crashes

\* A service request appears on its own, from the supplier loop of the
\* inquiry's POST, or when the negotiation hub adds the missing ones.
CreateRequest(r) ==
    /\ status[r] = "ABSENT"
    /\ ParentOf[r] # None => Exists(ParentOf[r])
    /\ status' = [status EXCEPT ![r] = "NEW"]
    /\ UNCHANGED <<booked, call, crashes>> /\ UNCHANGED_money

----------------------------------------------------------------------------
(* Decisions of the owner, the seeker and the supplier *)

\* PATCH { status } of the venue owner and of the freelancer, the deletion of
\* the owner's note (which writes READ) and the acceptance of a supplier's offer
\* (which writes REPLIED): none looks at the current status when it writes.
ProviderSetStatus(t, s) ==
    /\ Exists(t)
    /\ status' = [status EXCEPT ![t] = s]
    /\ UNCHANGED <<booked, call, crashes>> /\ UNCHANGED_money

\* PATCH { action: "decline" } of the freelancer
ProviderDecline(r) ==
    /\ Exists(r) /\ status[r] # "CANCELLED"
    /\ status' = [status EXCEPT ![r] = "CANCELLED"]
    /\ UNCHANGED <<booked, call, crashes>> /\ UNCHANGED_money

Approve(hd, i) ==
    /\ CanOwnerApprove(status[i])
    /\ Begin(hd, [Idle EXCEPT !.pc = "approve.find", !.tgt = i])
    /\ UNCHANGED_bookings /\ UNCHANGED_money /\ UNCHANGED crashes

ApproveFind(hd) ==
    /\ At(hd, "approve.find")
    /\ \/ SlotAt(hd) \in booked    /\ Finish(hd)    \* 409
       \/ SlotAt(hd) \notin booked /\ Continue(hd, "approve.upsert")
    /\ UNCHANGED_bookings /\ UNCHANGED_money /\ UNCHANGED crashes

ApproveUpsert(hd) ==
    /\ At(hd, "approve.upsert") /\ RowThere(hd)
    /\ booked' = booked \cup {SlotAt(hd)}
    /\ Continue(hd, "approve.update")
    /\ UNCHANGED status /\ UNCHANGED_money /\ UNCHANGED crashes

ApproveUpdate(hd) ==
    /\ At(hd, "approve.update") /\ RowThere(hd)
    /\ status' = [status EXCEPT ![call[hd].tgt] = "APPROVED"]
    /\ Finish(hd)
    /\ UNCHANGED booked /\ UNCHANGED_money /\ UNCHANGED crashes

End(hd, i, newStatus, release) ==
    /\ Begin(hd, [Idle EXCEPT !.pc = "end.update", !.tgt = i,
                              !.to = newStatus, !.release = release])
    /\ UNCHANGED_bookings /\ UNCHANGED_money /\ UNCHANGED crashes

OwnerReject(hd, i) ==
    CanOwnerReject(status[i]) /\ End(hd, i, "REJECTED", FALSE)

OwnerCancelApproved(hd, i) ==
    status[i] = "APPROVED" /\ End(hd, i, "REJECTED", TRUE)

SeekerCancel(hd, i) ==
    CanSeekerCancel(status[i]) /\ End(hd, i, "CANCELLED", status[i] = "APPROVED")

EndUpdate(hd) ==
    /\ At(hd, "end.update") /\ RowThere(hd)
    /\ status' = [status EXCEPT ![call[hd].tgt] = call[hd].to]
    /\ Continue(hd, "end.finalize")
    /\ UNCHANGED booked /\ UNCHANGED_money /\ UNCHANGED crashes

\* finalizeInquiryCancellation: every service request of the inquiry is
\* cancelled, whatever its status.  (A deleted inquiry has none.)
EndFinalize(hd) ==
    /\ At(hd, "end.finalize")
    /\ status' = [t \in Targets |->
                    IF RowThere(hd) /\ t \in Requests /\ ParentOf[t] = call[hd].tgt /\ Exists(t)
                    THEN "CANCELLED" ELSE status[t]]
    /\ \/ call[hd].release  /\ Continue(hd, "end.release")
       \/ ~call[hd].release /\ Finish(hd)
    /\ UNCHANGED booked /\ UNCHANGED_money /\ UNCHANGED crashes

\* releaseVenueDateForInquiry, the last step of a cancellation and of a refund
Release(hd) ==
    /\ call[hd].pc \in {"end.release", "refund.release"}
    /\ booked' = booked \ {SlotAt(hd)}
    /\ Finish(hd)
    /\ UNCHANGED status /\ UNCHANGED_money /\ UNCHANGED crashes

\* GET /api/freelancer/requests repairs the requests of ended inquiries.
SyncRead(hd, r) ==
    /\ Exists(r) /\ status[r] # "CANCELLED"
    /\ ParentOf[r] # None
    /\ status[ParentOf[r]] \in {"REJECTED", "CANCELLED"}
    /\ Begin(hd, [Idle EXCEPT !.pc = "sync.update", !.tgt = r])
    /\ UNCHANGED_bookings /\ UNCHANGED_money /\ UNCHANGED crashes

SyncUpdate(hd) ==
    /\ At(hd, "sync.update")
    /\ status' = [status EXCEPT ![call[hd].tgt] = IF RowThere(hd) THEN "CANCELLED" ELSE @]
    /\ Finish(hd)
    /\ UNCHANGED booked /\ UNCHANGED_money /\ UNCHANGED crashes

\* The owner's own calendar page: one upsert or one delete
OwnerBooks(s) ==
    /\ OwnerEdits /\ ~VenueGone(VenueOf[s])
    /\ booked' = booked \cup {s}
    /\ UNCHANGED <<status, call, crashes>> /\ UNCHANGED_money

OwnerFrees(s) ==
    /\ OwnerEdits /\ ~VenueGone(VenueOf[s])
    /\ booked' = booked \ {s}
    /\ UNCHANGED <<status, call, crashes>> /\ UNCHANGED_money

----------------------------------------------------------------------------
(* Deletion *)

\* Rows of T go, whatever their status; their payments stay without a target.
Delete(T) ==
    /\ Deletions
    /\ status' = [t \in Targets |-> IF t \in T THEN "DELETED" ELSE status[t]]
    /\ payFor' = [p \in Payments |-> IF payFor[p] \in T THEN None ELSE payFor[p]]
    /\ UNCHANGED <<payment, cancellations, session, refunded, acked, call, crashes>>

\* The venue goes with its calendar and its inquiries, and takes no more of them.
DeleteVenue(v) ==
    /\ ~VenueGone(v)
    /\ Delete({i \in Inquiries : VenueOf[SlotOf[i]] = v})
    /\ booked' = {s \in booked : VenueOf[s] # v}

\* The service of a request goes with the request.
DeleteService(r) ==
    /\ status[r] # "DELETED"
    /\ Delete({r})
    /\ UNCHANGED booked

\* A write to a row that is gone throws; the invocation answers 500.
RowGone(hd) ==
    /\ call[hd].pc \in {"create.insert", "approve.upsert", "approve.update", "end.update",
                        "checkout.insert", "settle.transaction", "settle.upsert",
                        "refund.transaction"}
    /\ ~RowThere(hd)
    /\ Finish(hd)
    /\ UNCHANGED_bookings /\ UNCHANGED_money /\ UNCHANGED crashes

----------------------------------------------------------------------------
(* Checkout *)

\* bound: every checkout under way will find an unused Payment row
HasRowLeft == Cardinality({hd \in Handlers : At(hd, "checkout.insert")})
                < Cardinality({p \in Payments : payment[p] = "ABSENT"})

Checkout(hd, t) ==
    /\ CanCheckout(status[t])
    /\ t \in Priced
    /\ HasRowLeft
    /\ Begin(hd, [Idle EXCEPT !.pc = "checkout.insert", !.tgt = t])
    /\ UNCHANGED_bookings /\ UNCHANGED_money /\ UNCHANGED crashes

CheckoutInsert(hd) ==
    /\ At(hd, "checkout.insert") /\ RowThere(hd)
    /\ \E p \in Payments :
          /\ payment[p] = "ABSENT"
          /\ payment' = [payment EXCEPT ![p] = "PENDING"]
          /\ payFor' = [payFor EXCEPT ![p] = call[hd].tgt]
          /\ call' = [call EXCEPT ![hd] = [@ EXCEPT !.pc = "checkout.session", !.pay = p]]
    /\ UNCHANGED <<cancellations, session, refunded, acked, crashes>>
    /\ UNCHANGED_bookings

CheckoutSession(hd) ==
    /\ At(hd, "checkout.session")
    /\ session' = [session EXCEPT ![call[hd].pay] = "open"]
    /\ Finish(hd)
    /\ UNCHANGED <<payment, payFor, cancellations, refunded, acked, crashes>>
    /\ UNCHANGED_bookings

\* Stripe: the customer completes the session on the hosted page, or it
\* expires.  A session of 0 charges nothing; a booking deleted meanwhile may
\* have been such a one.
CustomerPays(p) ==
    /\ session[p] = "open"
    /\ \/ session' = [session EXCEPT ![p] = "paid"]
       \/ /\ payFor[p] \in MayBeFree \cup {None}
          /\ session' = [session EXCEPT ![p] = "free"]
    /\ UNCHANGED <<payment, payFor, cancellations, refunded, acked, call, crashes>>
    /\ UNCHANGED_bookings

SessionExpires(p) ==
    /\ session[p] = "open"
    /\ session' = [session EXCEPT ![p] = "expired"]
    /\ UNCHANGED <<payment, payFor, cancellations, refunded, acked, call, crashes>>
    /\ UNCHANGED_bookings

----------------------------------------------------------------------------
(* The Stripe webhook: checkout.session.completed is delivered until it is  *)
(* answered 200; two deliveries of one event may be in flight together.     *)

StartSettling(hd, p) ==
    Begin(hd, [Idle EXCEPT !.pc = "settle.transaction", !.tgt = payFor[p], !.pay = p])

\* Mutants: without the paid session, answering first, without the PENDING
\* check, and refusing a booking that is no longer approved
Deliver_Unpaid(hd, p) ==
    /\ payment[p] = "PENDING" /\ payFor[p] # None
    /\ StartSettling(hd, p)
    /\ UNCHANGED_bookings /\ UNCHANGED_money /\ UNCHANGED crashes

Deliver_AnswersFirst(hd, p) ==
    /\ Completed(p) /\ payment[p] = "PENDING" /\ payFor[p] # None
    /\ StartSettling(hd, p)
    /\ acked' = acked \cup {p}
    /\ UNCHANGED <<payment, payFor, cancellations, session, refunded, crashes>>
    /\ UNCHANGED_bookings

Deliver_Again(hd, p) ==
    /\ Completed(p) /\ payFor[p] # None
    /\ StartSettling(hd, p)
    /\ UNCHANGED_bookings /\ UNCHANGED_money /\ UNCHANGED crashes

Deliver_OnlyApproved(hd, p) ==
    /\ Completed(p) /\ payment[p] = "PENDING" /\ payFor[p] # None
    /\ status[payFor[p]] = "APPROVED"
    /\ StartSettling(hd, p)
    /\ UNCHANGED_bookings /\ UNCHANGED_money /\ UNCHANGED crashes

Deliver(hd, p) ==
    /\ Completed(p)
    /\ payment[p] = "PENDING" /\ payFor[p] # None
    /\ StartSettling(hd, p)
    /\ UNCHANGED_bookings /\ UNCHANGED_money /\ UNCHANGED crashes

\* A delivery that finds the payment settled, or its booking deleted, answers
\* 200 and does nothing.
DeliverSettled(p) ==
    /\ Completed(p)
    /\ payment[p] \in {"COMPLETED", "REFUNDED"} \/ payFor[p] = None
    /\ acked' = acked \cup {p}
    /\ UNCHANGED <<payment, payFor, cancellations, session, refunded, call, crashes>>
    /\ UNCHANGED_bookings

FinishAndAck(hd) == Finish(hd) /\ acked' = acked \cup {call[hd].pay}

\* Mutant: each of the two rows gets the status of the other (both columns are
\* plain strings, nothing else tells them apart).
SettleTransaction_Swapped(hd) ==
    /\ At(hd, "settle.transaction") /\ RowThere(hd)
    /\ payment' = [payment EXCEPT ![call[hd].pay] = "PAID"]
    /\ status' = [status EXCEPT ![call[hd].tgt] = "COMPLETED"]
    /\ \/ call[hd].tgt \in Inquiries /\ Continue(hd, "settle.find") /\ UNCHANGED acked
       \/ call[hd].tgt \in Requests  /\ FinishAndAck(hd)
    /\ UNCHANGED <<booked, payFor, cancellations, session, refunded, crashes>>

\* fulfillBookingPayment: one transaction, neither row is looked at again
SettleTransaction(hd) ==
    /\ At(hd, "settle.transaction") /\ RowThere(hd)
    /\ payment' = [payment EXCEPT ![call[hd].pay] = "COMPLETED"]
    /\ status' = [status EXCEPT ![call[hd].tgt] = "PAID"]
    /\ \/ call[hd].tgt \in Inquiries /\ Continue(hd, "settle.find") /\ UNCHANGED acked
       \/ call[hd].tgt \in Requests  /\ FinishAndAck(hd)
    /\ UNCHANGED <<booked, payFor, cancellations, session, refunded, crashes>>

\* The result of bookVenueDateForInquiry is not looked at; a deleted inquiry
\* has no date to book.
SettleFind(hd) ==
    /\ At(hd, "settle.find")
    /\ \/ /\ SlotAt(hd) \in booked \/ ~RowThere(hd)
          /\ FinishAndAck(hd)
       \/ /\ SlotAt(hd) \notin booked /\ RowThere(hd)
          /\ Continue(hd, "settle.upsert") /\ UNCHANGED acked
    /\ UNCHANGED <<payment, payFor, cancellations, session, refunded, crashes>>
    /\ UNCHANGED_bookings

SettleUpsert(hd) ==
    /\ At(hd, "settle.upsert") /\ RowThere(hd)
    /\ booked' = booked \cup {SlotAt(hd)}
    /\ FinishAndAck(hd)
    /\ UNCHANGED <<status, payment, payFor, cancellations, session, refunded, crashes>>

----------------------------------------------------------------------------
(* The provider cancels a paid booking *)

\* The latest COMPLETED payment: completedAt is the clock of the instance that
\* settled it, so any completed payment of the target may be the latest.
CancelPaid(hd, t) ==
    /\ status[t] = "PAID"
    /\ \E p \in Payments :
          /\ payFor[p] = t
          /\ payment[p] = "COMPLETED"
          /\ Begin(hd, [Idle EXCEPT !.pc = "refund.stripe", !.tgt = t, !.pay = p])
    /\ UNCHANGED_bookings /\ UNCHANGED_money /\ UNCHANGED crashes

\* Mutants: an error of Stripe is swallowed, a refusal is taken for a refund,
\* and the handler returns before the refund is written down.
RefundStripe_Swallowed(hd) ==
    /\ At(hd, "refund.stripe")
    /\ \/ session[call[hd].pay] = "paid" /\ refunded' \in {refunded, refunded \cup {call[hd].pay}}
       \/ session[call[hd].pay] = "free" /\ UNCHANGED refunded
    /\ Continue(hd, "refund.transaction")
    /\ UNCHANGED <<payment, payFor, cancellations, session, acked, crashes>>
    /\ UNCHANGED_bookings

RefundStripe_Refused(hd) ==
    /\ At(hd, "refund.stripe")
    /\ \/ session[call[hd].pay] = "paid" /\ refunded' = refunded \cup {call[hd].pay}
       \/ session[call[hd].pay] = "free" /\ UNCHANGED refunded
    /\ Continue(hd, "refund.transaction")
    /\ UNCHANGED <<payment, payFor, cancellations, session, acked, crashes>>
    /\ UNCHANGED_bookings

RefundStripe_Returns(hd) ==
    /\ At(hd, "refund.stripe")
    /\ \/ session[call[hd].pay] = "paid" /\ refunded' = refunded \cup {call[hd].pay}
       \/ session[call[hd].pay] = "free" /\ UNCHANGED refunded
    /\ Finish(hd)
    /\ UNCHANGED <<payment, payFor, cancellations, session, acked, crashes>>
    /\ UNCHANGED_bookings

\* With a client and a payment intent the charge is refunded; Stripe refuses to
\* refund it twice, and the handler then fails with 500.  Without one of the two
\* (no key, or a session of 0) Stripe is not asked and the handler goes on.
RefundStripe(hd) ==
    /\ At(hd, "refund.stripe")
    /\ \/ /\ session[call[hd].pay] = "paid" /\ call[hd].pay \notin refunded
          /\ refunded' = refunded \cup {call[hd].pay}
          /\ Continue(hd, "refund.transaction")
       \/ /\ call[hd].pay \in refunded
          /\ Finish(hd)
          /\ UNCHANGED refunded
       \/ /\ session[call[hd].pay] = "free" \/ Keyless
          /\ Continue(hd, "refund.transaction")
          /\ UNCHANGED refunded
    /\ UNCHANGED <<payment, payFor, cancellations, session, acked, crashes>>
    /\ UNCHANGED_bookings

\* Mutant: the booking keeps showing PAID.
RefundTransaction_KeepsStatus(hd) ==
    /\ At(hd, "refund.transaction") /\ RowThere(hd)
    /\ call[hd].pay \notin cancellations
    /\ payment' = [payment EXCEPT ![call[hd].pay] = "REFUNDED"]
    /\ cancellations' = cancellations \cup {call[hd].pay}
    /\ \/ call[hd].tgt \in Inquiries /\ Continue(hd, "refund.release")
       \/ call[hd].tgt \in Requests  /\ Finish(hd)
    /\ UNCHANGED <<status, booked, payFor, session, refunded, acked, crashes>>

\* BookingCancellation.paymentId is unique: the transaction needs a new one.
RefundTransaction(hd) ==
    /\ At(hd, "refund.transaction") /\ RowThere(hd)
    /\ call[hd].pay \notin cancellations
    /\ payment' = [payment EXCEPT ![call[hd].pay] = "REFUNDED"]
    /\ status' = [status EXCEPT ![call[hd].tgt] = "CANCELLED_BY_PROVIDER"]
    /\ cancellations' = cancellations \cup {call[hd].pay}
    /\ \/ call[hd].tgt \in Inquiries /\ Continue(hd, "refund.release")
       \/ call[hd].tgt \in Requests  /\ Finish(hd)
    /\ UNCHANGED <<booked, payFor, session, refunded, acked, crashes>>

\* A second cancellation that Stripe did not stop fails on that key: nothing of
\* the transaction is written.
RefundConflict(hd) ==
    /\ At(hd, "refund.transaction") /\ RowThere(hd)
    /\ call[hd].pay \in cancellations
    /\ Finish(hd)
    /\ UNCHANGED_bookings /\ UNCHANGED_money /\ UNCHANGED crashes

----------------------------------------------------------------------------
\* The instance dies, times out, or a database call throws.
Crash(hd) ==
    /\ call[hd] # Idle
    /\ crashes < MaxCrashes
    /\ crashes' = crashes + 1
    /\ Finish(hd)
    /\ UNCHANGED_bookings /\ UNCHANGED_money

ActorStep ==
    \/ \E r \in Requests : CreateRequest(r) \/ ProviderDecline(r) \/ DeleteService(r)
    \/ \E i \in Inquiries : DeleteVenue(VenueOf[SlotOf[i]])
    \/ \E t \in Targets, s \in Undecided : ProviderSetStatus(t, s)
    \/ \E s \in Slots : OwnerBooks(s) \/ OwnerFrees(s)
    \/ \E p \in Payments : CustomerPays(p) \/ SessionExpires(p) \/ DeliverSettled(p)

Start(hd) ==
    \/ \E i \in Inquiries :
          \/ CreateInquiry(hd, i) \/ Approve(hd, i) \/ OwnerReject(hd, i)
          \/ OwnerCancelApproved(hd, i) \/ SeekerCancel(hd, i)
    \/ \E r \in Requests : SyncRead(hd, r)
    \/ \E t \in Targets : Checkout(hd, t) \/ CancelPaid(hd, t)
    \/ \E p \in Payments : Deliver(hd, p)

SettleStep(hd) == SettleTransaction(hd) \/ SettleFind(hd) \/ SettleUpsert(hd)

Proceed(hd) ==
    \/ CreateInsert(hd)
    \/ ApproveFind(hd) \/ ApproveUpsert(hd) \/ ApproveUpdate(hd)
    \/ EndUpdate(hd) \/ EndFinalize(hd) \/ Release(hd)
    \/ SyncUpdate(hd)
    \/ CheckoutInsert(hd) \/ CheckoutSession(hd)
    \/ SettleStep(hd)
    \/ RefundStripe(hd) \/ RefundTransaction(hd) \/ RefundConflict(hd)
    \/ RowGone(hd)

Next ==
    \/ ActorStep
    \/ \E hd \in Handlers : Start(hd) \/ Proceed(hd) \/ Crash(hd)

Spec == Init /\ [][Next]_vars

\* Stripe keeps delivering an unanswered event and the platform runs every
\* delivery to its end unless it crashes.  Handlers bounds the model, not the
\* platform, so a delivery that is possible again and again is taken (SF).
\* Nothing makes a person act.
Fairness ==
    /\ \A p \in Payments : SF_vars(\E hd \in Handlers : Deliver(hd, p))
    /\ \A p \in Payments : WF_vars(DeliverSettled(p))
    /\ \A hd \in Handlers : WF_vars(Proceed(hd))

FairSpec == Spec /\ Fairness

----------------------------------------------------------------------------
(* Properties *)

\* A booking or request shown as PAID always has a payment recorded COMPLETED:
\* no interleaving of webhooks, refunds, decisions and crashes separates the
\* two rows (fulfillBookingPayment and the refund write both in a transaction).
PaidHasCompletedPayment ==
    \A t \in Targets : status[t] = "PAID" =>
        \E p \in Payments : payFor[p] = t /\ payment[p] = "COMPLETED"

\* The customer has the money of p back, or never paid any.  An instance that
\* runs without Stripe's key goes on as if it had returned the money.
HasMoneyBack(p) == p \in refunded \/ session[p] = "free" \/ Keyless

\* CANCELLED_BY_PROVIDER ("cancelled, payment returned") is never shown unless
\* the customer has the money of a payment of that booking back, and the refund
\* and its reason are on record.
ProviderCancelWasRefunded ==
    \A t \in Targets : status[t] = "CANCELLED_BY_PROVIDER" =>
        \E p \in cancellations :
            payFor[p] = t /\ payment[p] = "REFUNDED" /\ HasMoneyBack(p)

\* The records never claim money that did not move: COMPLETED needs a completed
\* session, Stripe is asked to refund only charges it made and that are on
\* record, and REFUNDED needs the money to be back.
RecordsFollowMoney ==
    \A p \in Payments :
        /\ payment[p] \in {"COMPLETED", "REFUNDED"} => Completed(p)
        /\ p \in refunded => session[p] = "paid" /\ payment[p] \in {"COMPLETED", "REFUNDED"}
        /\ payment[p] = "REFUNDED" => HasMoneyBack(p)

\* Stripe stops redelivering an event only when the payment is on record, so
\* no crash of the webhook can lose a payment.  The one exception is a booking
\* deleted under the customer's feet: its payment is answered and never recorded.
AckedIsRecorded ==
    \A p \in acked : payment[p] \in {"COMPLETED", "REFUNDED"} \/ payFor[p] = None

\* Stripe's refusal keeps two racing cancellations of one charge apart: they
\* never both reach the refund transaction, and it cannot fail on the unique
\* BookingCancellation.paymentId after the money has gone back.
RefundRecordedOnce ==
    \A hd \in Handlers :
        At(hd, "refund.transaction") /\ session[call[hd].pay] = "paid" /\ ~Keyless =>
            /\ call[hd].pay \in refunded \ cancellations
            /\ \A other \in Handlers \ {hd} :
                  At(other, "refund.transaction") => call[other].pay # call[hd].pay

\* The books are true: no row claims money that did not move, and of the
\* refunds no two racing cancellations record one twice or fail to record it.
BooksAreTrue == RecordsFollowMoney /\ RefundRecordedOnce

\* Unless two deliveries of one event overlap, a recorded refund is final and,
\* if no instance dies between Stripe and the database, every refund issued is
\* on record once the handlers are done.  A booking deleted in between is the
\* exception: its payment stays COMPLETED (the transaction fails on the row).
RefundedIsFinal ==
    [][\A p \in Payments : payment[p] = "REFUNDED" => payment'[p] = "REFUNDED"]_vars

RefundsAreOnRecord ==
    crashes = 0 /\ (\A hd \in Handlers : call[hd] = Idle) =>
        \A p \in refunded :
            \/ payment[p] = "REFUNDED" /\ p \in cancellations
            \/ payFor[p] = None

\* The webhook's answer never outruns the record: paid at Stripe leads to the
\* payment recorded and the event answered, crashes included.
PaidIsEventuallyRecorded ==
    \A p \in Payments : Completed(p) ~> p \in acked

\* Whoever is told that the date is kept has it to himself ("the booking is
\* approved, the date is reserved at the venue", InquiryDetailSeekerClient; "the
\* booking was paid, the date is kept in the calendar", InquiryDetailClient): when
\* no handler is at work, the date of an inquiry shown APPROVED or PAID is
\* taken in the calendar, and no other inquiry shown so has the same date.
DateIsKept ==
    (\A hd \in Handlers : call[hd] = Idle) =>
        \A i \in Inquiries : status[i] \in {"APPROVED", "PAID"} =>
            /\ SlotOf[i] \in booked
            /\ \A j \in Inquiries \ {i} :
                  status[j] \in {"APPROVED", "PAID"} => SlotOf[j] # SlotOf[i]

\* A booking is not paid for twice ("already paid, no further payment",
\* isInquiryPaid).
NoSecondPayment ==
    \A t \in Targets : \A p, q \in {x \in Payments : payFor[x] = t} :
        payment[p] = "COMPLETED" /\ payment[q] = "COMPLETED" => p = q
=============================================================================
