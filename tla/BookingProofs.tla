--------------------------- MODULE BookingProofs ---------------------------
(***************************************************************************)
(* Proofs about Booking, for every set of inquiries, requests, payments,   *)
(* slots and concurrent invocations, and any number of crashes.            *)
(***************************************************************************)
EXTENDS BookingInv, TLAPS

\* Three abbreviations of one line each are always expanded.
USE DEF Completed, HasMoneyBack, ByStripe

----------------------------------------------------------------------------
(* The invocation slots: what Begin, Continue and Finish do to them *)

LEMMA IdleIsACall == Idle \in Calls
BY DEF Idle, Calls, Steps, Statuses, Undecided

LEMMA BeginEffect ==
  ASSUME NEW hd \in Handlers, NEW c \in Calls, TypeOK, Begin(hd, c)
  PROVE  /\ call' \in [Handlers -> Calls]
         /\ call'[hd] = c
         /\ \A other \in Handlers \ {hd} : call'[other] = call[other]
BY DEF TypeOK, Begin

LEMMA ContinueEffect ==
  ASSUME NEW hd \in Handlers, NEW pc \in Steps, TypeOK, Continue(hd, pc)
  PROVE  /\ call' \in [Handlers -> Calls]
         /\ call'[hd].pc = pc
         /\ call'[hd].tgt = call[hd].tgt
         /\ call'[hd].pay = call[hd].pay
         /\ call'[hd].to = call[hd].to
         /\ \A other \in Handlers \ {hd} : call'[other] = call[other]
BY DEF TypeOK, Continue, Calls

LEMMA FinishEffect ==
  ASSUME NEW hd \in Handlers, TypeOK, Finish(hd)
  PROVE  /\ call' \in [Handlers -> Calls]
         /\ call'[hd] = Idle
         /\ \A other \in Handlers \ {hd} : call'[other] = call[other]
BY IdleIsACall DEF TypeOK, Finish

LEMMA IdleKnows == KnowsTarget(Idle) /\ KnowsPayment(Idle)' /\ KnowsPayment(Idle)
BY BookingAssumption DEF KnowsTarget, KnowsPayment, Idle

----------------------------------------------------------------------------
(* Steps that leave the money alone *)

\* No booking becomes paid or refunded, and none is deleted or brought back.
QuietStatus ==
    /\ status' \in [Targets -> Statuses]
    /\ \A t \in Targets :
          \/ status'[t] = status[t]
          \/ /\ status[t] # "DELETED"
             /\ status'[t] \notin {"PAID", "CANCELLED_BY_PROVIDER", "DELETED"}

LEMMA MoneyStill ==
  ASSUME IInv, UNCHANGED_money, QuietStatus
  PROVE  /\ Rows' /\ PaidHasCompletedPayment' /\ ProviderCancelWasRefunded'
         /\ RecordsFollowMoney' /\ AckedIsRecorded'
BY DEF IInv, UNCHANGED_money, QuietStatus, Rows, PaidHasCompletedPayment,
       ProviderCancelWasRefunded, RecordsFollowMoney, AckedIsRecorded

\* A slot changes hands among steps that rely on no payment, or is given up.
QuietSteps == Steps \ {"checkout.session", "settle.transaction", "settle.find", "settle.upsert",
                       "refund.stripe", "refund.transaction", "refund.release"}

LEMMA CallsStill ==
  ASSUME IInv, UNCHANGED_money, QuietStatus, NEW hd \in Handlers,
         call' \in [Handlers -> Calls],
         \A other \in Handlers \ {hd} : call'[other] = call[other],
         KnowsTarget(call'[hd]),
         \/ call'[hd].pay = None
         \/ call'[hd].pay = call[hd].pay /\ call'[hd].tgt = call[hd].tgt,
         call'[hd].pc \in QuietSteps
  PROVE  CallTargets' /\ CallPayments' /\ CallsApart'
<1>1. KnowsTarget(call[hd])'
  BY DEF KnowsTarget
<1>. \A t \in Targets : status[t] = "DELETED" => status'[t] = "DELETED"
  BY DEF QuietStatus
<1>. TypeOK
  BY DEF IInv
<1>2. KnowsPayment(call[hd])'
  BY BookingAssumption
     DEF KnowsPayment, QuietSteps, IInv, CallPayments, UNCHANGED_money, QuietStatus, TypeOK, Calls
<1>3. ASSUME NEW other \in Handlers \ {hd}
      PROVE  KnowsTarget(call[other])' /\ KnowsPayment(call[other])'
  BY <1>3, BookingAssumption
     DEF IInv, CallTargets, CallPayments, KnowsTarget, KnowsPayment, UNCHANGED_money, QuietStatus,
         TypeOK, Calls
<1>4. CallsApart'
  BY DEF IInv, CallsApart, At, QuietSteps, UNCHANGED_money
<1>. QED  BY <1>1, <1>2, <1>3, <1>4 DEF CallTargets, CallPayments

\* A step of an invocation that moves no money and shows nobody as paid
LEMMA QuietCallStep ==
  ASSUME IInv, UNCHANGED_money, NEW hd \in Handlers,
         QuietStatus,
         booked' \subseteq Slots,
         crashes' \in 0..MaxCrashes,
         call' \in [Handlers -> Calls],
         \A other \in Handlers \ {hd} : call'[other] = call[other],
         KnowsTarget(call'[hd]),
         \/ call'[hd].pay = None
         \/ call'[hd].pay = call[hd].pay /\ call'[hd].tgt = call[hd].tgt,
         call'[hd].pc \in QuietSteps
  PROVE  IInv'
<1>1. TypeOK'
  BY DEF IInv, TypeOK, UNCHANGED_money, QuietStatus
<1>2. CallTargets' /\ CallPayments' /\ CallsApart'
  BY CallsStill
<1>. QED  BY <1>1, <1>2, MoneyStill DEF IInv

\* A step of a party outside any invocation that moves no money
LEMMA QuietPartyStep ==
  ASSUME IInv, UNCHANGED_money, UNCHANGED <<call, crashes>>,
         QuietStatus,
         booked' \subseteq Slots
  PROVE  IInv'
<1>1. TypeOK'
  BY DEF IInv, TypeOK, UNCHANGED_money, QuietStatus
<1>2. CallTargets' /\ CallPayments' /\ CallsApart'
  <2>1. CallTargets' /\ CallsApart'
    BY DEF IInv, CallTargets, CallsApart, KnowsTarget, At, UNCHANGED_money
  <2>2. ASSUME NEW hd \in Handlers
        PROVE  KnowsPayment(call[hd])'
    BY BookingAssumption
       DEF IInv, CallPayments, KnowsPayment, UNCHANGED_money, QuietStatus, TypeOK, Calls
  <2>. QED  BY <2>1, <2>2 DEF CallPayments
<1>. QED  BY <1>1, <1>2, MoneyStill DEF IInv

\* An invocation that begins with a read and holds no payment
LEMMA QuietBegin ==
  ASSUME IInv, NEW hd \in Handlers, NEW c \in Calls, Begin(hd, c),
         UNCHANGED_bookings, UNCHANGED_money, UNCHANGED crashes,
         KnowsTarget(c), c.pay = None, c.pc \in QuietSteps
  PROVE  IInv'
<1>. TypeOK
  BY DEF IInv
<1>1. QuietStatus /\ booked' \subseteq Slots /\ crashes' \in 0..MaxCrashes
  BY DEF TypeOK, UNCHANGED_bookings, QuietStatus
<1>. QED  BY <1>1, BeginEffect, QuietCallStep

----------------------------------------------------------------------------
(* The steps that move no money *)

LEMMA PartiesKeepIInv ==
  ASSUME IInv,
         \/ \E r \in Requests : CreateRequest(r) \/ ProviderDecline(r)
         \/ \E t \in Targets, s \in Undecided : ProviderSetStatus(t, s)
         \/ \E s \in Slots : OwnerBooks(s) \/ OwnerFrees(s)
  PROVE  IInv'
<1>. TypeOK
  BY DEF IInv
<1>1. CASE \E r \in Requests : CreateRequest(r) \/ ProviderDecline(r)
  BY <1>1, QuietPartyStep
     DEF CreateRequest, ProviderDecline, Exists, TypeOK, Targets, Statuses, Undecided, QuietStatus
<1>2. CASE \E t \in Targets, s \in Undecided : ProviderSetStatus(t, s)
  BY <1>2, QuietPartyStep DEF ProviderSetStatus, Exists, TypeOK, Statuses, Undecided, QuietStatus
<1>3. CASE \E s \in Slots : OwnerBooks(s) \/ OwnerFrees(s)
  BY <1>3, QuietPartyStep DEF OwnerBooks, OwnerFrees, TypeOK, QuietStatus
<1>. QED  BY <1>1, <1>2, <1>3

LEMMA ReadersKeepIInv ==
  ASSUME IInv, NEW hd \in Handlers,
         \/ \E i \in Inquiries :
               \/ CreateInquiry(hd, i) \/ Approve(hd, i) \/ OwnerReject(hd, i)
               \/ OwnerCancelApproved(hd, i) \/ SeekerCancel(hd, i)
         \/ \E r \in Requests : SyncRead(hd, r)
         \/ \E t \in Targets : Checkout(hd, t)
  PROVE  IInv'
<1>1. ASSUME NEW i \in Inquiries, CreateInquiry(hd, i)
      PROVE  IInv'
  <2>. DEFINE c == [Idle EXCEPT !.pc = "create.insert", !.tgt = i]
  <2>1. c \in Calls /\ KnowsTarget(c) /\ c.pay = None /\ c.pc \in QuietSteps
    BY DEF Idle, Calls, Steps, Statuses, Undecided, KnowsTarget, QuietSteps, Targets
  <2>. QED  BY <1>1, <2>1, QuietBegin DEF CreateInquiry
<1>2. ASSUME NEW i \in Inquiries, Approve(hd, i)
      PROVE  IInv'
  <2>. DEFINE c == [Idle EXCEPT !.pc = "approve.find", !.tgt = i]
  <2>1. c \in Calls /\ KnowsTarget(c) /\ c.pay = None /\ c.pc \in QuietSteps
    BY DEF Idle, Calls, Steps, Statuses, Undecided, KnowsTarget, QuietSteps, Targets
  <2>. QED  BY <1>2, <2>1, QuietBegin DEF Approve
<1>3. ASSUME NEW i \in Inquiries, NEW s \in {"REJECTED", "CANCELLED"}, NEW release \in BOOLEAN,
             End(hd, i, s, release)
      PROVE  IInv'
  <2>. DEFINE c == [Idle EXCEPT !.pc = "end.update", !.tgt = i, !.to = s, !.release = release]
  <2>1. c \in Calls /\ KnowsTarget(c) /\ c.pay = None /\ c.pc \in QuietSteps
    BY DEF Idle, Calls, Steps, Statuses, Undecided, KnowsTarget, QuietSteps, Targets
  <2>. QED  BY <1>3, <2>1, QuietBegin DEF End
<1>4. ASSUME NEW r \in Requests, SyncRead(hd, r)
      PROVE  IInv'
  <2>. DEFINE c == [Idle EXCEPT !.pc = "sync.update", !.tgt = r]
  <2>1. c \in Calls /\ KnowsTarget(c) /\ c.pay = None /\ c.pc \in QuietSteps
    BY DEF Idle, Calls, Steps, Statuses, Undecided, KnowsTarget, QuietSteps, Targets
  <2>. QED  BY <1>4, <2>1, QuietBegin DEF SyncRead
<1>5. ASSUME NEW t \in Targets, Checkout(hd, t)
      PROVE  IInv'
  <2>. DEFINE c == [Idle EXCEPT !.pc = "checkout.insert", !.tgt = t]
  <2>1. c \in Calls /\ KnowsTarget(c) /\ c.pay = None /\ c.pc \in QuietSteps
    BY DEF Idle, Calls, Steps, Statuses, Undecided, KnowsTarget, QuietSteps, Targets
  <2>. QED  BY <1>5, <2>1, QuietBegin DEF Checkout
<1>. QED  BY <1>1, <1>2, <1>3, <1>4, <1>5 DEF OwnerReject, OwnerCancelApproved, SeekerCancel

LEMMA WritersKeepIInv ==
  ASSUME IInv, NEW hd \in Handlers,
         \/ CreateInsert(hd) \/ ApproveFind(hd) \/ ApproveUpsert(hd) \/ ApproveUpdate(hd)
         \/ EndUpdate(hd) \/ EndFinalize(hd) \/ Release(hd) \/ SyncUpdate(hd)
         \/ Crash(hd) \/ RowGone(hd) \/ RefundConflict(hd)
  PROVE  IInv'
<1>. TypeOK /\ KnowsTarget(call[hd]) /\ call[hd] \in Calls
  BY DEF IInv, CallTargets, TypeOK
<1>. USE DEF At, SlotAt, RowThere, QuietStatus
<1>0. KnowsTarget(Idle) /\ Idle.pay = None /\ Idle.pc \in QuietSteps
  BY IdleKnows DEF Idle, QuietSteps, Steps
<1>1. CASE CreateInsert(hd) \/ ApproveUpdate(hd) \/ SyncUpdate(hd)
  <2>1. /\ QuietStatus
        /\ booked' \subseteq Slots /\ crashes' \in 0..MaxCrashes /\ UNCHANGED_money /\ Finish(hd)
    BY <1>1 DEF CreateInsert, ApproveUpdate, SyncUpdate, TypeOK, Statuses, Undecided
  <2>. QED  BY <2>1, <1>0, FinishEffect, QuietCallStep
<1>2. CASE Release(hd) \/ Crash(hd) \/ RowGone(hd) \/ RefundConflict(hd)
  <2>1. /\ status' = status
        /\ booked' \subseteq Slots /\ crashes' \in 0..MaxCrashes /\ UNCHANGED_money /\ Finish(hd)
    BY <1>2, BookingAssumption DEF Release, Crash, RowGone, RefundConflict, TypeOK, UNCHANGED_bookings
  <2>. QED  BY <2>1, <1>0, FinishEffect, QuietCallStep DEF TypeOK
<1>3. CASE ApproveFind(hd)
  <2>1. UNCHANGED <<status, booked, crashes>> /\ UNCHANGED_money
    BY <1>3 DEF ApproveFind, UNCHANGED_bookings
  <2>2. CASE Finish(hd)
    BY <2>1, <2>2, <1>0, FinishEffect, QuietCallStep DEF TypeOK
  <2>3. CASE Continue(hd, "approve.upsert")
    BY <1>3, <2>1, <2>3, ContinueEffect, QuietCallStep
       DEF ApproveFind, TypeOK, KnowsTarget, QuietSteps, Steps
  <2>. QED  BY <1>3, <2>2, <2>3 DEF ApproveFind
<1>4. CASE ApproveUpsert(hd)
  <2>1. booked' \subseteq Slots
    BY <1>4, BookingAssumption DEF ApproveUpsert, TypeOK, KnowsTarget
  <2>. QED
    BY <1>4, <2>1, ContinueEffect, QuietCallStep
       DEF ApproveUpsert, TypeOK, KnowsTarget, QuietSteps, Steps
<1>5. CASE EndUpdate(hd)
  <2>1. QuietStatus
    BY <1>5 DEF EndUpdate, TypeOK, KnowsTarget, Statuses, Undecided
  <2>. QED
    BY <1>5, <2>1, ContinueEffect, QuietCallStep
       DEF EndUpdate, TypeOK, KnowsTarget, QuietSteps, Steps
<1>6. CASE EndFinalize(hd)
  <2>1. QuietStatus
    BY <1>6 DEF EndFinalize, Exists, TypeOK, Statuses, Undecided
  <2>2. CASE Finish(hd)
    BY <1>6, <2>1, <2>2, <1>0, FinishEffect, QuietCallStep DEF EndFinalize, TypeOK
  <2>3. CASE Continue(hd, "end.release")
    BY <1>6, <2>1, <2>3, ContinueEffect, QuietCallStep
       DEF EndFinalize, TypeOK, KnowsTarget, QuietSteps, Steps
  <2>. QED  BY <1>6, <2>2, <2>3 DEF EndFinalize
<1>. QED  BY <1>1, <1>2, <1>3, <1>4, <1>5, <1>6

----------------------------------------------------------------------------
(* The steps of Stripe and of the parties that hold no invocation *)

LEMMA StripeKeepsIInv ==
  ASSUME IInv, NEW p \in Payments,
         CustomerPays(p) \/ SessionExpires(p) \/ DeliverSettled(p)
  PROVE  IInv'
<1>. USE DEF UNCHANGED_bookings
<1>1. CASE CustomerPays(p) \/ SessionExpires(p)
  <2>1. /\ session[p] = "open"
        /\ session' \in [Payments -> SessionStates]
        /\ session'[p] \in {"paid", "free", "expired"}
        /\ \A q \in Payments \ {p} : session'[q] = session[q]
        /\ UNCHANGED <<status, booked, payment, payFor, cancellations, refunded, acked, call, crashes>>
    BY <1>1 DEF CustomerPays, SessionExpires, IInv, TypeOK, SessionStates
  <2>2. TypeOK'
    BY <2>1 DEF IInv, TypeOK
  <2>3. Rows' /\ RecordsFollowMoney'
    BY <2>1 DEF IInv, TypeOK, Rows, RecordsFollowMoney
  <2>4. CallPayments'
    <3>1. payment[p] \notin Recorded
      BY <2>1 DEF IInv, RecordsFollowMoney, Recorded
    <3>. QED  BY <2>1, <3>1 DEF IInv, CallPayments, KnowsPayment
  <2>5. CallsApart'
    <3>1. \A other \in Handlers : At(other, "refund.transaction") => call[other].pay # p
      BY <2>1 DEF IInv, CallPayments, KnowsPayment, RecordsFollowMoney, Recorded, At
    <3>. QED  BY <2>1, <3>1 DEF IInv, CallPayments, KnowsPayment, CallsApart, At
  <2>6. /\ CallTargets' /\ PaidHasCompletedPayment'
        /\ ProviderCancelWasRefunded' /\ AckedIsRecorded'
    BY <2>1 DEF IInv, TypeOK, CallTargets, KnowsTarget, PaidHasCompletedPayment,
                ProviderCancelWasRefunded, AckedIsRecorded
  <2>. QED  BY <2>2, <2>3, <2>4, <2>5, <2>6 DEF IInv
<1>2. CASE DeliverSettled(p)
  <2>1. TypeOK' /\ AckedIsRecorded'
    BY <1>2 DEF DeliverSettled, IInv, TypeOK, AckedIsRecorded
  <2>2. CallTargets' /\ CallPayments' /\ CallsApart'
    BY <1>2 DEF DeliverSettled, IInv, CallTargets, CallPayments, CallsApart, KnowsTarget,
                KnowsPayment, At
  <2>3. Rows' /\ RecordsFollowMoney' /\ PaidHasCompletedPayment' /\ ProviderCancelWasRefunded'
    BY <1>2 DEF DeliverSettled, IInv, Rows, RecordsFollowMoney, PaidHasCompletedPayment,
                ProviderCancelWasRefunded
  <2>. QED  BY <2>1, <2>2, <2>3 DEF IInv
<1>. QED  BY <1>1, <1>2

----------------------------------------------------------------------------
(* Deletion *)

LEMMA DeleteKeepsIInv ==
  ASSUME IInv, NEW T \in SUBSET Targets, Delete(T), booked' \subseteq Slots
  PROVE  IInv'
<1>1. /\ TypeOK
      /\ status' \in [Targets -> Statuses]
      /\ \A t \in Targets : status'[t] = IF t \in T THEN "DELETED" ELSE status[t]
      /\ payFor' \in [Payments -> Targets \cup {None}]
      /\ \A p \in Payments : payFor'[p] = IF payFor[p] \in T THEN None ELSE payFor[p]
      /\ UNCHANGED <<payment, cancellations, session, refunded, acked, call, crashes>>
  BY DEF Delete, IInv, TypeOK, Statuses
<1>2. TypeOK'
  BY <1>1 DEF TypeOK
<1>3. CallTargets' /\ CallsApart'
  BY <1>1 DEF IInv, CallTargets, CallsApart, KnowsTarget, At
<1>4. ASSUME NEW hd \in Handlers
      PROVE  KnowsPayment(call[hd])'
  BY <1>1, BookingAssumption DEF IInv, CallPayments, KnowsPayment, TypeOK, Calls
<1>5. Rows' /\ RecordsFollowMoney' /\ AckedIsRecorded'
  BY <1>1, BookingAssumption DEF IInv, Rows, RecordsFollowMoney, AckedIsRecorded, TypeOK
<1>6. \* a booking still shown paid or refunded was not deleted, so its payments kept it
      PaidHasCompletedPayment' /\ ProviderCancelWasRefunded'
  <2>1. \A t \in Targets : \A s \in {"PAID", "CANCELLED_BY_PROVIDER"} :
           status'[t] = s => status[t] = s /\ t \notin T
    BY <1>1
  <2>2. \A t \in Targets \ T : \A p \in Payments : payFor[p] = t => payFor'[p] = t
    BY <1>1
  <2>3. PaidHasCompletedPayment'
    BY <1>1, <2>1, <2>2 DEF IInv, PaidHasCompletedPayment
  <2>4. ProviderCancelWasRefunded'
    BY <1>1, <2>1, <2>2 DEF IInv, ProviderCancelWasRefunded, TypeOK
  <2>. QED  BY <2>3, <2>4
<1>. QED  BY <1>2, <1>3, <1>4, <1>5, <1>6 DEF IInv, CallPayments

LEMMA DeletionsKeepIInv ==
  ASSUME IInv,
         \/ \E r \in Requests : DeleteService(r)
         \/ \E i \in Inquiries : DeleteVenue(VenueOf[SlotOf[i]])
  PROVE  IInv'
<1>. booked \subseteq Slots
  BY DEF IInv, TypeOK
<1>1. ASSUME NEW r \in Requests, DeleteService(r)
      PROVE  IInv'
  <2>. {r} \in SUBSET Targets
    BY DEF Targets
  <2>. QED  BY <1>1, DeleteKeepsIInv DEF DeleteService
<1>2. ASSUME NEW i \in Inquiries, DeleteVenue(VenueOf[SlotOf[i]])
      PROVE  IInv'
  <2>. DEFINE T == {j \in Inquiries : VenueOf[SlotOf[j]] = VenueOf[SlotOf[i]]}
  <2>1. T \in SUBSET Targets
    BY DEF Targets
  <2>2. Delete(T) /\ booked' \subseteq Slots
    BY <1>2 DEF DeleteVenue
  <2>. HIDE DEF T
  <2>. QED  BY <2>1, <2>2, DeleteKeepsIInv
<1>. QED  BY <1>1, <1>2

----------------------------------------------------------------------------
(* Checkout: a new row, then its session *)

LEMMA CheckoutInsertKeepsIInv ==
  ASSUME IInv, NEW hd \in Handlers, CheckoutInsert(hd)
  PROVE  IInv'
<1>. USE DEF At
<1>1. PICK p \in Payments :
        /\ payment[p] = "ABSENT"
        /\ payment' = [payment EXCEPT ![p] = "PENDING"]
        /\ payFor' = [payFor EXCEPT ![p] = call[hd].tgt]
        /\ call' = [call EXCEPT ![hd] = [@ EXCEPT !.pc = "checkout.session", !.pay = p]]
  BY DEF CheckoutInsert
<1>2. /\ call[hd] \in Calls /\ call[hd].pc = "checkout.insert" /\ call[hd].tgt \in Targets
      /\ status[call[hd].tgt] # "DELETED"
      /\ TypeOK /\ Rows /\ session[p] = "none" /\ p \notin refunded /\ p \notin cancellations
      /\ UNCHANGED <<status, booked, cancellations, session, refunded, acked, crashes>>
  BY <1>1 DEF CheckoutInsert, RowThere, UNCHANGED_bookings, IInv, TypeOK, CallTargets, KnowsTarget,
              Rows, RecordsFollowMoney, Recorded
<1>3. /\ call' \in [Handlers -> Calls]
      /\ call'[hd].pc = "checkout.session" /\ call'[hd].pay = p /\ call'[hd].tgt = call[hd].tgt
      /\ \A other \in Handlers \ {hd} : call'[other] = call[other]
  BY <1>1, <1>2 DEF TypeOK, Calls, Steps
<1>4. TypeOK'
  BY <1>1, <1>2, <1>3 DEF TypeOK, PaymentStates
<1>5. \* nobody holds the new row
      \A other \in Handlers \ {hd} : call[other].pay # p
  BY <1>1 DEF IInv, CallPayments, KnowsPayment
<1>6. CallTargets'
  BY <1>2, <1>3 DEF IInv, CallTargets, KnowsTarget
<1>7. CallPayments'
  <2>1. KnowsPayment(call[hd])'
    BY <1>1, <1>2, <1>3 DEF KnowsPayment, TypeOK
  <2>2. ASSUME NEW other \in Handlers \ {hd}
        PROVE  KnowsPayment(call[other])'
    BY <1>1, <1>2, <1>3, <1>5 DEF IInv, CallPayments, KnowsPayment, TypeOK
  <2>. QED  BY <2>1, <2>2 DEF CallPayments
<1>8. CallsApart'
  BY <1>2, <1>3, <1>5 DEF IInv, CallsApart
<1>9. Rows' /\ RecordsFollowMoney' /\ AckedIsRecorded'
  <2>1. Rows'
    BY <1>1, <1>2 DEF IInv, Rows, TypeOK
  <2>2. RecordsFollowMoney'
    BY <1>1, <1>2 DEF IInv, RecordsFollowMoney, TypeOK
  <2>3. AckedIsRecorded'
    BY <1>1, <1>2 DEF IInv, Rows, AckedIsRecorded, TypeOK
  <2>. QED  BY <2>1, <2>2, <2>3
<1>10. PaidHasCompletedPayment' /\ ProviderCancelWasRefunded'
  BY <1>1, <1>2 DEF IInv, PaidHasCompletedPayment, ProviderCancelWasRefunded, TypeOK
<1>. QED  BY <1>4, <1>6, <1>7, <1>8, <1>9, <1>10 DEF IInv

LEMMA CheckoutSessionKeepsIInv ==
  ASSUME IInv, NEW hd \in Handlers, CheckoutSession(hd)
  PROVE  IInv'
<1>. USE DEF At
<1>. DEFINE p == call[hd].pay
<1>1. /\ p \in Payments /\ session[p] = "none" /\ payment[p] # "ABSENT"
      /\ session' = [session EXCEPT ![p] = "open"]
      /\ TypeOK /\ Finish(hd)
      /\ UNCHANGED <<status, booked, payment, payFor, cancellations, refunded, acked, crashes>>
  BY DEF CheckoutSession, UNCHANGED_bookings, IInv, CallPayments, KnowsPayment
<1>2. /\ call' \in [Handlers -> Calls] /\ call'[hd] = Idle
      /\ \A other \in Handlers \ {hd} : call'[other] = call[other]
  BY <1>1, FinishEffect
<1>3. TypeOK'
  BY <1>1, <1>2 DEF TypeOK, SessionStates
<1>4. CallTargets'
  BY <1>2, IdleKnows DEF IInv, CallTargets, KnowsTarget
<1>5. CallPayments'
  <2>1. KnowsPayment(call[hd])'
    BY <1>2, BookingAssumption DEF KnowsPayment, Idle
  <2>2. ASSUME NEW other \in Handlers \ {hd}
        PROVE  KnowsPayment(call[other])'
    <3>1. call[other].pc = "checkout.session" => call[other].pay # p
      BY DEF CheckoutSession, IInv, CallsApart
    <3>. QED  BY <3>1, <1>1, <1>2 DEF IInv, CallPayments, KnowsPayment, TypeOK
  <2>. QED  BY <2>1, <2>2 DEF CallPayments
<1>6. CallsApart'
  <2>1. \A other \in Handlers : call[other].pc = "refund.transaction" => call[other].pay # p
    BY <1>1 DEF IInv, CallPayments, KnowsPayment, RecordsFollowMoney, Recorded
  <2>2. \A other \in Handlers : call[other].pc = "refund.transaction" =>
           session'[call[other].pay] = session[call[other].pay]
    BY <1>1, <2>1 DEF TypeOK
  <2>. QED  BY <1>2, <2>2 DEF IInv, CallsApart, Idle
<1>7. Rows' /\ RecordsFollowMoney' /\ AckedIsRecorded'
  BY <1>1 DEF IInv, Rows, RecordsFollowMoney, AckedIsRecorded, TypeOK
<1>8. PaidHasCompletedPayment' /\ ProviderCancelWasRefunded'
  BY <1>1 DEF IInv, TypeOK, PaidHasCompletedPayment, ProviderCancelWasRefunded
<1>. QED  BY <1>3, <1>4, <1>5, <1>6, <1>7, <1>8 DEF IInv

----------------------------------------------------------------------------
(* The webhook *)

\* Deliver and CancelPaid read a payment and its target and remember both.
LEMMA PaymentReadersKeepIInv ==
  ASSUME IInv, NEW hd \in Handlers,
         (\E p \in Payments : Deliver(hd, p)) \/ (\E t \in Targets : CancelPaid(hd, t))
  PROVE  IInv'
<1>1. PICK p \in Payments, pc \in {"settle.transaction", "refund.stripe"} :
        /\ Begin(hd, [Idle EXCEPT !.pc = pc, !.tgt = payFor[p], !.pay = p])
        /\ pc = "settle.transaction" => Completed(p) /\ payment[p] = "PENDING"
        /\ pc = "refund.stripe" => payment[p] = "COMPLETED"
        /\ payFor[p] \in Targets
  BY DEF Deliver, StartSettling, CancelPaid, IInv, TypeOK
<1>2. /\ UNCHANGED <<status, booked, payment, payFor, cancellations, session, refunded, acked, crashes>>
      /\ TypeOK /\ payment[p] # "ABSENT"
  BY <1>1 DEF Deliver, CancelPaid, UNCHANGED_bookings, UNCHANGED_money, IInv, Rows
<1>. DEFINE c == [Idle EXCEPT !.pc = pc, !.tgt = payFor[p], !.pay = p]
<1>3. c \in Calls /\ c.pc = pc /\ c.tgt = payFor[p] /\ c.pay = p
  BY <1>1 DEF Idle, Calls, Steps, Statuses, Undecided
<1>4. /\ call' \in [Handlers -> Calls] /\ call'[hd] = c
      /\ \A other \in Handlers \ {hd} : call'[other] = call[other]
  BY <1>1, <1>2, <1>3, BeginEffect
<1>5. TypeOK'
  BY <1>2, <1>4 DEF TypeOK
<1>6. CallTargets'
  BY <1>1, <1>3, <1>4 DEF IInv, CallTargets, KnowsTarget
<1>7. CallPayments'
  <2>1. KnowsPayment(call[hd])'
    BY <1>1, <1>2, <1>3, <1>4 DEF KnowsPayment, Recorded
  <2>2. ASSUME NEW other \in Handlers \ {hd}
        PROVE  KnowsPayment(call[other])'
    BY <1>2, <1>4 DEF IInv, CallPayments, KnowsPayment
  <2>. QED  BY <2>1, <2>2 DEF CallPayments
<1>8. CallsApart'
  <2>1. call'[hd].pc \notin {"checkout.session", "refund.transaction"}
    BY <1>3, <1>4
  <2>2. \A other \in Handlers \ {hd} : call'[other] = call[other]
    BY <1>4
  <2>. HIDE DEF c
  <2>. QED  BY <1>2, <2>1, <2>2 DEF IInv, CallsApart, At
<1>9. /\ Rows' /\ RecordsFollowMoney' /\ AckedIsRecorded'
      /\ PaidHasCompletedPayment' /\ ProviderCancelWasRefunded'
  BY <1>2 DEF IInv, Rows, RecordsFollowMoney, AckedIsRecorded,
              PaidHasCompletedPayment, ProviderCancelWasRefunded
<1>. QED  BY <1>5, <1>6, <1>7, <1>8, <1>9 DEF IInv

LEMMA SettleTransactionKeepsIInv ==
  ASSUME IInv, NEW hd \in Handlers, SettleTransaction(hd)
  PROVE  IInv'
<1>. USE DEF At
<1>. DEFINE p == call[hd].pay
            t == call[hd].tgt
<1>1. /\ p \in Payments /\ t \in Targets /\ Completed(p) /\ TypeOK
      /\ payFor[p] = t /\ status[t] # "DELETED"
      /\ payment' = [payment EXCEPT ![p] = "COMPLETED"]
      /\ status' = [status EXCEPT ![t] = "PAID"]
      /\ UNCHANGED <<booked, payFor, cancellations, session, refunded, crashes>>
  BY DEF SettleTransaction, RowThere, IInv, CallPayments, KnowsPayment, CallTargets, KnowsTarget
<1>2. /\ call' \in [Handlers -> Calls]
      /\ \/ t \in Inquiries /\ call'[hd].pc = "settle.find" /\ call'[hd].pay = p /\ call'[hd].tgt = t
         \/ call'[hd] = Idle
      /\ \A other \in Handlers \ {hd} : call'[other] = call[other]
  BY <1>1, ContinueEffect, FinishEffect DEF SettleTransaction, FinishAndAck, Steps
<1>3. acked' \in {acked, acked \cup {p}}
  BY DEF SettleTransaction, FinishAndAck
<1>4. TypeOK'
  BY <1>1, <1>2, <1>3 DEF TypeOK, PaymentStates, Statuses
<1>5. CallTargets'
  BY <1>2, IdleKnows DEF IInv, CallTargets, KnowsTarget
<1>6. CallPayments'
  <2>1. KnowsPayment(call[hd])'
    BY <1>1, <1>2, BookingAssumption DEF KnowsPayment, Idle, TypeOK, Recorded
  <2>2. ASSUME NEW other \in Handlers \ {hd}
        PROVE  KnowsPayment(call[other])'
    BY <1>1, <1>2 DEF IInv, CallPayments, KnowsPayment, TypeOK, Calls, Recorded
  <2>. QED  BY <2>1, <2>2 DEF CallPayments
<1>7. CallsApart'
  <2>1. call'[hd].pc \notin {"checkout.session", "refund.transaction"}
    BY <1>2 DEF Idle
  <2>2. session' = session /\ \A other \in Handlers \ {hd} : call'[other] = call[other]
    BY <1>1, <1>2
  <2>. HIDE DEF p, t
  <2>. QED  BY <2>1, <2>2 DEF IInv, CallsApart
<1>8. Rows' /\ RecordsFollowMoney' /\ AckedIsRecorded'
  <2>1. /\ payment'[p] = "COMPLETED" /\ \A q \in Payments \ {p} : payment'[q] = payment[q]
        /\ status'[t] = "PAID" /\ \A u \in Targets \ {t} : status'[u] = status[u]
    BY <1>1 DEF TypeOK
  <2>. HIDE DEF p, t
  <2>2. Rows'
    <3>1. \A q \in Payments : payment'[q] \in Recorded => payment[q] \in Recorded \/ q = p
      BY <2>1
    <3>. QED  BY <1>1, <1>3, <2>1, <3>1 DEF IInv, Rows, Recorded
  <2>3. RecordsFollowMoney'
    BY <1>1, <2>1 DEF IInv, RecordsFollowMoney
  <2>4. AckedIsRecorded'
    BY <1>1, <1>3, <2>1 DEF IInv, AckedIsRecorded
  <2>. QED  BY <2>2, <2>3, <2>4
<1>9. PaidHasCompletedPayment'
  BY <1>1 DEF IInv, PaidHasCompletedPayment, TypeOK
<1>10. ProviderCancelWasRefunded'
  \* the booking whose refund is overwritten is the one now shown paid
  BY <1>1 DEF IInv, ProviderCancelWasRefunded, TypeOK
<1>. QED  BY <1>4, <1>5, <1>6, <1>7, <1>8, <1>9, <1>10 DEF IInv

LEMMA SettleDateKeepsIInv ==
  ASSUME IInv, NEW hd \in Handlers, SettleFind(hd) \/ SettleUpsert(hd)
  PROVE  IInv'
<1>. USE DEF At, UNCHANGED_bookings
<1>. DEFINE p == call[hd].pay
<1>1. /\ p \in Payments /\ call[hd].tgt \in Inquiries
      /\ payFor[p] = call[hd].tgt \/ (payFor[p] = None /\ status[call[hd].tgt] = "DELETED")
      /\ payment[p] \in Recorded /\ TypeOK
      /\ UNCHANGED <<status, payment, payFor, cancellations, session, refunded, crashes>>
  BY DEF SettleFind, SettleUpsert, IInv, CallPayments, KnowsPayment, CallTargets, KnowsTarget, Recorded
<1>2. /\ call' \in [Handlers -> Calls]
      /\ \/ call'[hd].pc = "settle.upsert" /\ call'[hd].pay = p /\ call'[hd].tgt = call[hd].tgt
         \/ call'[hd] = Idle
      /\ \A other \in Handlers \ {hd} : call'[other] = call[other]
  BY <1>1, ContinueEffect, FinishEffect DEF SettleFind, SettleUpsert, FinishAndAck, Steps
<1>3. /\ acked' \in {acked, acked \cup {p}}
      /\ booked' \in {booked, booked \cup {SlotOf[call[hd].tgt]}}
  BY DEF SettleFind, SettleUpsert, FinishAndAck, SlotAt
<1>4. TypeOK'
  BY <1>1, <1>2, <1>3, BookingAssumption DEF TypeOK
<1>5. CallTargets'
  BY <1>1, <1>2, IdleKnows DEF IInv, CallTargets, KnowsTarget
<1>6. CallPayments'
  <2>1. KnowsPayment(call[hd])'
    BY <1>1, <1>2, BookingAssumption DEF KnowsPayment, Idle, Recorded
  <2>2. ASSUME NEW other \in Handlers \ {hd}
        PROVE  KnowsPayment(call[other])'
    BY <1>1, <1>2 DEF IInv, CallPayments, KnowsPayment
  <2>. QED  BY <2>1, <2>2 DEF CallPayments
<1>7. CallsApart'
  BY <1>1, <1>2 DEF IInv, CallsApart, Idle
<1>8. Rows' /\ RecordsFollowMoney' /\ PaidHasCompletedPayment' /\ ProviderCancelWasRefunded'
  BY <1>1, <1>3 DEF IInv, Recorded, Rows, RecordsFollowMoney, PaidHasCompletedPayment, ProviderCancelWasRefunded
<1>9. AckedIsRecorded'
  BY <1>1, <1>3 DEF IInv, AckedIsRecorded, Recorded
<1>. QED  BY <1>4, <1>5, <1>6, <1>7, <1>8, <1>9 DEF IInv

----------------------------------------------------------------------------
(* The refund *)

LEMMA RefundStripeKeepsIInv ==
  ASSUME IInv, NEW hd \in Handlers, RefundStripe(hd)
  PROVE  IInv'
<1>. USE DEF At, UNCHANGED_bookings
<1>. DEFINE p == call[hd].pay
<1>1. /\ p \in Payments /\ call[hd].tgt \in Targets
      /\ payFor[p] = call[hd].tgt \/ (payFor[p] = None /\ status[call[hd].tgt] = "DELETED")
      /\ payment[p] \in Recorded /\ TypeOK
      /\ UNCHANGED <<status, booked, payment, payFor, cancellations, session, acked, crashes>>
  BY DEF RefundStripe, IInv, CallPayments, KnowsPayment, CallTargets, KnowsTarget
<1>2. CASE Finish(hd) /\ UNCHANGED refunded
  <2>1. UNCHANGED_money
    BY <1>1, <1>2 DEF UNCHANGED_money
  <2>2. Idle.pay = None /\ Idle.pc \in QuietSteps
    BY DEF Idle, QuietSteps, Steps
  <2>. QED  BY <1>1, <1>2, <2>1, <2>2, FinishEffect, IdleKnows, QuietCallStep DEF TypeOK, QuietStatus
<1>3. CASE /\ Continue(hd, "refund.transaction")
           /\ \/ session[p] = "paid" /\ p \notin refunded /\ refunded' = refunded \cup {p}
              \/ (session[p] = "free" \/ Keyless) /\ UNCHANGED refunded
  <2>1. /\ refunded \subseteq refunded' /\ refunded' \subseteq refunded \cup {p}
        /\ p \in refunded' \/ ~ByStripe(p)
        /\ p \in refunded' /\ p \notin refunded => session[p] = "paid"
        /\ call' \in [Handlers -> Calls]
        /\ call'[hd].pc = "refund.transaction" /\ call'[hd].pay = p /\ call'[hd].tgt = call[hd].tgt
        /\ \A other \in Handlers \ {hd} : call'[other] = call[other]
    BY <1>1, <1>3, ContinueEffect DEF Steps
  <2>2. \* what Stripe has just refunded was not refunded before, so nothing is on record
        ByStripe(p) => p \notin refunded /\ p \notin cancellations
    BY <1>1, <1>3 DEF IInv, Rows
  <2>3. TypeOK'
    BY <1>1, <2>1 DEF TypeOK
  <2>4. CallTargets'
    BY <1>1, <2>1 DEF IInv, CallTargets, KnowsTarget
  <2>5. CallPayments'
    <3>1. KnowsPayment(call[hd])'
      <4>1. HasMoneyBack(p)' /\ payment'[p] \in Recorded /\ payment'[p] # "ABSENT"
        BY <1>1, <1>3, <2>1 DEF Recorded
      <4>2. ByStripe(p)' => p \notin cancellations'
        BY <1>1, <2>1, <2>2
      <4>. QED  BY <1>1, <2>1, <4>1, <4>2 DEF KnowsPayment
    <3>2. ASSUME NEW other \in Handlers \ {hd}
          PROVE  KnowsPayment(call[other])'
      BY <1>1, <2>1 DEF IInv, CallPayments, KnowsPayment
    <3>. QED  BY <3>1, <3>2 DEF CallPayments
  <2>6. CallsApart'
    <3>1. \A other \in Handlers :
             call[other].pc = "refund.transaction" /\ ByStripe(p) => call[other].pay # p
      BY <2>2 DEF IInv, CallPayments, KnowsPayment
    <3>. QED  BY <1>1, <2>1, <3>1 DEF IInv, CallsApart
  <2>7. Rows' /\ RecordsFollowMoney' /\ AckedIsRecorded'
    BY <1>1, <2>1 DEF IInv, Rows, RecordsFollowMoney, AckedIsRecorded, Recorded
  <2>8. PaidHasCompletedPayment' /\ ProviderCancelWasRefunded'
    BY <1>1, <2>1 DEF IInv, PaidHasCompletedPayment, ProviderCancelWasRefunded
  <2>. QED  BY <2>3, <2>4, <2>5, <2>6, <2>7, <2>8 DEF IInv
<1>. QED  BY <1>2, <1>3 DEF RefundStripe

LEMMA RefundTransactionKeepsIInv ==
  ASSUME IInv, NEW hd \in Handlers, RefundTransaction(hd)
  PROVE  IInv'
<1>. USE DEF At
<1>. DEFINE p == call[hd].pay
            t == call[hd].tgt
<1>1. /\ p \in Payments /\ t \in Targets /\ TypeOK
      /\ payFor[p] = t /\ status[t] # "DELETED"
      /\ HasMoneyBack(p) /\ payment[p] = "COMPLETED" /\ Completed(p) /\ p \notin cancellations
      /\ payment' = [payment EXCEPT ![p] = "REFUNDED"]
      /\ status' = [status EXCEPT ![t] = "CANCELLED_BY_PROVIDER"]
      /\ cancellations' = cancellations \cup {p}
      /\ UNCHANGED <<booked, payFor, session, refunded, acked, crashes>>
  BY DEF RefundTransaction, RowThere, IInv, CallPayments, KnowsPayment, CallTargets, KnowsTarget,
         RecordsFollowMoney, Rows, Recorded
<1>2. /\ call' \in [Handlers -> Calls]
      /\ \/ t \in Inquiries /\ call'[hd].pc = "refund.release" /\ call'[hd].pay = p /\ call'[hd].tgt = t
         \/ call'[hd] = Idle
      /\ \A other \in Handlers \ {hd} : call'[other] = call[other]
  BY <1>1, ContinueEffect, FinishEffect DEF RefundTransaction, Steps
<1>3. TypeOK'
  BY <1>1, <1>2 DEF TypeOK, PaymentStates, Statuses
<1>4. CallTargets'
  BY <1>2, IdleKnows DEF IInv, CallTargets, KnowsTarget
<1>5. CallPayments'
  <2>1. KnowsPayment(call[hd])'
    BY <1>1, <1>2, BookingAssumption DEF KnowsPayment, Idle, TypeOK
  <2>2. ASSUME NEW other \in Handlers \ {hd}
        PROVE  KnowsPayment(call[other])'
    <3>1. call[other].pc = "refund.transaction" /\ ByStripe(p) => call[other].pay # p
      BY DEF RefundTransaction, IInv, CallsApart
    <3>. QED  BY <1>1, <1>2, <3>1 DEF IInv, CallPayments, KnowsPayment, TypeOK, Calls, Recorded
  <2>. QED  BY <2>1, <2>2 DEF CallPayments
<1>6. CallsApart'
  <2>1. call'[hd].pc \notin {"checkout.session", "refund.transaction"}
    BY <1>2 DEF Idle
  <2>2. session' = session /\ \A other \in Handlers \ {hd} : call'[other] = call[other]
    BY <1>1, <1>2
  <2>. HIDE DEF p, t
  <2>. QED  BY <2>1, <2>2 DEF IInv, CallsApart
<1>7. Rows' /\ RecordsFollowMoney' /\ AckedIsRecorded'
  <2>1. /\ payment'[p] = "REFUNDED" /\ \A q \in Payments \ {p} : payment'[q] = payment[q]
        /\ status'[t] # "DELETED" /\ \A u \in Targets \ {t} : status'[u] = status[u]
    BY <1>1 DEF TypeOK
  <2>. HIDE DEF p, t
  <2>2. Rows'
    BY <1>1, <2>1 DEF IInv, Rows, Recorded
  <2>3. RecordsFollowMoney'
    BY <1>1, <2>1 DEF IInv, RecordsFollowMoney
  <2>4. AckedIsRecorded'
    BY <1>1, <2>1 DEF IInv, AckedIsRecorded
  <2>. QED  BY <2>2, <2>3, <2>4
<1>8. PaidHasCompletedPayment'
  \* a booking still shown paid is another one: its payment is not p
  BY <1>1 DEF IInv, PaidHasCompletedPayment, TypeOK
<1>9. ProviderCancelWasRefunded'
  BY <1>1 DEF IInv, ProviderCancelWasRefunded, TypeOK
<1>. QED  BY <1>3, <1>4, <1>5, <1>6, <1>7, <1>8, <1>9 DEF IInv

----------------------------------------------------------------------------
(* The inductive invariant and what it implies *)

LEMMA InitIInv == Init => IInv
<1>1. Init => TypeOK
  BY IdleIsACall, BookingAssumption
     DEF Init, TypeOK, Statuses, PaymentStates, SessionStates
<1>2. Init => CallTargets /\ CallPayments /\ CallsApart
  BY IdleKnows, BookingAssumption
     DEF Init, CallTargets, CallPayments, CallsApart, At, Idle, KnowsTarget, KnowsPayment
<1>3. Init => /\ Rows /\ RecordsFollowMoney /\ AckedIsRecorded
              /\ PaidHasCompletedPayment /\ ProviderCancelWasRefunded
  BY DEF Init, Rows, RecordsFollowMoney, AckedIsRecorded, PaidHasCompletedPayment,
         ProviderCancelWasRefunded
<1>. QED  BY <1>1, <1>2, <1>3 DEF IInv

LEMMA NextIInv == IInv /\ [Next]_vars => IInv'
<1>. SUFFICES ASSUME IInv, [Next]_vars
              PROVE  IInv'
  OBVIOUS
<1>1. CASE ActorStep
  BY <1>1, PartiesKeepIInv, StripeKeepsIInv, DeletionsKeepIInv DEF ActorStep
<1>2. ASSUME NEW hd \in Handlers, Start(hd)
      PROVE  IInv'
  BY <1>2, ReadersKeepIInv, PaymentReadersKeepIInv DEF Start
<1>3. ASSUME NEW hd \in Handlers, Proceed(hd) \/ Crash(hd)
      PROVE  IInv'
  BY <1>3, WritersKeepIInv, CheckoutInsertKeepsIInv, CheckoutSessionKeepsIInv,
     SettleTransactionKeepsIInv, SettleDateKeepsIInv, RefundStripeKeepsIInv,
     RefundTransactionKeepsIInv DEF Proceed, SettleStep
<1>4. CASE UNCHANGED vars
  <2>1. UNCHANGED_money /\ UNCHANGED <<status, booked, call, crashes>>
    BY <1>4 DEF vars, UNCHANGED_money
  <2>. QED  BY <2>1, QuietPartyStep DEF IInv, TypeOK, QuietStatus
<1>. QED  BY <1>1, <1>2, <1>3, <1>4 DEF Next

\* What an invocation still knows of the rows it read holds at every step.
THEOREM InvariantHolds == Spec => []IInv
BY InitIInv, NextIInv, PTL DEF Spec

\* Every variable keeps its type.
THEOREM TypeCorrect == Spec => []TypeOK
<1>1. IInv => TypeOK
  BY DEF IInv
<1>. QED  BY <1>1, InvariantHolds, PTL

\* A booking is never shown paid without a completed payment of its own.
THEOREM PaidIsBacked == Spec => []PaidHasCompletedPayment
<1>1. IInv => PaidHasCompletedPayment
  BY DEF IInv
<1>. QED  BY <1>1, InvariantHolds, PTL

\* A booking is never shown as refunded by its provider unless the customer has
\* his money back, or was never charged, or the refund was made by an instance
\* without Stripe's key; its record and its reason are there.
THEOREM ProviderCancelIsBacked == Spec => []ProviderCancelWasRefunded
<1>1. IInv => ProviderCancelWasRefunded
  BY DEF IInv
<1>. QED  BY <1>1, InvariantHolds, PTL

\* A payment row never claims a charge or a refund that did not take place.
THEOREM RecordsAreTrue == Spec => []RecordsFollowMoney
<1>1. IInv => RecordsFollowMoney
  BY DEF IInv
<1>. QED  BY <1>1, InvariantHolds, PTL

\* An event Stripe no longer redelivers is on record, whatever crashed.
THEOREM NoPaymentIsLost == Spec => []AckedIsRecorded
<1>1. IInv => AckedIsRecorded
  BY DEF IInv
<1>. QED  BY <1>1, InvariantHolds, PTL

\* Two racing cancellations of a paid booking never both record a refund.
THEOREM RefundIsRecordedOnce == Spec => []RefundRecordedOnce
<1>1. IInv => RefundRecordedOnce
  BY DEF IInv, CallPayments, KnowsPayment, CallsApart, RefundRecordedOnce, At
<1>. QED  BY <1>1, InvariantHolds, PTL

\* Between two awaits an invocation's knowledge of the rows it read stays true:
\* its payment's record, session and refund, and that no rival is at its point.
THEOREM CallsStayInformed == Spec => []CallsKnowTheRows
<1>1. IInv => CallsKnowTheRows
  BY DEF IInv, CallsKnowTheRows
<1>. QED  BY <1>1, InvariantHolds, PTL

\* Both together: the books are true.
THEOREM TrueBooks == Spec => []BooksAreTrue
BY RecordsAreTrue, RefundIsRecordedOnce, PTL DEF BooksAreTrue

----------------------------------------------------------------------------
(* Who moves an invocation, and where it may come from *)

LEMMA PartiesHoldNoCall == ASSUME ActorStep PROVE call' = call
BY DEF ActorStep, CreateRequest, ProviderDecline, DeleteService, DeleteVenue, Delete,
       ProviderSetStatus, OwnerBooks, OwnerFrees, CustomerPays, SessionExpires, DeliverSettled

\* A slot is moved on by its own invocation only.
LEMMA OthersStay ==
  ASSUME IInv, NEW hd \in Handlers, Start(hd) \/ Proceed(hd) \/ Crash(hd)
  PROVE  \A other \in Handlers \ {hd} : call'[other] = call[other]
<1>. call \in [Handlers -> Calls]
  BY DEF IInv, TypeOK
<1>1. CASE Start(hd)
  BY <1>1 DEF Start, CreateInquiry, Approve, OwnerReject, OwnerCancelApproved, SeekerCancel, End,
              SyncRead, Checkout, CancelPaid, Deliver, StartSettling, Begin
<1>2. CASE Crash(hd)
  BY <1>2 DEF Crash, Finish
<1>3. CASE Proceed(hd)
  BY <1>3 DEF Proceed, CreateInsert, ApproveFind, ApproveUpsert, ApproveUpdate, EndUpdate, EndFinalize,
              Release, SyncUpdate, CheckoutInsert, CheckoutSession, SettleStep, SettleTransaction,
              SettleFind, SettleUpsert, FinishAndAck, RefundStripe, RefundTransaction,
                RefundConflict, RowGone,
              Continue, Finish
<1>. QED  BY <1>1, <1>2, <1>3

\* An invocation starts in a free slot, with a read.
LEMMA StartsIdle ==
  ASSUME NEW hd \in Handlers, Start(hd)
  PROVE  call[hd] = Idle /\ UNCHANGED_bookings /\ UNCHANGED_money /\ UNCHANGED crashes
BY DEF Start, CreateInquiry, Approve, OwnerReject, OwnerCancelApproved, SeekerCancel, End,
       SyncRead, Checkout, CancelPaid, Deliver, StartSettling, Begin

LEMMA OwnMove ==
  ASSUME IInv, [Next]_vars, NEW hd \in Handlers, call'[hd] # call[hd]
  PROVE  Start(hd) \/ Proceed(hd) \/ Crash(hd)
BY PartiesHoldNoCall, OthersStay DEF Next, vars

\* A settlement is started by a delivery alone.
LEMMA SettlingStarts ==
  ASSUME IInv, [Next]_vars, NEW hd \in Handlers,
         call'[hd] # call[hd], call'[hd].pc = "settle.transaction"
  PROVE  \E p \in Payments : Deliver(hd, p)
<1>. call \in [Handlers -> Calls] /\ Idle \in Calls
  BY IdleIsACall DEF IInv, TypeOK
<1>1. CASE Start(hd)
  <2>. USE DEF Begin, Idle
  <2>1. \A i \in Inquiries : CreateInquiry(hd, i) \/ Approve(hd, i) => call'[hd].pc # "settle.transaction"
    BY DEF CreateInquiry, Approve
  <2>2. \A i \in Inquiries : OwnerReject(hd, i) \/ OwnerCancelApproved(hd, i) \/ SeekerCancel(hd, i)
           => call'[hd].pc # "settle.transaction"
    <3>1. ASSUME NEW i \in Inquiries, NEW s, NEW release, End(hd, i, s, release)
          PROVE  call'[hd].pc # "settle.transaction"
      <4>1. call'[hd] = [Idle EXCEPT !.pc = "end.update", !.tgt = i, !.to = s, !.release = release]
        BY <3>1 DEF End
      <4>. QED  BY <4>1
    <3>. QED  BY <3>1 DEF OwnerReject, OwnerCancelApproved, SeekerCancel
  <2>3. /\ \A r \in Requests : SyncRead(hd, r) => call'[hd].pc # "settle.transaction"
        /\ \A t \in Targets : Checkout(hd, t) \/ CancelPaid(hd, t) => call'[hd].pc # "settle.transaction"
    BY DEF SyncRead, Checkout, CancelPaid
  <2>. QED  BY <1>1, <2>1, <2>2, <2>3 DEF Start
<1>2. CASE Crash(hd) \/ RowGone(hd) \/ CreateInsert(hd) \/ ApproveUpdate(hd) \/ Release(hd)
           \/ SyncUpdate(hd) \/ CheckoutSession(hd) \/ SettleUpsert(hd) \/ RefundConflict(hd)
  <2>1. call'[hd] = Idle
    BY <1>2 DEF Crash, RowGone, CreateInsert, ApproveUpdate, Release, SyncUpdate, CheckoutSession,
                SettleUpsert, RefundConflict, FinishAndAck, Finish
  <2>. QED  BY <2>1 DEF Idle
<1>3. CASE ApproveFind(hd) \/ ApproveUpsert(hd) \/ EndUpdate(hd) \/ EndFinalize(hd)
           \/ RefundStripe(hd) \/ RefundTransaction(hd)
  BY <1>3 DEF ApproveFind, ApproveUpsert, EndUpdate, EndFinalize, RefundStripe, RefundTransaction,
              Continue, Finish, Idle, Calls
<1>4. CASE CheckoutInsert(hd)
  BY <1>4 DEF CheckoutInsert, Calls
<1>5. CASE SettleTransaction(hd) \/ SettleFind(hd)
  BY <1>5 DEF SettleTransaction, SettleFind, FinishAndAck, Continue, Finish, Idle, Calls
<1>. QED  BY OwnMove, <1>1, <1>2, <1>3, <1>4, <1>5 DEF Proceed, SettleStep

----------------------------------------------------------------------------
(* Who writes the rows of a payment *)

LEMMA PaymentWriters ==
  ASSUME IInv, [Next]_vars, NEW p \in Payments
  PROVE  \/ payment'[p] = payment[p]
         \/ payment[p] = "ABSENT" /\ payment'[p] = "PENDING" /\ payFor'[p] \in Targets
         \/ \E hd \in Handlers : SettleTransaction(hd) /\ call[hd].pay = p /\ payment'[p] = "COMPLETED"
         \/ \E hd \in Handlers : RefundTransaction(hd) /\ call[hd].pay = p /\ payment'[p] = "REFUNDED"
<1>. TypeOK
  BY DEF IInv
<1>1. CASE ActorStep \/ UNCHANGED vars
  BY <1>1 DEF ActorStep, CreateRequest, ProviderDecline, DeleteService, DeleteVenue, Delete, vars,
              ProviderSetStatus, OwnerBooks, OwnerFrees, CustomerPays, SessionExpires, DeliverSettled,
              UNCHANGED_money
<1>2. ASSUME NEW hd \in Handlers, Start(hd) \/ Crash(hd)
      PROVE  payment' = payment
  BY <1>2 DEF Start, CreateInquiry, Approve, OwnerReject, OwnerCancelApproved, SeekerCancel, End,
              SyncRead, Checkout, CancelPaid, Deliver, Crash, UNCHANGED_money
<1>3. ASSUME NEW hd \in Handlers, CheckoutInsert(hd)
      PROVE  \/ payment'[p] = payment[p]
             \/ payment[p] = "ABSENT" /\ payment'[p] = "PENDING" /\ payFor'[p] \in Targets
  BY <1>3 DEF CheckoutInsert, At, IInv, CallTargets, KnowsTarget, TypeOK
<1>4. ASSUME NEW hd \in Handlers, SettleTransaction(hd)
      PROVE  payment'[p] = IF call[hd].pay = p THEN "COMPLETED" ELSE payment[p]
  BY <1>4 DEF SettleTransaction, TypeOK
<1>5. ASSUME NEW hd \in Handlers, RefundTransaction(hd)
      PROVE  payment'[p] = IF call[hd].pay = p THEN "REFUNDED" ELSE payment[p]
  BY <1>5 DEF RefundTransaction, TypeOK
<1>6. ASSUME NEW hd \in Handlers, Proceed(hd), ~CheckoutInsert(hd), ~SettleTransaction(hd),
             ~RefundTransaction(hd)
      PROVE  payment' = payment
  BY <1>6 DEF Proceed, CreateInsert, ApproveFind, ApproveUpsert, ApproveUpdate, EndUpdate, EndFinalize,
              Release, SyncUpdate, CheckoutSession, SettleStep, SettleFind, SettleUpsert,
              RefundStripe, RefundConflict, RowGone, UNCHANGED_money
<1>. QED  BY <1>1, <1>2, <1>3, <1>4, <1>5, <1>6 DEF Next

\* A refund is entered at Stripe by RefundStripe alone, a cancellation by
\* RefundTransaction, which never takes one back, and a payment keeps its target
\* or has none.
LEMMA RefundWriters ==
  ASSUME IInv, [Next]_vars, NEW p \in Payments
  PROVE  /\ p \in refunded' => \/ p \in refunded
                               \/ \E hd \in Handlers : /\ RefundStripe(hd) /\ call[hd].pay = p
                                                        /\ call'[hd].pc = "refund.transaction"
                                                        /\ call'[hd].pay = p
         /\ p \in cancellations => p \in cancellations'
         /\ p \in cancellations' => \/ p \in cancellations
                                     \/ \E hd \in Handlers : RefundTransaction(hd) /\ call[hd].pay = p
         /\ payment[p] # "ABSENT" => payFor'[p] \in {payFor[p], None}
<1>. TypeOK
  BY DEF IInv
<1>1. CASE ActorStep \/ UNCHANGED vars
  <2>1. CASE \E T \in SUBSET Targets : Delete(T)
    BY <2>1 DEF Delete, TypeOK
  <2>2. CASE UNCHANGED <<payFor, cancellations, refunded>>
    BY <2>2
  <2>3. ASSUME NEW T \in SUBSET Inquiries, Delete(T)
        PROVE  \E U \in SUBSET Targets : Delete(U)
    BY <2>3 DEF Targets
  <2>4. ASSUME NEW v, DeleteVenue(v)
        PROVE  \E T \in SUBSET Inquiries : Delete(T)
    BY <2>4 DEF DeleteVenue
  <2>5. ASSUME NEW r \in Requests, DeleteService(r)
        PROVE  \E T \in SUBSET Targets : Delete(T)
    BY <2>5 DEF DeleteService, Targets
  <2>. QED  BY <1>1, <2>1, <2>2, <2>3, <2>4, <2>5
            DEF ActorStep, CreateRequest, ProviderDecline, vars, ProviderSetStatus, OwnerBooks, OwnerFrees,
                CustomerPays, SessionExpires, DeliverSettled, UNCHANGED_money
<1>2. ASSUME NEW hd \in Handlers, Start(hd) \/ Crash(hd)
      PROVE  UNCHANGED <<payFor, cancellations, refunded>>
  BY <1>2 DEF Start, CreateInquiry, Approve, OwnerReject, OwnerCancelApproved, SeekerCancel, End,
              SyncRead, Checkout, CancelPaid, Deliver, Crash, UNCHANGED_money
<1>3. ASSUME NEW hd \in Handlers, CheckoutInsert(hd)
      PROVE  /\ UNCHANGED <<cancellations, refunded>>
             /\ payment[p] # "ABSENT" => payFor'[p] = payFor[p]
  BY <1>3 DEF CheckoutInsert, TypeOK
<1>4. ASSUME NEW hd \in Handlers, RefundStripe(hd)
      PROVE  /\ UNCHANGED <<cancellations, payFor>>
             /\ p \in refunded' => \/ p \in refunded
                                   \/ /\ call[hd].pay = p /\ call'[hd].pc = "refund.transaction"
                                      /\ call'[hd].pay = p
  BY <1>4, ContinueEffect DEF RefundStripe, TypeOK, Steps
<1>5. ASSUME NEW hd \in Handlers, RefundTransaction(hd)
      PROVE  /\ UNCHANGED <<payFor, refunded>> /\ cancellations \subseteq cancellations'
             /\ p \in cancellations' => p \in cancellations \/ call[hd].pay = p
  BY <1>5 DEF RefundTransaction
<1>6. ASSUME NEW hd \in Handlers, Proceed(hd), ~CheckoutInsert(hd), ~RefundStripe(hd), ~RefundTransaction(hd)
      PROVE  UNCHANGED <<payFor, cancellations, refunded>>
  BY <1>6 DEF Proceed, CreateInsert, ApproveFind, ApproveUpsert, ApproveUpdate, EndUpdate, EndFinalize,
              Release, SyncUpdate, CheckoutSession, SettleStep, SettleTransaction, SettleFind, SettleUpsert,
              RefundConflict, RowGone, UNCHANGED_money
<1>. QED  BY <1>1, <1>2, <1>3, <1>4, <1>5, <1>6 DEF Next

----------------------------------------------------------------------------
(* While no two deliveries of one event settle together *)

LEMMA SettlesPendingKept ==
  ASSUME IInv, SettlesPending, DeliveriesApart, [Next]_vars
  PROVE  SettlesPending'
<1>. SUFFICES ASSUME NEW hd \in Handlers, call'[hd].pc = "settle.transaction"
              PROVE  payment'[call'[hd].pay] = "PENDING"
  BY DEF SettlesPending, At
<1>. DEFINE p == call[hd].pay
<1>1. CASE call'[hd] = call[hd]
  <2>1. /\ At(hd, "settle.transaction") /\ payment[p] = "PENDING"
        /\ p \in Payments
    BY <1>1 DEF SettlesPending, At, IInv, CallPayments, KnowsPayment
  <2>2. ASSUME NEW other \in Handlers, SettleTransaction(other), call[other].pay = p
        PROVE  FALSE
    <3>1. other = hd
      BY <2>1, <2>2 DEF SettleTransaction, DeliveriesApart
    <3>2. call'[other].pc \in {"settle.find", "idle"}
      BY <2>2 DEF SettleTransaction, FinishAndAck, Continue, Finish, Idle, IInv, TypeOK, Calls
    <3>. QED  BY <1>1, <2>1, <3>1, <3>2 DEF At
  <2>3. ASSUME NEW other \in Handlers, RefundTransaction(other), call[other].pay = p
        PROVE  FALSE
    BY <2>1, <2>3 DEF RefundTransaction, At, IInv, CallPayments, KnowsPayment, Recorded
  <2>4. payment'[p] = payment[p]
    BY <2>1, <2>2, <2>3, PaymentWriters
  <2>. QED  BY <1>1, <2>1, <2>4
<1>2. CASE call'[hd] # call[hd]
  <2>1. PICK q \in Payments : Deliver(hd, q)
    BY <1>2, SettlingStarts
  <2>2. call'[hd].pay = q /\ payment[q] = "PENDING" /\ payment' = payment
    BY <2>1 DEF Deliver, StartSettling, Begin, Idle, UNCHANGED_money, IInv, TypeOK
  <2>. QED  BY <2>2
<1>. QED  BY <1>1, <1>2

\* A cancellation keeps its payment recorded as refunded: what settles is PENDING.
LEMMA CancelledStaysRefunded ==
  ASSUME IInv, SettlesPending, RefundsTraced, [Next]_vars, NEW p \in cancellations'
  PROVE  payment'[p] = "REFUNDED"
<1>1. p \in Payments
  BY NextIInv DEF IInv, TypeOK
<1>2. CASE p \in cancellations
  <2>1. payment[p] = "REFUNDED"
    BY <1>2 DEF RefundsTraced
  <2>2. \A hd \in Handlers : SettleTransaction(hd) => call[hd].pay # p
    BY <2>1 DEF SettleTransaction, SettlesPending
  <2>. QED  BY <1>1, <2>1, <2>2, PaymentWriters
<1>3. CASE p \notin cancellations
  <2>1. PICK hd \in Handlers : RefundTransaction(hd) /\ call[hd].pay = p
    BY <1>1, <1>3, RefundWriters
  <2>. QED  BY <1>1, <2>1 DEF RefundTransaction, IInv, TypeOK
<1>. QED  BY <1>2, <1>3

\* What is recorded stays recorded, and a refund issued is recorded next.
LEMMA RefundsTracedKept ==
  ASSUME IInv, SettlesPending, RefundsTraced, [Next]_vars
  PROVE  RefundsTraced'
<1>. SUFFICES ASSUME crashes' = 0, NEW p \in refunded'
              PROVE  OnRecord(p)' \/ payFor'[p] = None \/ Recording(p)'
  BY CancelledStaysRefunded DEF RefundsTraced
<1>1. p \in Payments /\ crashes = 0 /\ \A hd \in Handlers : ~Crash(hd)
  <2>1. TypeOK' /\ TypeOK
    BY NextIInv DEF IInv
  <2>2. \A hd \in Handlers : Crash(hd) => crashes' # 0
    BY <2>1, BookingAssumption DEF Crash, TypeOK
  <2>3. crashes' = crashes
    BY <2>2 DEF Next, vars, ActorStep, Start, Proceed, CreateRequest, ProviderDecline, DeleteService,
                DeleteVenue, Delete, ProviderSetStatus, OwnerBooks, OwnerFrees, CustomerPays,
                SessionExpires, DeliverSettled, CreateInquiry, Approve, OwnerReject, OwnerCancelApproved,
                SeekerCancel, End, SyncRead, Checkout, CancelPaid, Deliver, CreateInsert, ApproveFind,
                ApproveUpsert, ApproveUpdate, EndUpdate, EndFinalize, Release, SyncUpdate, CheckoutInsert,
                CheckoutSession, SettleStep, SettleTransaction, SettleFind, SettleUpsert, RefundStripe,
                RefundTransaction, RefundConflict, RowGone
  <2>. QED  BY <2>1, <2>2, <2>3 DEF TypeOK
<1>2. CASE p \notin refunded
  BY <1>1, <1>2, RefundWriters DEF Recording, At
<1>. SUFFICES ASSUME p \in refunded
              PROVE  OnRecord(p)' \/ payFor'[p] = None \/ Recording(p)'
  BY <1>2
<1>3. CASE OnRecord(p)
  BY <1>1, <1>3, RefundWriters, CancelledStaysRefunded DEF OnRecord
<1>4. CASE payFor[p] = None
  <2>1. payment[p] # "ABSENT"
    BY <1>1 DEF IInv, RecordsFollowMoney
  <2>. QED  BY <1>1, <1>4, <2>1, RefundWriters
<1>5. CASE Recording(p)
  <2>1. PICK hd \in Handlers : At(hd, "refund.transaction") /\ call[hd].pay = p
    BY <1>5 DEF Recording
  <2>2. CASE call'[hd] = call[hd]
    BY <2>1, <2>2 DEF Recording, At
  <2>3. CASE RefundTransaction(hd)
    BY <1>1, <2>1, <2>3 DEF RefundTransaction, OnRecord, IInv, TypeOK
  <2>4. CASE RowGone(hd)
    <3>1. payFor' = payFor /\ status[call[hd].tgt] = "DELETED" /\ call[hd].tgt \in Targets
      BY <2>1, <2>4 DEF RowGone, RowThere, UNCHANGED_money, At, IInv, CallTargets, KnowsTarget
    <3>. QED  BY <1>1, <2>1, <3>1 DEF IInv, CallPayments, KnowsPayment, Rows
  <2>5. CASE RefundConflict(hd)
    <3>1. p \in cancellations
      BY <2>1, <2>5 DEF RefundConflict
    <3>. QED  BY <1>1, <3>1, RefundWriters, CancelledStaysRefunded DEF OnRecord
  <2>6. Start(hd) => FALSE
    BY <2>1, StartsIdle DEF At, Idle
  <2>7. Proceed(hd) => RefundTransaction(hd) \/ RefundConflict(hd) \/ RowGone(hd)
    BY <2>1 DEF Proceed, CreateInsert, ApproveFind, ApproveUpsert, ApproveUpdate, EndUpdate, EndFinalize,
                Release, SyncUpdate, CheckoutInsert, CheckoutSession, SettleStep, SettleTransaction,
                SettleFind, SettleUpsert, RefundStripe, At
  <2>. QED  BY <1>1, <2>2, <2>3, <2>4, <2>5, <2>6, <2>7, OwnMove
<1>. QED  BY <1>1, <1>3, <1>4, <1>5 DEF RefundsTraced

----------------------------------------------------------------------------
(* What holds as long as the deliveries of an event keep apart *)

\* With at most one delivery of an event between its look at the payment and its
\* transaction, what it settles is still PENDING.
THEOREM SettlementsAreFirst == Spec /\ []DeliveriesApart => []SettlesPending
<1>1. Init => SettlesPending
  BY DEF Init, SettlesPending, At, Idle
<1>. QED  BY <1>1, SettlesPendingKept, InvariantHolds, PTL DEF Spec

\* A recorded refund is final, whatever else overlaps, unless two deliveries of
\* its event do.
THEOREM RefundsAreFinal == Spec /\ []DeliveriesApart => RefundedIsFinal
<1>1. ASSUME IInv, SettlesPending, [Next]_vars
      PROVE  [\A p \in Payments : payment[p] = "REFUNDED" => payment'[p] = "REFUNDED"]_vars
  <2>. SUFFICES ASSUME NEW p \in Payments, payment[p] = "REFUNDED"
                PROVE  payment'[p] = "REFUNDED"
    OBVIOUS
  <2>1. \A hd \in Handlers : SettleTransaction(hd) => call[hd].pay # p
    BY <1>1 DEF SettleTransaction, SettlesPending
  <2>. QED  BY <1>1, <2>1, PaymentWriters
<1>. QED  BY <1>1, InvariantHolds, SettlementsAreFirst, PTL DEF Spec, RefundedIsFinal

\* Under the same condition every cancellation is of a payment recorded as
\* refunded, and every refund issued is on record, about to be
\* recorded, or of a booking that was deleted, unless an instance has died.
THEOREM RefundsAreTraced == Spec /\ []DeliveriesApart => []RefundsTraced
<1>1. Init => RefundsTraced
  BY DEF Init, RefundsTraced
<1>. QED  BY <1>1, RefundsTracedKept, InvariantHolds, SettlementsAreFirst, PTL DEF Spec

\* So no refund of a booking that is still there is missing in the books once
\* the handlers are done.
THEOREM NoRefundIsMissing == Spec /\ []DeliveriesApart => []RefundsAreOnRecord
<1>1. RefundsTraced => RefundsAreOnRecord
  BY DEF RefundsTraced, RefundsAreOnRecord, OnRecord, Recording, At, Idle
<1>. QED  BY <1>1, RefundsAreTraced, PTL
=============================================================================
