------------------------ MODULE BookingEscrowProofs ------------------------
(***************************************************************************)
(* Booking implements Escrow: every step, in a state of the inductive      *)
(* invariant, is a step of the promise or leaves it alone.                 *)
(***************************************************************************)
EXTENDS BookingProofs

\* The promise's variables, as Booking shows them
bar == <<[p \in Payments |-> MoneyOf(p)], payment, payFor, [t \in Targets |-> ShownAs(status[t])]>>

Kept == Promise!FinalEscrowNext \/ bar' = bar

----------------------------------------------------------------------------

\* Steps that move no money and show nobody as paid at most withdraw bookings.
LEMMA QuietIsWithdrawal ==
  ASSUME UNCHANGED_money, QuietStatus
  PROVE  Kept
<1>. DEFINE T == {t \in Targets : status'[t] # status[t]}
<1>1. T \in SUBSET Targets
  OBVIOUS
<1>2. \A t \in Targets : ShownAs(status'[t]) = IF t \in T THEN "unpaid" ELSE ShownAs(status[t])
  BY DEF QuietStatus, ShownAs
<1>3. [t \in Targets |-> ShownAs(status[t])]'
        = [t \in Targets |-> IF t \in T THEN "unpaid" ELSE [u \in Targets |-> ShownAs(status[u])][t]]
  BY <1>2
<1>. HIDE DEF T
<1>4. UNCHANGED <<[p \in Payments |-> MoneyOf(p)], payment, payFor>>
  BY DEF UNCHANGED_money, MoneyOf
<1>5. Promise!Withdraw(T)
  BY <1>3, <1>4 DEF Promise!Withdraw
<1>. QED  BY <1>1, <1>5 DEF Kept, Promise!FinalEscrowNext

LEMMA NothingMoved ==
  ASSUME UNCHANGED <<status, payment, payFor, session, refunded>>
  PROVE  Kept
BY DEF Kept, bar, MoneyOf

LEMMA DeletionIsErasure ==
  ASSUME NEW T \in SUBSET Targets, Delete(T)
  PROVE  Kept
<1>1. [t \in Targets |-> ShownAs(status[t])]'
        = [t \in Targets |-> IF t \in T THEN "unpaid" ELSE [u \in Targets |-> ShownAs(status[u])][t]]
  BY DEF Delete, ShownAs
<1>2. UNCHANGED <<[p \in Payments |-> MoneyOf(p)], payment>>
  BY DEF Delete, MoneyOf
<1>3. Promise!Erase(T)
  BY <1>1, <1>2 DEF Promise!Erase, Delete
<1>. QED  BY <1>3 DEF Kept, Promise!FinalEscrowNext

----------------------------------------------------------------------------
(* The steps that move money *)

LEMMA PayingIsCharge ==
  ASSUME IInv, NEW p \in Payments, CustomerPays(p)
  PROVE  Kept
<1>1. payment[p] = "PENDING" /\ p \notin refunded
  BY DEF CustomerPays, IInv, TypeOK, Rows, RecordsFollowMoney, PaymentStates, Completed
<1>2. UNCHANGED <<payment, payFor, [t \in Targets |-> ShownAs(status[t])]>>
  BY DEF CustomerPays, UNCHANGED_bookings
<1>3. MoneyOf(p) = "customer"
  BY <1>1 DEF CustomerPays, MoneyOf
<1>4. CASE session' = [session EXCEPT ![p] = "paid"]
  <2>1. /\ MoneyOf(p)' = "provider"
        /\ \A q \in Payments \ {p} : MoneyOf(q)' = MoneyOf(q)
    BY <1>1, <1>4 DEF CustomerPays, MoneyOf, IInv, TypeOK
  <2>2. [q \in Payments |-> MoneyOf(q)]'
          = [[q \in Payments |-> MoneyOf(q)] EXCEPT ![p] = "provider"]
    BY <2>1
  <2>3. Promise!Charge(p)
    BY <1>1, <1>2, <1>3, <2>2 DEF Promise!Charge
  <2>. QED  BY <2>3 DEF Kept, Promise!FinalEscrowNext
<1>5. CASE session' = [session EXCEPT ![p] = "free"]
  <2>1. /\ MoneyOf(p)' = "none"
        /\ \A q \in Payments \ {p} : MoneyOf(q)' = MoneyOf(q)
    BY <1>1, <1>5 DEF CustomerPays, MoneyOf, IInv, TypeOK
  <2>2. [q \in Payments |-> MoneyOf(q)]'
          = [[q \in Payments |-> MoneyOf(q)] EXCEPT ![p] = "none"]
    BY <2>1
  <2>3. Promise!Waive(p)
    BY <1>1, <1>2, <1>3, <2>2 DEF Promise!Waive
  <2>. QED  BY <2>3 DEF Kept, Promise!FinalEscrowNext
<1>. QED  BY <1>4, <1>5 DEF CustomerPays

LEMMA SessionsMoveNothing ==
  ASSUME IInv, NEW p \in Payments, SessionExpires(p)
  PROVE  Kept
<1>1. \A q \in Payments : MoneyOf(q)' = MoneyOf(q)
  BY DEF SessionExpires, MoneyOf, IInv, TypeOK
<1>. QED  BY <1>1 DEF SessionExpires, UNCHANGED_bookings, Kept, bar

LEMMA CheckoutOpens ==
  ASSUME IInv, NEW hd \in Handlers, CheckoutInsert(hd) \/ CheckoutSession(hd)
  PROVE  Kept
<1>1. CASE CheckoutInsert(hd)
  <2>. call[hd].tgt \in Targets
    BY <1>1 DEF CheckoutInsert, At, IInv, CallTargets, KnowsTarget
  <2>1. PICK p \in Payments : Promise!Open(p, call[hd].tgt)
    BY <1>1 DEF CheckoutInsert, UNCHANGED_bookings, Promise!Open, MoneyOf
  <2>. QED  BY <2>1 DEF Kept, Promise!FinalEscrowNext
<1>2. CASE CheckoutSession(hd)
  <2>1. session[call[hd].pay] = "none" /\ session \in [Payments -> SessionStates]
    BY <1>2 DEF CheckoutSession, At, IInv, CallPayments, KnowsPayment, TypeOK
  <2>2. \A q \in Payments : MoneyOf(q)' = MoneyOf(q)
    BY <1>2, <2>1 DEF CheckoutSession, MoneyOf
  <2>. QED  BY <1>2, <2>2 DEF CheckoutSession, UNCHANGED_bookings, Kept, bar
<1>. QED  BY <1>1, <1>2

LEMMA SettlingRecordsTheCharge ==
  ASSUME IInv, NEW hd \in Handlers, SettleTransaction(hd)
  PROVE  \E p \in Payments : /\ Promise!RecordCharge(p)
                             /\ SettlesPending => Promise!RecordChargeOnce(p)
<1>. DEFINE p == call[hd].pay
            t == call[hd].tgt
<1>1. /\ p \in Payments /\ t \in Targets /\ payFor[p] = t /\ Completed(p)
      /\ payment[p] # "ABSENT" /\ status \in [Targets -> Statuses]
  BY DEF SettleTransaction, At, RowThere, IInv, TypeOK, CallPayments, KnowsPayment, CallTargets,
         KnowsTarget
<1>2. MoneyOf(p) # "customer" /\ payFor[p] # None
  BY <1>1, BookingAssumption DEF Completed, MoneyOf
<1>3. [u \in Targets |-> ShownAs(status[u])]'
        = [[u \in Targets |-> ShownAs(status[u])] EXCEPT ![payFor[p]] = "paid"]
  BY <1>1 DEF SettleTransaction, ShownAs
<1>4. UNCHANGED <<payFor, [q \in Payments |-> MoneyOf(q)]>>
  BY DEF SettleTransaction, MoneyOf
<1>5. payment' = [payment EXCEPT ![p] = "COMPLETED"]
  BY DEF SettleTransaction
<1>6. SettlesPending => payment[p] = "PENDING"
  BY <1>1 DEF SettlesPending, SettleTransaction, At
<1>. HIDE DEF p, t
<1>7. Promise!RecordCharge(p)
  BY <1>1, <1>2, <1>3, <1>4, <1>5 DEF Promise!RecordCharge
<1>. QED  BY <1>1, <1>6, <1>7 DEF Promise!RecordChargeOnce

LEMMA StripeReturns ==
  ASSUME IInv, NEW hd \in Handlers, RefundStripe(hd)
  PROVE  Kept
<1>1. PICK p \in Payments : p = call[hd].pay /\ payment[p] \in Recorded
  BY DEF RefundStripe, At, IInv, CallPayments, KnowsPayment
<1>2. CASE refunded' = refunded
  BY <1>2, NothingMoved DEF RefundStripe, UNCHANGED_bookings
<1>3. CASE session[p] = "paid" /\ p \notin refunded /\ refunded' = refunded \cup {p}
  <2>1. payment[p] = "COMPLETED" \/ (payment[p] = "REFUNDED" /\ Keyless)
    BY <1>1, <1>3 DEF IInv, RecordsFollowMoney, HasMoneyBack, Recorded
  <2>2. UNCHANGED <<status, session, payment, payFor>>
    BY DEF RefundStripe, UNCHANGED_bookings
  <2>3. /\ MoneyOf(p) = "provider" /\ MoneyOf(p)' = "returned"
        /\ \A q \in Payments \ {p} : MoneyOf(q)' = MoneyOf(q)
    BY <1>3, <2>2 DEF MoneyOf
  <2>4. [q \in Payments |-> MoneyOf(q)]'
          = [[q \in Payments |-> MoneyOf(q)] EXCEPT ![p] = "returned"]
    BY <2>3
  <2>5. Promise!Return(p)
    BY <2>1, <2>2, <2>3, <2>4 DEF Promise!Return
  <2>. QED  BY <2>5 DEF Kept, Promise!FinalEscrowNext
<1>. QED  BY <1>1, <1>2, <1>3 DEF RefundStripe

LEMMA RefundRecordsTheReturn ==
  ASSUME IInv, NEW hd \in Handlers, RefundTransaction(hd)
  PROVE  Kept
<1>. DEFINE p == call[hd].pay
            t == call[hd].tgt
<1>1. /\ p \in Payments /\ t \in Targets /\ payFor[p] = t /\ HasMoneyBack(p)
      /\ payment[p] = "COMPLETED" /\ status \in [Targets -> Statuses]
  BY DEF RefundTransaction, At, RowThere, IInv, TypeOK, CallPayments, KnowsPayment, CallTargets,
         KnowsTarget, Rows, Recorded
<1>2. (MoneyOf(p) \in {"returned", "none"} \/ Keyless) /\ payFor[p] # None
  BY <1>1, BookingAssumption DEF MoneyOf, HasMoneyBack
<1>3. [u \in Targets |-> ShownAs(status[u])]'
        = [[u \in Targets |-> ShownAs(status[u])] EXCEPT ![payFor[p]] = "refunded"]
  BY <1>1 DEF RefundTransaction, ShownAs
<1>4. UNCHANGED <<payFor, [q \in Payments |-> MoneyOf(q)]>>
  BY DEF RefundTransaction, MoneyOf
<1>5. payment' = [payment EXCEPT ![p] = "REFUNDED"]
  BY DEF RefundTransaction
<1>. HIDE DEF p, t
<1>6. Promise!RecordReturn(p)
  BY <1>1, <1>2, <1>3, <1>4, <1>5 DEF Promise!RecordReturn
<1>. QED  BY <1>1, <1>6 DEF Kept, Promise!FinalEscrowNext

----------------------------------------------------------------------------

LEMMA EveryStepIsKept ==
  ASSUME IInv, [Next]_vars
  PROVE  Kept \/ \E hd \in Handlers : SettleTransaction(hd)
<1>. USE DEF UNCHANGED_bookings
<1>. TypeOK
  BY DEF IInv
<1>1. CASE UNCHANGED vars
  BY <1>1, NothingMoved DEF vars
<1>2. CASE ActorStep
  <2>1. ASSUME NEW r \in Requests, CreateRequest(r) \/ ProviderDecline(r)
        PROVE  Kept
    <3>1. QuietStatus /\ UNCHANGED_money
      BY <2>1 DEF CreateRequest, ProviderDecline, Exists, TypeOK, Targets, Statuses, Undecided, QuietStatus
    <3>. QED  BY <3>1, QuietIsWithdrawal
  <2>2. ASSUME NEW t \in Targets, NEW s \in Undecided, ProviderSetStatus(t, s)
        PROVE  Kept
    <3>1. QuietStatus /\ UNCHANGED_money
      BY <2>2 DEF ProviderSetStatus, Exists, TypeOK, Statuses, Undecided, QuietStatus
    <3>. QED  BY <3>1, QuietIsWithdrawal
  <2>3. ASSUME NEW s \in Slots, OwnerBooks(s) \/ OwnerFrees(s)
        PROVE  Kept
    BY <2>3, NothingMoved DEF OwnerBooks, OwnerFrees, UNCHANGED_money
  <2>4. ASSUME NEW p \in Payments, DeliverSettled(p)
        PROVE  Kept
    BY <2>4, NothingMoved DEF DeliverSettled
  <2>5. ASSUME NEW r \in Requests, DeleteService(r)
        PROVE  Kept
    <3>. {r} \in SUBSET Targets
      BY DEF Targets
    <3>. QED  BY <2>5, DeletionIsErasure DEF DeleteService
  <2>6. ASSUME NEW i \in Inquiries, DeleteVenue(VenueOf[SlotOf[i]])
        PROVE  Kept
    <3>. DEFINE T == {j \in Inquiries : VenueOf[SlotOf[j]] = VenueOf[SlotOf[i]]}
    <3>1. T \in SUBSET Targets
      BY DEF Targets
    <3>2. Delete(T)
      BY <2>6 DEF DeleteVenue
    <3>. HIDE DEF T
    <3>. QED  BY <3>1, <3>2, DeletionIsErasure
  <2>. QED  BY <1>2, <2>1, <2>2, <2>3, <2>4, <2>5, <2>6, PayingIsCharge, SessionsMoveNothing
            DEF ActorStep
<1>3. ASSUME NEW hd \in Handlers, Start(hd)
      PROVE  Kept
  <2>1. UNCHANGED_bookings /\ UNCHANGED_money
    BY <1>3 DEF Start, CreateInquiry, Approve, OwnerReject, OwnerCancelApproved, SeekerCancel, End,
                SyncRead, Checkout, CancelPaid, Deliver
  <2>. QED  BY <2>1, NothingMoved DEF UNCHANGED_money
<1>4. ASSUME NEW hd \in Handlers, Proceed(hd) \/ Crash(hd)
      PROVE  Kept \/ SettleTransaction(hd)
  <2>. KnowsTarget(call[hd])
    BY DEF IInv, CallTargets
  <2>1. CASE CreateInsert(hd) \/ ApproveUpdate(hd) \/ EndUpdate(hd) \/ EndFinalize(hd) \/ SyncUpdate(hd)
    <3>1. QuietStatus /\ UNCHANGED_money
      BY <2>1 DEF CreateInsert, ApproveUpdate, EndUpdate, EndFinalize, SyncUpdate, At, RowThere, Exists,
                  KnowsTarget, TypeOK, Statuses, Undecided, QuietStatus
    <3>. QED  BY <3>1, QuietIsWithdrawal
  <2>2. CASE ApproveFind(hd) \/ ApproveUpsert(hd) \/ Release(hd) \/ RowGone(hd) \/ Crash(hd)
           \/ RefundConflict(hd)
    BY <2>2, NothingMoved DEF ApproveFind, ApproveUpsert, Release, RowGone, Crash, RefundConflict,
                              UNCHANGED_money
  <2>3. CASE SettleFind(hd) \/ SettleUpsert(hd)
    BY <2>3, NothingMoved DEF SettleFind, SettleUpsert
  <2>. QED  BY <1>4, <2>1, <2>2, <2>3, CheckoutOpens, StripeReturns, RefundRecordsTheReturn
            DEF Proceed, SettleStep
<1>. QED  BY <1>1, <1>2, <1>3, <1>4 DEF Next

LEMMA BarStarts == Init => Promise!EscrowInit
<1>. SUFFICES ASSUME Init
              PROVE  Promise!EscrowInit
  OBVIOUS
<1>1. [p \in Payments |-> MoneyOf(p)] = [p \in Payments |-> "customer"]
  BY DEF Init, MoneyOf
<1>2. [t \in Targets |-> ShownAs(status[t])] = [t \in Targets |-> "unpaid"]
  BY DEF Init, ShownAs
<1>. QED  BY <1>1, <1>2 DEF Init, Promise!EscrowInit

\* The handlers, the webhook and the parties, in any interleaving and with any
\* crashes, implement the promise about the money: a booking is shown paid only
\* by recording a charge that took place, and refunded only by recording a
\* return that took place.
THEOREM BookingImplementsEscrow == Spec => EscrowSpec
<1>1. Promise!FinalEscrowNext => Promise!EscrowNext
  BY DEF Promise!FinalEscrowNext, Promise!EscrowNext, Promise!RecordChargeOnce
<1>2. IInv /\ [Next]_vars => [Promise!EscrowNext]_Promise!escrowVars
  <2>1. ASSUME IInv, NEW hd \in Handlers, SettleTransaction(hd)
        PROVE  Promise!EscrowNext
    BY <2>1, SettlingRecordsTheCharge DEF Promise!EscrowNext
  <2>. QED  BY <1>1, <2>1, EveryStepIsKept DEF Kept, bar, Promise!escrowVars
<1>. QED  BY <1>2, BarStarts, InvariantHolds, PTL DEF Spec, EscrowSpec, Promise!EscrowSpec

\* If no two deliveries of one webhook event overlap, the same handlers keep the
\* stronger promise: a charge is recorded once, and a payment that was returned
\* to the customer and recorded so is never recorded as a charge again, nor its
\* booking shown paid by it (settleBookingPayment's `already` check is enough).
THEOREM BookingImplementsFinalEscrow == Spec /\ []DeliveriesApart => FinalEscrowSpec
<1>1. IInv /\ SettlesPending /\ [Next]_vars => [Promise!FinalEscrowNext]_Promise!escrowVars
  <2>1. ASSUME IInv, SettlesPending, NEW hd \in Handlers, SettleTransaction(hd)
        PROVE  Promise!FinalEscrowNext
    BY <2>1, SettlingRecordsTheCharge DEF Promise!FinalEscrowNext
  <2>. QED  BY <2>1, EveryStepIsKept DEF Kept, bar, Promise!escrowVars
<1>. QED  BY <1>1, BarStarts, InvariantHolds, SettlementsAreFirst, PTL
          DEF Spec, FinalEscrowSpec, Promise!FinalEscrowSpec
=============================================================================
