----------------------------- MODULE BookingInv -----------------------------
(***************************************************************************)
(* The inductive invariant behind the safety properties of Booking.  The   *)
(* properties relate rows; a step can only be shown to keep them if we     *)
(* also know what an invocation between two of its steps still knows to be *)
(* true of the rows it read, and what it no longer knows.                  *)
(***************************************************************************)
EXTENDS BookingEscrow

Recorded == {"COMPLETED", "REFUNDED"}

\* An invocation works on the kind of target its route is for.
KnowsTarget(c) ==
    /\ c.pc \in {"create.insert", "approve.find", "approve.upsert", "approve.update",
                 "end.update", "end.finalize", "end.release",
                 "settle.find", "settle.upsert", "refund.release"} => c.tgt \in Inquiries
    /\ c.pc = "sync.update" => c.tgt \in Requests
    /\ c.pc \in {"checkout.insert", "checkout.session", "settle.transaction",
                 "refund.stripe", "refund.transaction"} => c.tgt \in Targets
    /\ c.pc = "end.update" => c.to \in {"REJECTED", "CANCELLED"}

\* Only Stripe can have let a cancellation of p get as far as its transaction.
ByStripe(p) == session[p] = "paid" /\ ~Keyless

\* What an invocation that holds a payment still knows about it
KnowsPayment(c) ==
    /\ c.pc \in {"checkout.session", "settle.transaction", "settle.find", "settle.upsert",
                 "refund.stripe", "refund.transaction", "refund.release"} => c.pay \in Payments
    /\ c.pay \in Payments =>
          /\ payment[c.pay] # "ABSENT"
          /\ \/ payFor[c.pay] = c.tgt
             \/ payFor[c.pay] = None /\ status[c.tgt] = "DELETED"
    /\ c.pc = "checkout.session" => session[c.pay] = "none"
    /\ c.pc = "settle.transaction" => Completed(c.pay)
    /\ c.pc \in {"settle.find", "settle.upsert", "refund.stripe", "refund.transaction"} =>
          payment[c.pay] \in Recorded
    /\ c.pc = "refund.transaction" =>
          HasMoneyBack(c.pay) /\ (ByStripe(c.pay) => c.pay \notin cancellations)

CallTargets  == \A hd \in Handlers : KnowsTarget(call[hd])
CallPayments == \A hd \in Handlers : KnowsPayment(call[hd])

\* No two invocations open a session of the same payment, or record a refund
\* that Stripe made.
CallsApart ==
    \A hd, other \in Handlers :
        /\ At(hd, "checkout.session") /\ At(other, "checkout.session")
              /\ call[hd].pay = call[other].pay => hd = other
        /\ At(hd, "refund.transaction") /\ At(other, "refund.transaction")
              /\ call[hd].pay = call[other].pay /\ ByStripe(call[hd].pay) => hd = other

\* What the rows and Stripe agree on
Rows ==
    \A p \in Payments :
        /\ payment[p] = "ABSENT" => session[p] = "none"
        /\ payFor[p] \in Targets => status[payFor[p]] # "DELETED"
        /\ payment[p] = "REFUNDED" => p \in cancellations
        /\ p \in cancellations => payment[p] \in Recorded /\ HasMoneyBack(p)
        /\ p \in acked => Completed(p)

IInv ==
    /\ TypeOK
    /\ CallTargets
    /\ CallPayments
    /\ CallsApart
    /\ Rows
    /\ PaidHasCompletedPayment
    /\ ProviderCancelWasRefunded
    /\ RecordsFollowMoney
    /\ AckedIsRecorded

\* The strengthening as a run checks it: what is added to the stated properties
CallsKnowTheRows == CallTargets /\ CallPayments /\ CallsApart /\ Rows

----------------------------------------------------------------------------
(* What overlap breaks.  A recorded refund is final as long as no two      *)
(* deliveries of its event overlap (DeliveriesApart), whatever else does.  *)

\* A delivery about to settle still finds its payment as it read it.
SettlesPending ==
    \A hd \in Handlers : At(hd, "settle.transaction") => payment[call[hd].pay] = "PENDING"

OnRecord(p)  == payment[p] = "REFUNDED" /\ p \in cancellations
Recording(p) == \E hd \in Handlers : At(hd, "refund.transaction") /\ call[hd].pay = p

\* A cancellation recorded is of a payment recorded as refunded, and a refund
\* issued is on record, or about to be, or its booking was deleted.
RefundsTraced ==
    /\ \A p \in cancellations : payment[p] = "REFUNDED"
    /\ crashes = 0 => \A p \in refunded : OnRecord(p) \/ payFor[p] = None \/ Recording(p)
=============================================================================
