--------------------------- MODULE BookingEscrow ---------------------------
(***************************************************************************)
(* Booking implements Escrow.  The money of a payment is at the customer   *)
(* until the checkout session is paid, then at the provider (the session   *)
(* transfers it on payment) until Stripe refunds it; a session of 0 moves  *)
(* none.  A booking shows paid and refunded by its status.                 *)
(***************************************************************************)
EXTENDS Booking

MoneyOf(p) == CASE p \in refunded       -> "returned"
                [] p \notin refunded /\ session[p] = "paid" -> "provider"
                [] p \notin refunded /\ session[p] = "free" -> "none"
                [] OTHER                -> "customer"

ShownAs(s) == CASE s = "PAID"                  -> "paid"
                [] s = "CANCELLED_BY_PROVIDER" -> "refunded"
                [] OTHER                       -> "unpaid"

Promise == INSTANCE Escrow WITH
    money  <- [p \in Payments |-> MoneyOf(p)],
    record <- payment,
    for    <- payFor,
    shown  <- [t \in Targets |-> ShownAs(status[t])]

\* Every step of the handlers, of Stripe and of the parties is a step of the
\* escrow promise or leaves it alone.
EscrowSpec == Promise!EscrowSpec

\* No two deliveries of one event are both between their look at the payment
\* and their transaction.
DeliveriesApart ==
    \A hd, other \in Handlers :
        At(hd, "settle.transaction") /\ At(other, "settle.transaction")
            /\ call[hd].pay = call[other].pay => hd = other

\* The behaviours in which Stripe waits for the answer of a delivery before it
\* repeats it; everything else overlaps as before.
ApartNext ==
    \/ ActorStep
    \/ \E hd \in Handlers : Start(hd) /\ DeliveriesApart'
    \/ \E hd \in Handlers : Proceed(hd) \/ Crash(hd)

ApartSpec == Init /\ [][ApartNext]_vars

\* These keep the stronger promise too: what was returned and recorded is never
\* recorded as a charge again, however often the event is delivered later.
FinalEscrowSpec == Promise!FinalEscrowSpec
=============================================================================
