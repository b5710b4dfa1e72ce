------------------------------- MODULE Escrow -------------------------------
(***************************************************************************)
(* What Halls Hub promises about the money of a booking, with no handlers, *)
(* no webhooks and no calendar.  A customer is charged once per payment,   *)
(* and the platform's record of that payment and the booking's display     *)
(* move together:                                                          *)
(*   - a booking is shown paid only by recording a charge that took place, *)
(*   - money is returned only for a charge on record,                      *)
(*   - a booking is shown refunded only by recording a return that took    *)
(*     place, or of a payment of nothing,                                  *)
(*   - anything else the parties do can only take the booking back among   *)
(*     those shown neither paid nor refunded,                              *)
(*   - a booking that is deleted leaves its payments where they are.       *)
(* EscrowSpec does not promise that a record is final: recording a charge  *)
(* again after its return is allowed, because the webhook may do so.       *)
(* FinalEscrowSpec does: a charge is recorded once, and what was returned  *)
(* stays returned.  A platform part of which runs without its key to the   *)
(* bank (Keyless) may record returns it has not made, or makes later.      *)
(***************************************************************************)
CONSTANTS Payments, Targets, None, Keyless

VARIABLES
    money,   \* where the money of a payment is
    record,  \* the platform's Payment row
    for,     \* the booking a payment is for
    shown    \* what a booking shows

escrowVars == <<money, record, for, shown>>

EscrowInit ==
    /\ money = [p \in Payments |-> "customer"]
    /\ record = [p \in Payments |-> "ABSENT"]
    /\ for = [p \in Payments |-> None]
    /\ shown = [t \in Targets |-> "unpaid"]

Open(p, t) ==
    /\ record[p] = "ABSENT"
    /\ record' = [record EXCEPT ![p] = "PENDING"]
    /\ for' = [for EXCEPT ![p] = t]
    /\ UNCHANGED <<money, shown>>

Charge(p) ==
    /\ record[p] = "PENDING" /\ money[p] = "customer"
    /\ money' = [money EXCEPT ![p] = "provider"]
    /\ UNCHANGED <<record, for, shown>>

\* Nothing is to be paid.
Waive(p) ==
    /\ record[p] = "PENDING" /\ money[p] = "customer"
    /\ money' = [money EXCEPT ![p] = "none"]
    /\ UNCHANGED <<record, for, shown>>

RecordCharge(p) ==
    /\ record[p] # "ABSENT" /\ money[p] # "customer" /\ for[p] # None
    /\ record' = [record EXCEPT ![p] = "COMPLETED"]
    /\ shown' = [shown EXCEPT ![for[p]] = "paid"]
    /\ UNCHANGED <<money, for>>

Return(p) ==
    /\ record[p] = "COMPLETED" \/ (record[p] = "REFUNDED" /\ Keyless)
    /\ money[p] = "provider"
    /\ money' = [money EXCEPT ![p] = "returned"]
    /\ UNCHANGED <<record, for, shown>>

RecordReturn(p) ==
    /\ record[p] = "COMPLETED" /\ for[p] # None
    /\ money[p] \in {"returned", "none"} \/ Keyless
    /\ record' = [record EXCEPT ![p] = "REFUNDED"]
    /\ shown' = [shown EXCEPT ![for[p]] = "refunded"]
    /\ UNCHANGED <<money, for>>

Withdraw(T) ==
    /\ shown' = [t \in Targets |-> IF t \in T THEN "unpaid" ELSE shown[t]]
    /\ UNCHANGED <<money, record, for>>

Erase(T) ==
    /\ shown' = [t \in Targets |-> IF t \in T THEN "unpaid" ELSE shown[t]]
    /\ for' = [p \in Payments |-> IF for[p] \in T THEN None ELSE for[p]]
    /\ UNCHANGED <<money, record>>

EscrowNext ==
    \/ \E p \in Payments, t \in Targets : Open(p, t)
    \/ \E p \in Payments : \/ Charge(p) \/ Waive(p) \/ RecordCharge(p)
                           \/ Return(p) \/ RecordReturn(p)
    \/ \E T \in SUBSET Targets : Withdraw(T) \/ Erase(T)

EscrowSpec == EscrowInit /\ [][EscrowNext]_escrowVars

\* The first record of a charge is the only one.
RecordChargeOnce(p) == record[p] = "PENDING" /\ RecordCharge(p)

FinalEscrowNext ==
    \/ \E p \in Payments, t \in Targets : Open(p, t)
    \/ \E p \in Payments : \/ Charge(p) \/ Waive(p) \/ RecordChargeOnce(p)
                           \/ Return(p) \/ RecordReturn(p)
    \/ \E T \in SUBSET Targets : Withdraw(T) \/ Erase(T)

FinalEscrowSpec == EscrowInit /\ [][FinalEscrowNext]_escrowVars
=============================================================================
