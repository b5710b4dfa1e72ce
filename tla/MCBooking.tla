----------------------------- MODULE MCBooking -----------------------------
(* Small instances of Booking for TLC. *)
EXTENDS BookingInv, TLC

CONSTANTS i1, i2, r1, s1, p1, p2, h1, h2

\* All inquiries ask for the same venue on the same date.
OneVenue    == [s \in Slots |-> "v1"]
OneSlot     == [i \in Inquiries |-> s1]
ChildOfI1   == [r \in Requests |-> i1]
NoRequests  == [r \in {} |-> None]

\* Invocation slots and payments are interchangeable.
Symmetry == Permutations(Payments) \cup Permutations(Handlers)
=============================================================================
