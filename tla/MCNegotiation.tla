---------------------------- MODULE MCNegotiation ----------------------------
(* Small instances of Negotiation for TLC. *)
EXTENDS Negotiation, TLC

CONSTANTS s1, o1, o2, o3, h1, h2

Symmetry == Permutations(Offers) \cup Permutations(Handlers)

\* The behaviours in which nobody opens the hub.  What its GET writes is only
\* ever a missing request or thread, and the run hub has it against every other
\* step; leaving it out here makes room for a third offer and a second charge.
WithoutHubNext == Outside \/ \E hd \in Handlers : Submit(hd) \/ Proceed(hd) \/ Crash(hd)
WithoutHub == Init /\ [][WithoutHubNext]_vars
=============================================================================
