----------------------------- MODULE MCListings -----------------------------
(* A small instance of Listings for TLC. *)
EXTENDS Listings, TLC

CONSTANTS h1, h2, area, picture, p1, p2

Symmetry == Permutations(Handlers) \cup Permutations(Parts) \cup Permutations(Payments)
=============================================================================
