----------------------------- MODULE MCAccounts -----------------------------
(* A small instance of Accounts for TLC. *)
EXTENDS Accounts, TLC

CONSTANTS h1, h2, pw1, pw2

OneEach  == [k \in Kinds |-> 1]
TwoEach  == [k \in Kinds |-> 2]
Symmetry == Permutations(Handlers) \cup Permutations(Passwords)
=============================================================================
