------------------------------ MODULE MCPrices ------------------------------
(* A small instance of Prices for TLC. *)
EXTENDS Prices

CONSTANTS t1, t2

Inverted == [min |-> 1, max |-> 0]

\* Any valid price and an invalid one for the meal of one event, a highest
\* price or no food for the other, so that the row's price is derived, sent or
\* half of each.
MealForms ==
    [profiles : {[t \in Types |-> IF t = t1 THEN a ELSE b] :
                    a \in {[food |-> TRUE, price |-> p] : p \in {q \in Bounds : Valid(q)} \cup {Inverted}}
                          \cup {[food |-> FALSE, price |-> Inverted]},
                    b \in {NoFood, [food |-> TRUE, price |-> [min |-> None, max |-> 1]]}},
     price    : {Unset, Inverted, [min |-> 1, max |-> 2]},
     extra    : {Unset, [min |-> 1, max |-> 2]}]

MenuForms == [price : Bounds, menu : SUBSET Prices]

SomeRentals == {Unset, [min |-> 1, max |-> 1]}
=============================================================================
