------------------------------- MODULE Prices -------------------------------
(***************************************************************************)
(* From the price list of a venue or service to what a customer may pay:   *)
(* the forms a provider saves, what the customer orders, the bounds the    *)
(* catalogue gives for the order, the provider's exact quote and the       *)
(* amount of the checkout.                                                 *)
(*                                                                         *)
(* A price that is not filled in is None. `a ?? b` is Or(a, b). Rounds of  *)
(* quotes and the races around them are in Negotiation; here one quote is  *)
(* made and accepted while the provider may edit the prices at any time.   *)
(***************************************************************************)
EXTENDS Integers

CONSTANTS
    PriceMax,      \* largest price a form, a quote or an Int column takes
    GuestCounts,   \* numbers of guests
    Types,         \* event types
    VenueForms,    \* the venue forms an owner sends
    ServiceForms,  \* the service forms a supplier sends
    Rentals,       \* hall rentals (no form sets them, seeded venues have one)
    None           \* null

Prices == 0..PriceMax
Bounds == [min : Prices \cup {None}, max : Prices \cup {None}]
Unset  == [min |-> None, max |-> None]

\* validatePriceMinMax
Valid(b) == b.min # None /\ b.max # None => b.min =< b.max

\* A profile as sent by the form or stored: is there food, and its price per
\* guest. extra is the price of the one service that costs extra.
Profiles  == [food : BOOLEAN, price : Bounds]
Extras    == {b \in Bounds : b.min # None /\ b.max # None}

ASSUME PricesAssumption ==
    /\ PriceMax \in Nat \ {0}
    /\ None \notin Int
    /\ GuestCounts \subseteq Nat \ {0}
    /\ VenueForms \subseteq [profiles : [Types -> Profiles], price : Bounds, extra : Extras \cup {Unset}]
    /\ ServiceForms \subseteq [price : Bounds, menu : SUBSET Prices]
    /\ Rentals \subseteq {b \in Extras \cup {Unset} : Valid(b)}

VARIABLES
    kind,      \* what is ordered: "venue" or "service"
    profiles,  \* eventTypeProfilesJson of the venue
    price,     \* minPrice and maxPrice of the venue or service
    rental,    \* hallRentalMin and hallRentalMax of the venue
    extra,     \* the venue's service that costs extra, Unset when it has none
    order,     \* the inquiry or request, None before it is made
    offer      \* the provider's quote and whether it was accepted

rows == <<profiles, price, rental, extra>>
vars == <<kind, rows, order, offer>>

Orders  == [type : Types \cup {None}, guests : GuestCounts \cup {None}, extra : Extras \cup {Unset}]
Offers  == [status : {"NONE", "PENDING", "ACCEPTED"}, amount : Prices]
NoOffer == [status |-> "NONE", amount |-> 0]
NoFood  == [food |-> FALSE, price |-> Unset]

\* Rows and orders hold valid prices only.
TypeOK ==
    /\ kind \in {"venue", "service"}
    /\ profiles \in [Types -> Profiles] /\ \A t \in Types : Valid(profiles[t].price)
    /\ price \in Bounds /\ Valid(price)
    /\ rental \in Rentals
    /\ extra \in Extras \cup {Unset} /\ Valid(extra)
    /\ order \in Orders \cup {None} /\ (order # None => Valid(order.extra))
    /\ offer \in Offers

Init ==
    /\ kind \in {"venue", "service"}
    /\ profiles = [t \in Types |-> NoFood]
    /\ price = Unset
    /\ rental \in Rentals
    /\ extra = Unset
    /\ order = None
    /\ offer = NoOffer

Or(a, b) == IF a # None THEN a ELSE b

----------------------------------------------------------------------------
(* The price list is saved *)

\* Math.min and Math.max of the prices that are filled in, otherwise other.
Lowest(S, other, p)  == IF S = {} THEN p = other ELSE p \in S /\ \A q \in S : p =< q
Highest(S, other, p) == IF S = {} THEN p = other ELSE p \in S /\ \A q \in S : p >= q

\* parseEventTypeProfilesJson: prices of an event without food are dropped.
Stored(form) == [t \in Types |-> IF form.profiles[t].food THEN form.profiles[t] ELSE NoFood]

Filled(ps, field) == {ps[t].price[field] : t \in Types} \ {None}

\* Mutant: the row is not validated once its prices are derived.
SaveVenue_FormOnly(form) ==
    /\ kind = "venue"
    /\ \A t \in Types : Valid(Stored(form)[t].price)
    /\ Valid(form.price) /\ Valid(form.extra)
    /\ profiles' = Stored(form)
    /\ price' \in Bounds
    /\ Lowest(Filled(profiles', "min"), form.price.min, price'.min)
    /\ Highest(Filled(profiles', "max"), form.price.max, price'.max)
    /\ extra' = form.extra
    /\ UNCHANGED <<kind, rental, order, offer>>

\* POST and PUT of a venue: its price is the span of the profiles' prices, and
\* is validated whether derived from them or sent.
SaveVenue(form) ==
    /\ kind = "venue"
    /\ \A t \in Types : Valid(Stored(form)[t].price)
    /\ Valid(form.extra)
    /\ profiles' = Stored(form)
    /\ price' \in Bounds
    /\ Lowest(Filled(profiles', "min"), form.price.min, price'.min)
    /\ Highest(Filled(profiles', "max"), form.price.max, price'.max)
    /\ Valid(price')
    /\ extra' = form.extra
    /\ UNCHANGED <<kind, rental, order, offer>>

\* Mutant: the highest price of the menu is taken for both bounds of the row.
SaveService_Swapped(form) ==
    /\ kind = "service"
    /\ Valid(form.price)
    /\ price' \in Bounds
    /\ Highest(form.menu, form.price.min, price'.min)
    /\ Lowest(form.menu, form.price.max, price'.max)
    /\ UNCHANGED <<kind, profiles, rental, extra, order, offer>>

\* POST and PUT of a service: what is sent is validated, what its menu says
\* replaces it.
SaveService(form) ==
    /\ kind = "service"
    /\ Valid(form.price)
    /\ price' \in Bounds
    /\ Lowest(form.menu, form.price.min, price'.min)
    /\ Highest(form.menu, form.price.max, price'.max)
    /\ UNCHANGED <<kind, profiles, rental, extra, order, offer>>

----------------------------------------------------------------------------
(* What the catalogue says of the order *)

\* getCatalogPricingMode
Mode(b) ==
    IF b = Unset THEN "unset"
    ELSE IF Or(b.min, b.max) = Or(b.max, b.min) THEN "fixed" ELSE "range"

\* Mutant: one line that is fixed makes the order fixed.
mergeCatalogPricingModes_FixedWins(modes) ==
    IF modes \subseteq {"unset"} THEN "unset" ELSE IF "fixed" \in modes THEN "fixed" ELSE "range"

\* Of the lines that have a price one range makes a range.
mergeCatalogPricingModes(modes) ==
    IF modes \subseteq {"unset"} THEN "unset" ELSE IF "range" \in modes THEN "range" ELSE "fixed"

\* What a line adds to the totals (addBounds)
Least(b) == IF b = Unset THEN 0 ELSE Or(b.min, b.max)
Most(b)  == IF b = Unset THEN 0 ELSE Or(b.max, b.min)

Times(b, n) == [min |-> Least(b) * n, max |-> Most(b) * n]

\* The lines of resolveVenueThreadCatalogPricing: the hall, the meals and what
\* was ordered as an extra.
HallLine ==
    LET min == Or(rental.min, price.min)
    IN  [min |-> min, max |-> Or(Or(rental.max, price.max), min)]

\* Mutant: the meals are those of one guest.
MealLine_OneGuest ==
    IF order.type = None \/ order.guests = None THEN Unset
    ELSE LET p == profiles[order.type]
         IN  IF ~p.food \/ p.price = Unset THEN Unset ELSE Times(p.price, 1)

MealLine ==
    IF order.type = None \/ order.guests = None THEN Unset
    ELSE LET p == profiles[order.type]
         IN  IF ~p.food \/ p.price = Unset THEN Unset ELSE Times(p.price, order.guests)

ExtraLine == order.extra

NoCatalog == [mode |-> "unset", min |-> None, max |-> None]

VenueCatalog ==
    LET mode == mergeCatalogPricingModes({Mode(HallLine), Mode(MealLine), Mode(ExtraLine)})
    IN  IF mode = "unset" THEN NoCatalog
        ELSE [mode |-> mode,
              min  |-> Least(HallLine) + Least(MealLine) + Least(ExtraLine),
              max  |-> Most(HallLine) + Most(MealLine) + Most(ExtraLine)]

\* resolveServiceCatalogPricing
ServiceCatalog ==
    IF Mode(price) = "unset" THEN NoCatalog
    ELSE [mode |-> Mode(price), min |-> Least(price), max |-> Most(price)]

Catalog == IF kind = "venue" THEN VenueCatalog ELSE ServiceCatalog

----------------------------------------------------------------------------
(* Order, quote, acceptance, payment *)

\* The server looks up the price of the extra itself.
Order(type, guests, withExtra) ==
    /\ order = None
    /\ kind = "venue" <=> guests # None
    /\ withExtra => kind = "venue"
    /\ order' = [type |-> type, guests |-> guests, extra |-> IF withExtra THEN extra ELSE Unset]
    /\ UNCHANGED <<kind, rows, offer>>

\* isExactQuoteWithinCatalog
Within(a, c) == (c.min # None => a >= c.min) /\ (c.max # None => a =< c.max)

CanQuote(a) == a \in Prices /\ Catalog.mode # "fixed" /\ Within(a, Catalog)

Quote(a) ==
    /\ order # None /\ offer = NoOffer
    /\ CanQuote(a)
    /\ offer' = [status |-> "PENDING", amount |-> a]
    /\ UNCHANGED <<kind, rows, order>>

Accept ==
    /\ offer.status = "PENDING"
    /\ offer' = [offer EXCEPT !.status = "ACCEPTED"]
    /\ UNCHANGED <<kind, rows, order>>

\* The amount of the checkout: the accepted quote, otherwise a fixed price of
\* the catalogue, otherwise none. A service's must be more than 0.
Payable ==
    IF offer.status = "ACCEPTED" /\ offer.amount > 0 THEN offer.amount
    ELSE IF Catalog.mode = "fixed" /\ (kind = "service" => Catalog.min > 0) THEN Catalog.min
    ELSE None

\* The estimate shown with the order form: meals, and extras at their lowest
\* price.
MealPrice == IF order.type = None \/ ~profiles[order.type].food THEN Unset ELSE profiles[order.type].price

Estimate ==
    LET eats  == order.guests # None /\ MealPrice # Unset
        meals(p) == IF eats THEN p * order.guests ELSE 0
    IN  [shown |-> eats \/ order.extra # Unset,
         min   |-> meals(Or(MealPrice.min, MealPrice.max)) + Least(order.extra),
         max   |-> meals(Or(MealPrice.max, MealPrice.min)) + Least(order.extra)]

Next ==
    \/ \E form \in VenueForms : SaveVenue(form)
    \/ \E form \in ServiceForms : SaveService(form)
    \/ \E type \in Types \cup {None}, guests \in GuestCounts \cup {None}, withExtra \in BOOLEAN :
          Order(type, guests, withExtra)
    \/ \E a \in Prices : Quote(a)
    \/ Accept

Spec == Init /\ [][Next]_vars

----------------------------------------------------------------------------
(* Properties *)

\* An order never comes to a dead end: whatever the provider has saved, before
\* it or since, there is an amount to be paid, or one the provider may quote
\* that can be paid. The exceptions: a price of 0, and a sum beyond what a
\* quote may be.
OrderCanBePaid ==
    order # None /\ offer.status = "NONE" /\ Catalog.max # 0 /\ (Catalog.min # None => Catalog.min =< PriceMax) =>
        Payable # None \/ \E a \in Prices \ {0} : CanQuote(a)

\* The checkout charges what nobody quoted only when the catalogue leaves no
\* choice: all its lines for the order are exact.
OnlyExactIsCharged ==
    order # None /\ offer.status # "ACCEPTED" /\ Payable # None =>
        Catalog.min = Catalog.max /\ Payable = Catalog.max

\* Every price list leads to a payment, and to that of an exact price.
PricesArePayable == OrderCanBePaid /\ OnlyExactIsCharged

\* The estimate a customer sees is never above what the catalogue gives for
\* the order, though the two are computed apart.
EstimateIsALowerBound ==
    order # None /\ kind = "venue" /\ Estimate.shown =>
        Catalog.mode # "unset" /\ Estimate.min =< Catalog.min /\ Estimate.max =< Catalog.max
=============================================================================
