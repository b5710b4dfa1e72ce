---------------------------- MODULE PricesProofs ----------------------------
(* Proofs about Prices, for every price list, order and largest price. *)
EXTENDS Prices, TLAPS

----------------------------------------------------------------------------
(* One line of the catalogue *)

\* Bounds of any size: a line may be a multiple of a price.
Spans == [min : Nat \cup {None}, max : Nat \cup {None}]

\* A valid line adds an interval of prices, which is a point when it is fixed.
LEMMA LineIsAnInterval ==
  ASSUME NEW b \in Spans, Valid(b)
  PROVE  /\ Least(b) \in Nat /\ Most(b) \in Nat /\ Least(b) =< Most(b)
         /\ Mode(b) \in {"unset", "fixed", "range"}
         /\ Mode(b) = "range" \/ Least(b) = Most(b)
         /\ Mode(b) = "unset" <=> b = Unset
<1>1. None \notin Nat
  BY PricesAssumption
<1>2. CASE b.min = None /\ b.max = None
  <2>1. b = Unset
    BY <1>2 DEF Spans, Unset
  <2>. QED  BY <2>1 DEF Least, Most, Mode
<1>3. CASE b.min # None \/ b.max # None
  <2>1. b # Unset
    BY <1>3 DEF Unset
  <2>2. /\ Or(b.min, b.max) \in Nat /\ Or(b.max, b.min) \in Nat
        /\ Or(b.min, b.max) =< Or(b.max, b.min)
    BY <1>1, <1>3 DEF Spans, Or, Valid
  <2>. QED  BY <2>1, <2>2 DEF Least, Most, Mode
<1>. QED  BY <1>2, <1>3

LEMMA TimesKeepsOrder ==
  ASSUME NEW p \in Nat, NEW q \in Nat, NEW n \in Nat, p =< q
  PROVE  p * n \in Nat /\ q * n \in Nat /\ p * n =< q * n
OBVIOUS

LEMMA PricesAreSpans == Bounds \subseteq Spans
BY PricesAssumption DEF Bounds, Spans, Prices

----------------------------------------------------------------------------
(* Type correctness: rows and orders hold valid prices only *)

LEMMA InitTypeOK == Init => TypeOK
BY PricesAssumption DEF Init, TypeOK, NoFood, Unset, Profiles, Bounds, Extras, Valid, Offers, NoOffer, Prices

LEMMA VenueIsValid ==
  ASSUME TypeOK, NEW form \in VenueForms, SaveVenue(form)
  PROVE  TypeOK'
<1>1. /\ form.profiles \in [Types -> Profiles]
      /\ form.extra \in Extras \cup {Unset}
  BY PricesAssumption
<1>2. NoFood \in Profiles /\ Valid(NoFood.price)
  BY DEF NoFood, Profiles, Bounds, Unset, Valid
<1>3. Stored(form) \in [Types -> Profiles]
  BY <1>1, <1>2 DEF Stored
<1>. QED  BY <1>1, <1>3 DEF TypeOK, SaveVenue

LEMMA ServiceIsValid ==
  ASSUME TypeOK, NEW form \in ServiceForms, SaveService(form)
  PROVE  TypeOK'
<1>1. form.price \in Bounds /\ form.menu \subseteq Prices /\ Valid(form.price)
  BY PricesAssumption DEF SaveService
<1>2. Valid(price')
  <2>1. CASE form.menu = {}
    BY <1>1, <2>1 DEF SaveService, Lowest, Highest, Valid, Bounds
  <2>2. CASE form.menu # {}
    <3>1. price'.min \in form.menu /\ price'.max \in form.menu
      BY <2>2 DEF SaveService, Lowest, Highest
    <3>2. price'.min =< price'.max
      BY <2>2, <3>1 DEF SaveService, Lowest, Highest
    <3>. QED  BY <3>2 DEF Valid
  <2>. QED  BY <2>1, <2>2
<1>. QED  BY <1>2 DEF TypeOK, SaveService

LEMMA NextTypeOK == TypeOK /\ [Next]_vars => TypeOK'
<1>. SUFFICES ASSUME TypeOK, [Next]_vars PROVE TypeOK'
  OBVIOUS
<1>1. CASE UNCHANGED vars
  BY <1>1 DEF vars, rows, TypeOK
<1>2. CASE \E form \in VenueForms : SaveVenue(form)
  BY <1>2, VenueIsValid
<1>3. CASE \E form \in ServiceForms : SaveService(form)
  BY <1>3, ServiceIsValid
<1>4. ASSUME NEW type \in Types \cup {None}, NEW guests \in GuestCounts \cup {None},
             NEW withExtra \in BOOLEAN, Order(type, guests, withExtra)
      PROVE  TypeOK'
  <2>1. order'.extra \in Extras \cup {Unset} /\ Valid(order'.extra)
    BY <1>4 DEF Order, TypeOK, Valid, Unset
  <2>2. order' \in Orders
    BY <1>4, <2>1 DEF Order, Orders
  <2>. QED  BY <1>4, <2>1, <2>2 DEF Order, TypeOK, rows
<1>5. ASSUME NEW a \in Prices, Quote(a) PROVE TypeOK'
  BY <1>5 DEF Quote, TypeOK, Offers, rows
<1>6. CASE Accept
  BY <1>6 DEF Accept, TypeOK, Offers, rows
<1>. QED  BY <1>1, <1>2, <1>3, <1>4, <1>5, <1>6 DEF Next

\* No form, menu or order leaves an inverted price in a row.
THEOREM TypeCorrect == Spec => []TypeOK
BY InitTypeOK, NextTypeOK, PTL DEF Spec

----------------------------------------------------------------------------
(* The bounds of an order *)

\* The lines of a venue's order are valid.
LEMMA LinesAreValid ==
  ASSUME TypeOK, order # None, kind = "venue"
  PROVE  /\ HallLine \in Spans /\ Valid(HallLine)
         /\ MealLine \in Spans /\ Valid(MealLine)
         /\ ExtraLine \in Spans /\ Valid(ExtraLine)
<1>1. HallLine \in Spans /\ Valid(HallLine)
  <2>1. rental \in Extras \cup {Unset} /\ Valid(rental)
    BY PricesAssumption DEF TypeOK
  <2>2. CASE rental = Unset
    BY <2>2, PricesAreSpans DEF HallLine, Or, Unset, TypeOK, Spans, Valid
  <2>3. CASE rental \in Extras
    BY <2>1, <2>3, PricesAreSpans DEF HallLine, Or, Extras, Spans, Valid
  <2>. QED  BY <2>1, <2>2, <2>3
<1>2. MealLine \in Spans /\ Valid(MealLine)
  <2>0. Unset \in Spans /\ Valid(Unset)
    BY DEF Unset, Spans, Valid
  <2>1. CASE order.type = None \/ order.guests = None
    BY <2>0, <2>1 DEF MealLine
  <2>2. CASE order.type # None /\ order.guests # None
    <3>. DEFINE p == profiles[order.type].price
                n == order.guests
    <3>1. order.type \in Types /\ n \in Nat
      BY <2>2, PricesAssumption DEF TypeOK, Orders
    <3>2. p \in Spans /\ Valid(p)
      BY <3>1, PricesAreSpans DEF TypeOK, Profiles
    <3>3. Least(p) \in Nat /\ Most(p) \in Nat /\ Least(p) =< Most(p)
      BY <3>2, LineIsAnInterval
    <3>4. Times(p, n) \in Spans /\ Valid(Times(p, n))
      BY <3>1, <3>3, TimesKeepsOrder DEF Times, Spans, Valid
    <3>. QED  BY <2>0, <2>2, <3>4 DEF MealLine
  <2>. QED  BY <2>1, <2>2
<1>3. ExtraLine \in Spans /\ Valid(ExtraLine)
  BY PricesAreSpans DEF ExtraLine, TypeOK, Orders, Extras, Unset, Spans, Valid
<1>. QED  BY <1>1, <1>2, <1>3

\* The catalogue of an order is unset or an interval, and a point exactly when
\* it is fixed.
LEMMA CatalogIsAnInterval ==
  ASSUME TypeOK, order # None
  PROVE  \/ Catalog = NoCatalog
         \/ /\ Catalog.mode \in {"fixed", "range"}
            /\ Catalog.min \in Nat /\ Catalog.max \in Nat /\ Catalog.min =< Catalog.max
            /\ Catalog.mode = "fixed" => Catalog.min = Catalog.max
<1>1. CASE kind = "venue"
  <2>. DEFINE h == HallLine  m == MealLine  e == ExtraLine
  <2>1. /\ Least(h) \in Nat /\ Most(h) \in Nat /\ Least(h) =< Most(h)
        /\ Mode(h) = "range" \/ Least(h) = Most(h)
    BY <1>1, LinesAreValid, LineIsAnInterval
  <2>2. /\ Least(m) \in Nat /\ Most(m) \in Nat /\ Least(m) =< Most(m)
        /\ Mode(m) = "range" \/ Least(m) = Most(m)
    BY <1>1, LinesAreValid, LineIsAnInterval
  <2>3. /\ Least(e) \in Nat /\ Most(e) \in Nat /\ Least(e) =< Most(e)
        /\ Mode(e) = "range" \/ Least(e) = Most(e)
    BY <1>1, LinesAreValid, LineIsAnInterval
  <2>. HIDE DEF h, m, e
  <2>. DEFINE modes == {Mode(h), Mode(m), Mode(e)}
              mode  == mergeCatalogPricingModes(modes)
  <2>4. /\ mode \in {"unset", "fixed", "range"}
        /\ mode = "fixed" => Mode(h) # "range" /\ Mode(m) # "range" /\ Mode(e) # "range"
    BY DEF mergeCatalogPricingModes
  <2>5. Catalog = IF mode = "unset" THEN NoCatalog
                  ELSE [mode |-> mode, min |-> Least(h) + Least(m) + Least(e),
                        max |-> Most(h) + Most(m) + Most(e)]
    BY <1>1 DEF Catalog, VenueCatalog, h, m, e
  <2>. HIDE DEF mode
  <2>. QED  BY <2>1, <2>2, <2>3, <2>4, <2>5
<1>2. CASE kind = "service"
  <2>1. price \in Spans /\ Valid(price)
    BY PricesAreSpans DEF TypeOK
  <2>2. /\ Least(price) \in Nat /\ Most(price) \in Nat /\ Least(price) =< Most(price)
        /\ Mode(price) \in {"unset", "fixed", "range"}
        /\ Mode(price) = "range" \/ Least(price) = Most(price)
    BY <2>1, LineIsAnInterval
  <2>. QED  BY <1>2, <2>2 DEF Catalog, ServiceCatalog
<1>. QED  BY <1>1, <1>2 DEF TypeOK

----------------------------------------------------------------------------
(* The properties *)

\* Whatever the provider has saved, an order can be paid, or be quoted an
\* amount that can; and nothing but an exact catalogue price is charged
\* unquoted (bookingAmount.ts).
THEOREM PriceListsArePayable == Spec => []PricesArePayable
<1>1. ASSUME TypeOK, order # None, offer.status = "NONE", Catalog.max # 0,
             Catalog.min # None => Catalog.min =< PriceMax
      PROVE  Payable # None \/ \E a \in Prices \ {0} : CanQuote(a)
  <2>0. 1 \in Prices \ {0} /\ None \notin Int
    BY PricesAssumption DEF Prices
  <2>1. CASE Catalog = NoCatalog
    <3>1. CanQuote(1)
      BY <2>0, <2>1 DEF CanQuote, NoCatalog, Within
    <3>. QED  BY <2>0, <3>1
  <2>2. CASE Catalog.mode = "fixed" /\ Catalog # NoCatalog
    <3>1. Catalog.min \in Nat /\ Catalog.min > 0
      BY <1>1, <2>2, CatalogIsAnInterval
    <3>. QED  BY <1>1, <2>0, <2>2, <3>1 DEF Payable
  <2>3. CASE Catalog.mode # "fixed" /\ Catalog # NoCatalog
    <3>1. Catalog.min \in Nat /\ Catalog.max \in Nat /\ Catalog.min =< Catalog.max
      BY <1>1, <2>3, CatalogIsAnInterval
    <3>. DEFINE a == IF Catalog.min = 0 THEN 1 ELSE Catalog.min
    <3>2. a \in Prices \ {0} /\ a >= Catalog.min /\ a =< Catalog.max
      BY <1>1, <2>0, <3>1, PricesAssumption DEF Prices
    <3>3. CanQuote(a)
      BY <2>3, <3>2 DEF CanQuote, Within
    <3>. QED  BY <3>2, <3>3
  <2>. QED  BY <2>1, <2>2, <2>3
<1>2. ASSUME TypeOK, order # None, offer.status # "ACCEPTED", Payable # None
      PROVE  Catalog.min = Catalog.max /\ Payable = Catalog.max
  BY <1>2, CatalogIsAnInterval DEF Payable, NoCatalog
<1>3. TypeOK => PricesArePayable
  BY <1>1, <1>2 DEF PricesArePayable, OrderCanBePaid, OnlyExactIsCharged
<1>. QED  BY <1>3, TypeCorrect, PTL

\* The estimate of the order form never exceeds the bounds of the catalogue
\* (inquiryCostEstimate.ts against catalogPricingMode.ts).
THEOREM EstimateIsLow == Spec => []EstimateIsALowerBound
<1>1. ASSUME TypeOK, order # None, kind = "venue", Estimate.shown
      PROVE  Catalog.mode # "unset" /\ Estimate.min =< Catalog.min /\ Estimate.max =< Catalog.max
  <2>. DEFINE h == HallLine  m == MealLine  e == ExtraLine
  <2>1. /\ Least(h) \in Nat /\ Most(h) \in Nat
        /\ Least(m) \in Nat /\ Most(m) \in Nat
        /\ Least(e) \in Nat /\ Most(e) \in Nat /\ Least(e) =< Most(e)
    BY <1>1, LinesAreValid, LineIsAnInterval
  <2>2. /\ Estimate.min = Least(m) + Least(e) /\ Estimate.max = Most(m) + Least(e)
        /\ m # Unset \/ e # Unset
    <3>. DEFINE p == MealPrice
                n == order.guests
    <3>. Least(Unset) = 0 /\ Most(Unset) = 0
      BY DEF Least, Most
    <3>1. CASE n # None /\ p # Unset
      <4>1. order.type # None /\ profiles[order.type].food /\ p = profiles[order.type].price
        BY <3>1 DEF MealPrice
      <4>2. p \in Spans /\ Valid(p) /\ n \in Nat
        BY <1>1, <3>1, <4>1, PricesAreSpans, PricesAssumption DEF TypeOK, Profiles, Orders
      <4>3. m = Times(p, n)
        BY <3>1, <4>1 DEF MealLine
      <4>4. /\ Least(p) * n \in Nat /\ Most(p) * n \in Nat
            /\ Or(p.min, p.max) = Least(p) /\ Or(p.max, p.min) = Most(p)
        BY <3>1, <4>2, LineIsAnInterval, TimesKeepsOrder DEF Least, Most
      <4>5. m # Unset /\ Least(m) = Least(p) * n /\ Most(m) = Most(p) * n
        BY <4>3, <4>4, PricesAssumption DEF Times, Unset, Least, Most, Or
      <4>6. Estimate.min = Least(p) * n + Least(e) /\ Estimate.max = Most(p) * n + Least(e)
        BY <3>1, <4>4 DEF Estimate, ExtraLine
      <4>. QED  BY <4>5, <4>6
    <3>2. CASE n = None \/ p = Unset
      <4>1. m = Unset
        BY <3>2 DEF MealLine, MealPrice
      <4>2. e # Unset
        BY <1>1, <3>2 DEF Estimate, ExtraLine
      <4>3. Estimate.min = 0 + Least(e) /\ Estimate.max = 0 + Least(e)
        BY <3>2 DEF Estimate, ExtraLine
      <4>. QED  BY <2>1, <4>1, <4>2, <4>3
    <3>. QED  BY <3>1, <3>2
  <2>3. Mode(m) # "unset" \/ Mode(e) # "unset"
    BY <1>1, <2>2, LinesAreValid, LineIsAnInterval
  <2>4. mergeCatalogPricingModes({Mode(h), Mode(m), Mode(e)}) # "unset"
    BY <2>3 DEF mergeCatalogPricingModes
  <2>5. /\ Catalog.mode # "unset"
        /\ Catalog.min = Least(h) + Least(m) + Least(e)
        /\ Catalog.max = Most(h) + Most(m) + Most(e)
    BY <1>1, <2>4 DEF Catalog, VenueCatalog
  <2>. HIDE DEF h, m, e
  <2>. QED  BY <2>1, <2>2, <2>5
<1>2. TypeOK => EstimateIsALowerBound
  BY <1>1 DEF EstimateIsALowerBound
<1>. QED  BY <1>2, TypeCorrect, PTL
=============================================================================
