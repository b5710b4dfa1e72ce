SPECIFICATION Spec
CONSTANTS
    None = None
    t1 = t1  t2 = t2
    Types = {t1, t2}
    PriceMax = 2
    GuestCounts = {2}
    VenueForms <- MealForms
    ServiceForms <- MenuForms
    Rentals <- SomeRentals
INVARIANTS TypeOK PricesArePayable EstimateIsALowerBound
