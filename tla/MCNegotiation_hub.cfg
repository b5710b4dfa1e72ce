SPECIFICATION Spec
CONSTANTS
    None = None
    Venue = Venue
    s1 = s1  o1 = o1  o2 = o2  o3 = o3  h1 = h1  h2 = h2
    Services = {s1}
    Offers = {o1}
    Amounts = {1}
    ListPrices = {}
    MaxCharges = 0
    Handlers = {h1, h2}
    MaxCrashes = 1
SYMMETRY Symmetry
INVARIANTS HubAddsOnce
PROPERTIES DealIsFinal
