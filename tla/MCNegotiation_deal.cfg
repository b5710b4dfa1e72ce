SPECIFICATION WithoutHub
CONSTANTS
    None = None
    Venue = Venue
    s1 = s1  o1 = o1  o2 = o2  o3 = o3  h1 = h1  h2 = h2
    Services = {}
    Offers = {o1, o2, o3}
    Amounts = {1, 2}
    ListPrices = {2}
    MaxCharges = 2
    Handlers = {h1, h2}
    MaxCrashes = 0
SYMMETRY Symmetry
INVARIANTS TypeOK OneDeal QuotesWithinLimit ChargesAreAgreed
PROPERTIES OrderlyBargain
