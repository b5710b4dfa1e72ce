SPECIFICATION ApartSpec
CONSTANTS
    None = None
    i1 = i1  i2 = i2  r1 = r1  s1 = s1  p1 = p1  p2 = p2  h1 = h1  h2 = h2
    Inquiries = {i1}
    Requests = {r1}
    Payments = {p1}
    Handlers = {h1, h2}
    Slots = {s1}
    VenueOf <- OneVenue
    SlotOf <- OneSlot
    ParentOf <- ChildOfI1
    Priced = {i1, r1}
    MayBeFree = {i1}
    Keyless = FALSE
    OwnerEdits = FALSE
    Deletions = TRUE
    MaxCrashes = 1
SYMMETRY Symmetry
PROPERTIES FinalEscrowSpec
INVARIANTS RefundsAreOnRecord
\* Once every venue and service is deleted nothing is left to do.
CHECK_DEADLOCK FALSE
