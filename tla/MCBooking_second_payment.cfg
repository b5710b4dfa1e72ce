SPECIFICATION Spec
CONSTANTS
    None = None
    i1 = i1  i2 = i2  r1 = r1  s1 = s1  p1 = p1  p2 = p2  h1 = h1  h2 = h2
    Inquiries = {i1}
    Requests = {}
    Payments = {p1, p2}
    Handlers = {h1}
    Slots = {s1}
    VenueOf <- OneVenue
    SlotOf <- OneSlot
    ParentOf <- NoRequests
    Priced = {i1}
    MayBeFree = {}
    Keyless = FALSE
    OwnerEdits = FALSE
    Deletions = FALSE
    MaxCrashes = 0
INVARIANTS NoSecondPayment
