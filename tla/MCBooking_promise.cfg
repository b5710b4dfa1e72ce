SPECIFICATION FairSpec
CONSTANTS
    None = None
    i1 = i1  i2 = i2  r1 = r1  s1 = s1  p1 = p1  p2 = p2  h1 = h1  h2 = h2
    Inquiries = {i1}
    Requests = {}
    Payments = {p1}
    Handlers = {h1, h2}
    Slots = {s1}
    VenueOf <- OneVenue
    SlotOf <- OneSlot
    ParentOf <- NoRequests
    Priced = {i1}
    MayBeFree = {i1}
    Keyless = FALSE
    OwnerEdits = TRUE
    Deletions = TRUE
    MaxCrashes = 2
INVARIANTS AckedIsRecorded
PROPERTIES EscrowSpec PaidIsEventuallyRecorded
\* Once every venue and service is deleted nothing is left to do.
CHECK_DEADLOCK FALSE
