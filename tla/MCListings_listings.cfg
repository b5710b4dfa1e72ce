SPECIFICATION Spec
CONSTANTS
    None = None
    h1 = h1  h2 = h2
    area = area  picture = picture
    p1 = p1  p2 = p2
    Parts = {area, picture}
    Payments = {p1, p2}
    Days = 2
    Handlers = {h1, h2}
    MaxTime = 2
    MaxChanges = 3
    MaxCrashes = 1
SYMMETRY Symmetry
INVARIANTS TypeOK PublishedIsComplete RecordTellsChanges BoostIsWhatWasBought
CHECK_DEADLOCK FALSE
