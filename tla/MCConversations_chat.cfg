SPECIFICATION Spec
CONSTANTS
    None = None
    c1 = c1  c2 = c2
    s1 = s1  s2 = s2
    Convs = {c1, c2}
    Slots = {s1, s2}
    MaxMessages = 1
    MaxActions = 2
    MaxFailures = 1
INVARIANTS TypeOK ReadWasFound ShownIsSelected
PROPERTIES NewsIsShown BadgeSettles
