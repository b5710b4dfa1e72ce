SPECIFICATION Spec
CONSTANTS
    None = None
    h1 = h1  h2 = h2
    pw1 = pw1  pw2 = pw2
    Passwords = {pw1, pw2}
    Limit <- OneEach
    MaxIssued <- TwoEach
    MaxExpired <- OneEach
    MaxRows = 2
    MaxAttempts = 1
    Handlers = {h1, h2}
    MaxCrashes = 1
SYMMETRY Symmetry
INVARIANTS TypeOK SingleUse ClaimTakesEffect NewestStayActive WelcomedOnce
PROPERTIES OldLinksAreDead
CHECK_DEADLOCK FALSE
