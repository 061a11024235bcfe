CONSTANTS
    h1 = h1
    h2 = h2
    h3 = h3
    Handlers = {h1, h2, h3}
    Limits <- MCLimits
    MaxRate = 2
    Res = 2
    MaxClock = 5
SPECIFICATION Spec
INVARIANTS
    WithinBurst
    DialRateBound
CHECK_DEADLOCK FALSE
