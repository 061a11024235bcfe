CONSTANTS
    d1 = d1
    d2 = d2
    NoDial = NoDial
    Dials = {d1, d2}
    MaxMoves = 1
SPECIFICATION Spec
INVARIANTS
    RefreshIsFresh
CHECK_DEADLOCK FALSE
