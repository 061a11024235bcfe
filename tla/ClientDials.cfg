CONSTANTS
    d1 = d1
    d2 = d2
    NoDial = NoDial
    Dials = {d1, d2}
    MaxMoves = 1
SPECIFICATION FairSpec
INVARIANTS
    HandedOutStaysOpen
    FailureLeavesNothing
    NoRedundantLookup
    EndpointAgrees
PROPERTIES
    EndpointForward
    DialReturns
CHECK_DEADLOCK FALSE
