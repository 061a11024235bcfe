CONSTANTS
    r1 = r1
    r2 = r2
    r3 = r3
    Runs = {r1, r2, r3}
    NoRun = NoRun
SPECIFICATION Spec
INVARIANTS
    ReportedPairSurvives
    FailureLeavesRoom
PROPERTIES
    OthersUntouched
CHECK_DEADLOCK FALSE
