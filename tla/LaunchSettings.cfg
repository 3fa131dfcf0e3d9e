SPECIFICATION Spec
CONSTANTS
    p1 = p1
    p2 = p2
    Procs = {p1}
    Starts <- OnePlain
    Policies <- PolicySet
    Outcomes <- OutcomeSet
    MaxMs = 2
    MaxCrashes = 1
INVARIANT
    PrecedenceHolds
CHECK_DEADLOCK FALSE
