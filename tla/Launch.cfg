SPECIFICATION Spec
CONSTANTS
    p1 = p1
    p2 = p2
    Procs = {p1, p2}
    Starts <- EachAlone
    Policies <- PolicySet
    Outcomes <- OutcomeSet
    MaxMs = 2
    MaxCrashes = 1
INVARIANTS
    SettingsSound
    CompletedRunComplete
    ExitCodeMatchesRun
CHECK_DEADLOCK FALSE
