\* Two tasks with any of three records, one retry, one failing satellite statement.
SPECIFICATION FairSpec
CONSTANTS
    t1 = t1
    t2 = t2
    d1 = d1
    d2 = d2
    c1 = c1
    c2 = c2
    e1 = e1
    e2 = e2
    Task = {t1, t2}
    Domain = {d1, d2}
    CoreTable = {c1, c2}
    EnrichTable = {e1, e2}
    Records <- ThreeRecords
    None = None
    MAX_RETRIES = 1
    MaxFaults = 1
INVARIANTS
    StoredFaithfully
    OutcomesTrue
PROPERTIES
    EnrichmentKept
    PersistEnds
CHECK_DEADLOCK FALSE
