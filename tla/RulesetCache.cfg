\* Two calls with any options in one or two processes; one failure or one stop.
SPECIFICATION FairSpec
CONSTANTS
    c1 = c1
    c2 = c2
    p1 = p1
    p2 = p2
    Callers = {c1, c2}
    Procs = {p1, p2}
    None = None
    Pending = Pending
    Failed = Failed
    Absent = Absent
    Torn = Torn
    Options <- SomeOptions
    DEFAULT_FINGERPRINTS_URLS <- DefaultUrls
    ExplicitSource = "own"
    Provides <- SmallProvides
    Kind <- SmallKind
    Overlay = {"o"}
    Vendored = {"a"}
    MIN_FULL_TECHNOLOGIES = 3
    FINGERPRINT_CACHE_TTL = 1
    MaxTime = 1
    MaxTroubles = 1
    Homes <- OneOrTwo
INVARIANTS
    CatalogSound
PROPERTIES
    LoadedOnce
    InitReturns
CHECK_DEADLOCK FALSE
