\* Global: two task slots, a burst of two; a tick earns from nothing to two
\* permits, mostly less than one.  Per host: three tasks over two hosts, preempted
\* for up to half a second; a poll may earn half a token; rewound time is tolerated.
SPECIFICATION LimitersSpec
CONSTANTS
    t1 = t1
    t2 = t2
    t3 = t3
    h1 = h1
    h2 = h2
    Task = {t1, t2}
    Unit = 3
    rps = 2
    capacity = 2
    MaxGap = 3
    HostTask = {t1, t2, t3}
    Host = {h1, h2}
    NoTask = NoTask
    HostUnit = 2
    hostRps = 1
    hostCapacity = 1
    MaxStall = 1
    Tolerated = TRUE
INVARIANTS
    BurstBound
    AdmissionBudget
    HostWithinLimits
PROPERTIES
    QueueServed
    HostWaitersAdmitted
CHECK_DEADLOCK FALSE
