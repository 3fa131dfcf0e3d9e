SPECIFICATION Spec
CONSTANTS
    a = a
    b = b
    d = d
    e = e
    Url = {a, b}
    Domain = {d, e}
    DomainOf <- TwoDomains
    Blank = Blank
    Invalid = Invalid
    NumLines = 2
    MaxConcurrency = 2
    MaxConsecutiveErrors = 1
    MaxReadErrors = 2
    MaxDbErrors = 1
    MaxPanics = 1
    AllowInterrupt = TRUE
INVARIANTS
    PermitAccounting
    CounterPartition
    RowAccounting
    InFlightRegistry
PROPERTIES
    FinalCountsAreFinal
