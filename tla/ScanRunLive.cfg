SPECIFICATION FairSpec
CONSTANTS
    a = a
    b = b
    d = d
    e = e
    Url = {a, b}
    Domain = {d, e}
    DomainOf <- OneDomain
    Blank = Blank
    Invalid = Invalid
    NumLines = 2
    MaxConcurrency = 1
    MaxConsecutiveErrors = 1
    MaxReadErrors = 2
    MaxDbErrors = 0
    MaxPanics = 1
    AllowInterrupt = TRUE
PROPERTIES
    RunEnds
    ScanReturns
