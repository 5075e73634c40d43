SPECIFICATION Spec
CONSTANTS
    n1 = n1
    n2 = n2
    n3 = n3
    Nodes = {n1, n2, n3}
    None = None
    First = n1
    RateLow = 2
    RateHigh = 3
    promise_ns = 3
    margin_ns = 0
    MaxTerm = 2
    MaxRounds = 1
    MaxWrites = 2
    MaxFaults = 1
SYMMETRY Voters
INVARIANTS TypeOK LeaseExclusive LeaseReadCurrent
CHECK_DEADLOCK FALSE
