SPECIFICATION Spec
CONSTANTS
    AsyncWaiters = {a1}
    SyncWaiters = {s1}
    ConfWaiters = {c1}
    MaxProposals = 1
    MaxIndex = 3
    MaxTerm = 2
    MaxEpoch = 1
    MaxGroup = 2
    RingSize = 1
    ReceiptSize = 1
    MaxRequests = 1
    MaxCrashes = 1
INVARIANT TypeOK
INVARIANT AppliedExactlyOnce
INVARIANT ReceiptsTrue
INVARIANT WatermarkContiguous
CHECK_DEADLOCK FALSE
