SPECIFICATION FairSpec
CONSTANTS
    AsyncWaiters = {a1, a2}
    SyncWaiters = {}
    ConfWaiters = {}
    MaxProposals = 2
    MaxIndex = 3
    MaxTerm = 1
    MaxEpoch = 0
    MaxGroup = 2
    RingSize = 1
    ReceiptSize = 1
    MaxRequests = 1
    MaxCrashes = 0
INVARIANT SlotsExact
INVARIANT NoStrandedWaiter
PROPERTY CommittedWaitSettles
CHECK_DEADLOCK FALSE
