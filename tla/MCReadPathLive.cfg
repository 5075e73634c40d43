CONSTANTS
    r1 = r1
    r2 = r2
    Reads <- MCReads
    MaxRequests = 1
    TurnRequests = 1
    MaxIndex = 1
SPECIFICATION FairSpec
CHECK_DEADLOCK FALSE
PROPERTIES SlotsReturn
