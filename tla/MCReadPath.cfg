CONSTANTS
    r1 = r1
    r2 = r2
    Reads <- MCReads
    MaxRequests = 2
    TurnRequests = 2
    MaxIndex = 2
SPECIFICATION Spec
SYMMETRY ReadSymmetry
CHECK_DEADLOCK FALSE
INVARIANTS TypeOK ReadSeesPriorWrites SlotAccounting NoStrandedCaller
