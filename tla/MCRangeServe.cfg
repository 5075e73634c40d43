SPECIFICATION LiveSpec
CONSTANTS
    n1 = n1
    n2 = n2
    n3 = n3
    Nodes = {n1, n2}
    SplitOps = {1}
    MergeOps = {}
    Cuts = {}
    MaxKey = 2
    PageSize = 1
    Shown <- TextKeys
    Stored = {1, 2}
    Laggards = {n1}
    Abortable = FALSE
    MaxIntents = 1
    MaxWrites = 2
    MaxElections = 0
    MaxCrashes = 0
CHECK_DEADLOCK FALSE
INVARIANT TypeOK
INVARIANT ReadsCurrent
INVARIANT KeyOwnedOnce
PROPERTY ReshapeCompletes
