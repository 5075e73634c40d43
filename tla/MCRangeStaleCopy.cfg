SPECIFICATION Spec
CONSTANTS
    n1 = n1
    n2 = n2
    n3 = n3
    Nodes = {n1, n2, n3}
    SplitOps = {1}
    MergeOps = {}
    Cuts = {}
    MaxKey = 2
    PageSize = 1
    Shown <- TextKeys
    Stored = {1}
    Laggards = {}
    Abortable = FALSE
    MaxIntents = 1
    MaxWrites = 2
    MaxElections = 1
    MaxCrashes = 0
INVARIANT ReadsCurrent
CHECK_DEADLOCK FALSE
SYMMETRY Interchangeable
