SPECIFICATION Spec
CONSTANTS
    n1 = n1
    n2 = n2
    n3 = n3
    Nodes = {n1, n2}
    SplitOps = {}
    MergeOps = {1}
    Cuts = {2}
    MaxKey = 2
    PageSize = 1
    Shown <- TextKeys
    Stored = {1}
    Laggards = {}
    Abortable = TRUE
    MaxIntents = 1
    MaxWrites = 2
    MaxElections = 0
    MaxCrashes = 1
CHECK_DEADLOCK FALSE
SYMMETRY Interchangeable
INVARIANT EvidenceExact
INVARIANT AbortedNeverServes
