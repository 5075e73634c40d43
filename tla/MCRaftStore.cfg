SPECIFICATION Spec
CONSTANTS
    Candidates = {1, 2}
    MaxVoted = 0
    MaxIndex = 2
    MaxTerm = 2
    ConfChanges <- MCConfChanges
    MaxBatch = 2
    MaxRecords = 6
    MaxFailures = 2
INVARIANT TypeOK
INVARIANT ReplayEqualsMemory
INVARIANT EveryTailLoads
INVARIANT PromisesSurvive
INVARIANT ConfigurationTrue
CHECK_DEADLOCK FALSE
