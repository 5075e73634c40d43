SPECIFICATION FairSpec
CONSTANTS
  n1 = n1
  n2 = n2
  Nodes <- MCNodes
  None = None
  MaxLog = 3
  MaxElections = 2
  MaxCrashes = 1
  Crashing <- MCCrashing
  MaxEpoch = 1
  PageRows = 1
CHECK_DEADLOCK FALSE
INVARIANT TypeOK
INVARIANT PositiveSettlementTrue
INVARIANT RetiredNeverInstalled
INVARIANT OneUnresolvedAttempt
INVARIANT CutsFollowPublications
PROPERTY JournalSettles
