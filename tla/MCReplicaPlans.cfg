SPECIFICATION FairSpec
CONSTANTS
    Nodes = {1, 2, 3, 4}
    Initial = {1, 2, 3}
    Laggards = {2}
    MetaNode = 3
    Ops = {1}
    Scenarios <- MCScenarios
    MaxDisruptions = 1
    MaxTroubles = 2
INVARIANTS TypeOK 
  
CHECK_DEADLOCK FALSE
