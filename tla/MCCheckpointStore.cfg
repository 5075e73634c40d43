SPECIFICATION Spec
CONSTANTS
  MaxIndex = 3
  MaxFailures = 2
  SyncModes = {TRUE, FALSE}
CHECK_DEADLOCK FALSE
INVARIANT TypeOK
INVARIANT StrictStoreRecovers
INVARIANT EvidenceRetained
INVARIANT HistoryMatchesFiles
