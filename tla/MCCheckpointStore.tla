------------------------- MODULE MCCheckpointStore -------------------------
EXTENDS CheckpointStore
=============================================================================
