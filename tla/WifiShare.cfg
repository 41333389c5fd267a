SPECIFICATION LiveSpec
CONSTANT MaxSyncs = 2
INVARIANTS TypeOK TimeFromNtp
PROPERTY SyncEnds
