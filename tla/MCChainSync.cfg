CONSTANTS
    Peers = {p1, p2}
    MaxBlock = 3
    MaxBlocksPerRequest = 3
    MaxParallel = 2
    MaxDownloadAhead = 2
    MaxImporting = 2
    MaxLookBack = 1
    MajorSyncBlocks = 1
    FinalityLag = 1
    Heads = {1, 3}
    Jump = 2
    MaxAnnouncements = 1
    MaxFaults = 1
SPECIFICATION Spec
SYMMETRY Symmetry
INVARIANTS BusyIsAwaited RestsSynced
PROPERTIES OnlySearchForgets QueuedIsImporting
CHECK_DEADLOCK FALSE
