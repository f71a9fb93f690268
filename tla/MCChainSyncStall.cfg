CONSTANTS
    Peers = {p1}
    MaxBlock = 5
    MaxBlocksPerRequest = 2
    MaxParallel = 2
    MaxDownloadAhead = 2
    MaxImporting = 2
    MaxLookBack = 1
    MajorSyncBlocks = 1
    FinalityLag = 1
    Heads = {1, 2}
    Jump = 2
    MaxAnnouncements = 2
    MaxFaults = 0
SPECIFICATION FairSpec
PROPERTIES SyncsToTip
CHECK_DEADLOCK FALSE
