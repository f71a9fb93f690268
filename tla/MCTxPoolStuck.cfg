CONSTANTS
    Hashes <- MCHashes
    Tags <- MCTags
    Provides <- MCProvides
    Priority <- MCPriority
    ReadyLimit = 2
    FutureLimit = 1
    Blocks <- MCBlocks
    Genesis = "g"
    Parent <- MCParent
    Number <- MCNumber
    Body <- MCBody
    Validity <- MCValidity
    SkipThreshold = 20
    RejectFuture = FALSE
    MaxEvents = 1
    MaxJobs = 1
    MaxCalls = 4
SPECIFICATION Spec
CHECK_DEADLOCK FALSE
INVARIANT NotStuckInVerification
