CONSTANTS
    Hashes <- MCHashes
    Tags <- MCTags
    Provides <- MCProvides
    Priority <- MCPriority
    ReadyLimit = 2
    FutureLimit = 1
    Blocks <- MCBlocks
    Genesis = "g"
    Parent <- MCParent
    Number <- MCNumber
    Body <- MCBody
    Validity <- MCValidity
    SkipThreshold = 1
    RejectFuture = FALSE
    MaxEvents = 2
    MaxJobs = 1
    MaxCalls = 3
SPECIFICATION Spec
INVARIANT PoolSound
INVARIANT ReadyOrder
INVARIANT EnactmentFollows
CHECK_DEADLOCK FALSE
