CONSTANTS
    CompactLimit = 2
    TopKeys <- MCTopKeys
    ChildKeys <- MCChildKeys
    OffKeys <- MCOffKeys
    Lists <- MCLists
    Stored <- MCStored
    Writes <- MCWrites
    MaxDepth = 2
    MaxElements = 2
    MaxWrites = 2
    MaxRoots = 1

SPECIFICATION SpecViews

INVARIANT LockStep
INVARIANT NextKeyRight
INVARIANT SeesNested
PROPERTY RootStaysFresh
