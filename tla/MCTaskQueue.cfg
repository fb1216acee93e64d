SPECIFICATION QueueSpec
CONSTANTS
    t1 = t1
    t2 = t2
    a1 = a1
    a2 = a2
    boss = boss
    r1 = r1
    r2 = r2
    r3 = r3
    None = None
    Task <- MCTask
    Agent <- MCAgent
    Admin <- MCAdmin
    Request <- MCRequest
    Rank <- MCRank
    Filters <- MCFilters
    Asks <- MCAsks
    Created <- MCCreated
SYMMETRY Symmetry
PROPERTY ImplementsAtomicQueue
PROPERTY ReleaseByHolder
CHECK_DEADLOCK FALSE
