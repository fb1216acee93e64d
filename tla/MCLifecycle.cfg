SPECIFICATION MCFairSpec
CONSTANTS
    schema = schema
    api = api
    feature = feature
    a1 = a1
    a2 = a2
    boss = boss
    r1 = r1
    r2 = r2
    None = None
    Request <- MCRequest
    Task <- Three
    Rank <- MCRank
    Deps <- DepsThree
    Filters <- MCFilters
    Asks <- DeclareToo
    Created <- QueuedOrBlocked
    Agent <- OneAgent
    Admin <- OneAdmin
    Reviewer <- Everyone
    Hitl <- Roots
    Payloads = {"invalid", "proven"}
    MaxAttempts = 2
    AttemptBound = 1
PROPERTY UnblockComplete
PROPERTY RequestsEnd
CHECK_DEADLOCK FALSE
