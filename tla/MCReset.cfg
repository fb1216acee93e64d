SPECIFICATION Spec
CONSTANTS
    schema = schema
    api = api
    feature = feature
    a1 = a1
    a2 = a2
    boss = boss
    r1 = r1
    r2 = r2
    None = None
    Request <- MCRequest
    Task <- Two
    Rank <- RankTwo
    Deps <- DepsTwo
    Filters <- MCFilters
    Asks <- ReworkToo
    Created <- QueuedOrBlocked
    Agent <- NoOne
    Admin <- OneAdmin
    Reviewer <- OneAdmin
    Hitl <- Roots
    Payloads = {"invalid", "proven"}
    MaxAttempts = 2
    AttemptBound = 1
SYMMETRY SymmetricRequests
PROPERTY UnblockSound
PROPERTY TakenAsAsked
