SPECIFICATION Spec
CONSTANTS
    schema = schema
    api = api
    feature = feature
    a1 = a1
    a2 = a2
    boss = boss
    r1 = r1
    r2 = r2
    None = None
    Request <- MCRequest
    Task <- One
    Rank <- RankOne
    Deps <- DepsOne
    Filters <- MCFilters
    Asks <- WorkOnly
    Created <- Queued
    Agent <- TwoAgents
    Admin <- OneAdmin
    Reviewer <- OneAdmin
    Hitl <- Roots
    Payloads = {"invalid", "proven"}
    MaxAttempts = 1
    AttemptBound = 1
PROPERTY SubmitByClaimant
