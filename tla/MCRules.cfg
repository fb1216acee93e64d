SPECIFICATION Spec
CONSTANTS
    Matches <- MCMatches
    Schemas <- MCSchemas
    Pack <- MCPack
    TaskType = "coding-task"
    Contracts <- MCContracts
    Worlds <- MCWorlds
    Attachable <- MCAttachable
    Submissions <- MCTaskBodies
    TaskState <- MCTaskState
    Reports <- MCReports
    Runs = 2
    AttemptCap = 2
    r1 = r1
    r2 = r2
    ana = ana
    stranger = stranger
    Call = {r1, r2}
    Caller = {ana}
    Sender = {ana, stranger}
    Sends <- Bodies
    Limit = 3
    MaxDepth = 2
    HardBlock = FALSE
    Burst = 4
    Cost = 2
    Rate = 1
    TicksPerSecond = 2
    LastTick = 4
    Weight <- MCWeight
    Bonus <- MCBonus
    VectorLimit = 2
    ProjectOnly = TRUE
    Libraries <- MCLibraries
    Targets <- MCTargets
    Alike <- MCAlike
    ScopesAsked <- Scopes
    TextsAsked <- TextScopes
    Limits <- MCLimits
    Size <- MCSize
    Traces <- MCTraces
    TitleRoom = 4
    ItemRoom = 8
    Now = 61
    MaxPacketSample = 2
    Stores <- MCStores
INVARIANTS
    AdmittedWithinRate
    RetryAfterSuffices
    HandlersSeeCheckedBodies
    AnswersKeepWhatWasFound
    DraftsAreGrounded
    MetricsAgree
PROPERTIES
    DoneIsProven
    DeadLettersAreSpent
CHECK_DEADLOCK FALSE
SYMMETRY Symmetry
