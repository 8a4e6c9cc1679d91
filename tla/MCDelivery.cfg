SPECIFICATION FairSpec
CONSTANTS
    r1 = r1
    r2 = r2
    r3 = r3
    p = p
    q = q
    a = a
    b = b
    None = None
    Runs <- ThreeRuns
    ShortIds <- ThirdIsShort
    Prefix <- Prefixes
    ModuleName <- SameModules
    NumStages = 2
    Concurrency = 1
    BackoffLimit = 1
    TTLSet = TRUE
INVARIANTS
    DeliveredResult
    OwnJobIfAny
PROPERTIES
    Implements
    NoUnfinishedDelete
    RunEndsOrJobGone
CHECK_DEADLOCK FALSE
