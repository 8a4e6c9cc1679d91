SPECIFICATION Spec
CONSTANTS
    r1 = r1
    r2 = r2
    r3 = r3
    p = p
    q = q
    a = a
    b = b
    None = None
    Runs <- OtherRuns
    ShortIds <- NobodyShort
    Prefix <- Prefixes
    ModuleName <- TwoModules
    NumStages = 2
    Concurrency = 1
    BackoffLimit = 1
    TTLSet = FALSE
INVARIANTS
    FailedMeansExhausted
CHECK_DEADLOCK FALSE
