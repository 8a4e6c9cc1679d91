SPECIFICATION FairControllerSpec
CONSTANTS
    r1 = r1
    r2 = r2
    p = p
    q = q
    a = a
    None = None
    Runs <- TwoRuns
    ShortIds <- SecondShort
    Prefix <- Prefixes
    ModuleName <- OneModule
    NumStages = 1
    Concurrency = 2
    BackoffLimit = 0
    TTLSet = TRUE
    MaxCrashes = 1
INVARIANTS
    ControllerTypeOK
    AwaitedRunsFinish
PROPERTIES
    ShutdownCompletes
    DeletionReleased
CHECK_DEADLOCK FALSE
