SPECIFICATION ControllerSpec
CONSTANTS
    r1 = r1
    r2 = r2
    p = p
    q = q
    a = a
    None = None
    Runs <- TwoRuns
    ShortIds <- NoneShort
    Prefix <- Prefixes
    ModuleName <- OneModule
    NumStages = 1
    Concurrency = 2
    BackoffLimit = 0
    TTLSet = FALSE
    MaxCrashes = 0
PROPERTIES
    NoRunCutOff
CHECK_DEADLOCK FALSE
