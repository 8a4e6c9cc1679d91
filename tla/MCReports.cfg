SPECIFICATION FairSpec
CONSTANTS
    r1 = r1
    r2 = r2
    p1 = p1
    p2 = p2
    n1 = n1
    n2 = n2
    None = None
    Runs <- TwoRuns
    Reports <- TwoReports
    Names <- TwoNames
    Name <- OwnNames
    RunName <- ForFirst
    MaxRetries = 1
    MaxFaults = 1
INVARIANTS
    TypeOK
    OnlyLostRepliesRepeat
    NoneDropped
    InOrder
    StopHeardSoon
    FlushedAtExit
    StopFindsCollector
PROPERTIES
    Implements
    UsesWaitGroup
    CallsRunOut
    ComesToRest
CHECK_DEADLOCK FALSE
