SPECIFICATION FairSpec
CONSTANTS
    r1 = r1
    r2 = r2
    p1 = p1
    p2 = p2
    n1 = n1
    n2 = n2
    None = None
    Runs <- TwoRuns
    Reports <- OneReport
    Names <- TwoNames
    Name <- OwnNames
    RunName <- ForFirst
    MaxRetries = 1
    MaxFaults = 0
PROPERTIES
    EveryReportAnswered
CHECK_DEADLOCK FALSE
