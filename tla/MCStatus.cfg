SPECIFICATION FairSpec
CONSTANTS
    r1 = r1
    r2 = r2
    Runs <- TwoRuns
    MaxRetries = 1
INVARIANTS
    TypeOK
    NoLostUpdate
    ActiveBounds
    OnlyLostRepliesMiscount
PROPERTIES
    Implements
    CallsRunOut
    UpdatesEnd
CHECK_DEADLOCK FALSE
