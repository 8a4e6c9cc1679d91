SPECIFICATION Spec
CONSTANTS
    r1 = r1
    r2 = r2
    Runs <- TwoRuns
    MaxRetries = 2
INVARIANTS
    NoneLeftActive
CHECK_DEADLOCK FALSE
