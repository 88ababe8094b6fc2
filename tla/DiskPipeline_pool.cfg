SPECIFICATION Spec
CONSTANTS
    N = 2
    Workers = 2
    MaxRuns = 1
    SameSecond = TRUE
    Choices <- Pools
    NoFile = NoFile
INVARIANT Isolated
CHECK_DEADLOCK FALSE
