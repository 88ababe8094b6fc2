SPECIFICATION FairSpec
CONSTANTS
    N = 3
    Size = 2
    MaxRuns = 2
    ShortReads = FALSE
    Choices <- Batches
PROPERTIES OneVersion BatchEnds Delivery
CHECK_DEADLOCK FALSE
