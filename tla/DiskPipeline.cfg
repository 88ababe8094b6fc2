SPECIFICATION FairSpec
CONSTANTS
    N = 2
    Workers = 2
    MaxRuns = 2
    SameSecond = FALSE
    Choices <- AllChoices
    NoFile = NoFile
INVARIANTS Published OwnImages Delivered
PROPERTIES SourcesKept Delivery RunEnds
CHECK_DEADLOCK FALSE
