SPECIFICATION Spec
CONSTANTS
    p = p
    q = q
    r1 = r1
    r2 = r2
    NoManager = NoManager
    NoCheckpoint = NoCheckpoint
    Managers = {p, q}
    RunIds = {r1}
    Stages = {1, 2, 3}
    AlphaRank <- Reversed
    Unsafe = {2}
    MaxTime = 2
    MaxSaves = 3
    KeepTotal = 0
    SameSecond = FALSE
    Faults = TRUE
INVARIANTS LastCompletedKept RecoveryFound
SYMMETRY Symmetry
