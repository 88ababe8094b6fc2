SPECIFICATION FairSpec
CONSTANTS
    m = m
    w1 = w1
    w2 = w2
    Threads = {m, w1, w2}
    Main = m
    Names = {"a", "b"}
    NoThread = NoThread
    MaxStarts = 2
    Triggers = {"minute"}
PROPERTY SavesFinish
CHECK_DEADLOCK FALSE
