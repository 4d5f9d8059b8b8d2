SPECIFICATION FairSpec
CONSTANTS
    r1 = r1
    f1 = f1
    Raw <- OneRaw
    Frame <- OneFrame
    Depth = 2
    MaxOut = 3
    Scenarios <- EachEvent
PROPERTY EveryoneHears
CHECK_DEADLOCK FALSE
