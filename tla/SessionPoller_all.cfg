SPECIFICATION FairSpec
CONSTANTS
    AutoReap = FALSE
    Batched = FALSE
    Hands = {"reap", "terminate", "finish", "release", "relaunch", "crash", "nostamp", "noremove"}
    MaxHands = 2
    MaxTold = 3
INVARIANTS TypeOK NoticesRight
PROPERTIES NotContradicted TerminalStays MergeSettles
CHECK_DEADLOCK FALSE
