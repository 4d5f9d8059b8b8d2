SPECIFICATION Spec
CONSTANTS
    AutoReap = FALSE
    Batched = FALSE
    Hands = {"finish", "release"}
    MaxHands = 2
    MaxTold = 2
INVARIANT MergeToldOnce
CHECK_DEADLOCK FALSE
