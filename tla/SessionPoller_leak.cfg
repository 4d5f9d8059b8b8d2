SPECIFICATION FairSpec
CONSTANTS
    AutoReap = FALSE
    Batched = FALSE
    Hands = {"noremove"}
    MaxHands = 1
    MaxTold = 2
PROPERTY MergedReclaimedAlways
CHECK_DEADLOCK FALSE
