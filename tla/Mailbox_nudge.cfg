SPECIFICATION Spec
CONSTANTS
  short = short
  long = long
  third = third
  Nudge = Nudge
  Human = Human
  Messages <- Two
  Mechanisms <- OnlyInbox
  Size <- Sizes
  MaxPayload = 2
  Attempts = 1
  MaxTurns = 2
  Faults <- NoFaults
  People = 0
CHECK_DEADLOCK FALSE
INVARIANT NudgeNeverWedges
