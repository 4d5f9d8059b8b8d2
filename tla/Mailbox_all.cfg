SPECIFICATION Spec
CONSTANTS
  short = short
  long = long
  third = third
  Nudge = Nudge
  Human = Human
  Messages <- Two
  Mechanisms <- AnyMechanism
  Size <- Sizes
  MaxPayload = 2
  Attempts = 1
  MaxTurns = 2
  Faults <- AllButMark
  People = 1
INVARIANTS TypeOK NothingVanishes ReadInOrder IdleIsShown
CHECK_DEADLOCK FALSE
