SPECIFICATION Spec
CONSTANTS
  h1 = h1
  h2 = h2
  h3 = h3
  p1 = p1
  p2 = p2
  NoHost = NoHost
  First = h1
  Hosts <- TwoHosts
  Panes <- TwoPanes
  MaxOut = 1
  Events <- Preparing
  Overlap = "none"
INVARIANT FailureKeepsOld
CHECK_DEADLOCK FALSE
