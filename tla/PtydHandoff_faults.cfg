SPECIFICATION Spec
CONSTANTS
  h1 = h1
  h2 = h2
  h3 = h3
  p1 = p1
  p2 = p2
  NoHost = NoHost
  First = h1
  Hosts <- ThreeHosts
  Panes <- OnePane
  MaxOut = 1
  Events <- AllFaults
  Overlap = "none"
INVARIANTS OneReader FaultsContained
SYMMETRY Later
CHECK_DEADLOCK FALSE
