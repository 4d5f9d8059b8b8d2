SPECIFICATION FairSpec
CONSTANTS
  s1 = s1
  s2 = s2
  c1 = c1
  c2 = c2
  o1 = o1
  o2 = o2
  o3 = o3
  o4 = o4
  App = App
  NoSession = NoSession
  NoCheckout = NoCheckout
  Sessions <- OneSession
  Owned <- OneSession
  Checkouts <- OneCheckout
  Columns <- AllColumns
  Commands <- ThreeCommands
  Procs <- ThreeProcs
  Kinds <- NoRefile
  Faults <- NoFaults
  Events <- NoEvents
  Backend = "tmux"
  Cap = 1
  Width = 9
  MaxGen = 8
PROPERTY WorkEnds
CHECK_DEADLOCK FALSE
