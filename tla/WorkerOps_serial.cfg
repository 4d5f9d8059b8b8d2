SPECIFICATION Spec
CONSTANTS
  s1 = s1
  s2 = s2
  c1 = c1
  c2 = c2
  o1 = o1
  o2 = o2
  o3 = o3
  o4 = o4
  App = App
  NoSession = NoSession
  NoCheckout = NoCheckout
  Sessions <- OneSession
  Owned <- OneSession
  Checkouts <- TwoCheckouts
  Columns <- AllColumns
  Commands <- FourCommands
  Procs <- FourProcs
  Kinds <- NoRelaunch
  Faults <- AllFaults
  Events <- AllEvents
  Backend = "tmux"
  Cap = 1
  Width = 1
  MaxGen = 12
INVARIANTS OpsTypeOK RuntimeOwnsCheckout RecoveredByOpen RowsMatchAgents
PROPERTY StoreContract
SYMMETRY Interchangeable
CHECK_DEADLOCK FALSE
