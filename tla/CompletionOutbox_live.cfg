SPECIFICATION FairSpec
CONSTANTS
  w1 = w1
  w2 = w2
  deaf = deaf
  near = near
  p1 = p1
  p2 = p2
  m1 = m1
  m2 = m2
  Nobody = Nobody
  Nothing = Nothing
  Workers <- TwoWorkers
  Orchs <- TwoOrchs
  Owner <- Owners
  Pollers <- OnePoller
  Summaries <- OneSummary
  Retry = 2
  MaxLag = 0
  MaxSend = 1
  MaxOverdue = 4
  MaxInc = 3
  Faults <- SendAndPrompt
  Events <- Removals
  Isolated = TRUE
  Reachable <- OnlyNear
PROPERTY DeliveredOnTime
CHECK_DEADLOCK FALSE
