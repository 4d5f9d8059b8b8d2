SPECIFICATION Spec
CONSTANTS
  w1 = w1
  w2 = w2
  deaf = deaf
  near = near
  p1 = p1
  p2 = p2
  m1 = m1
  m2 = m2
  Nobody = Nobody
  Nothing = Nothing
  Workers <- OneWorker
  Orchs <- OneOrch
  Owner <- OneOwner
  Pollers <- TwoPollers
  Summaries <- TwoSummaries
  Retry = 3
  MaxLag = 1
  MaxSend = 1
  MaxOverdue = 1
  MaxInc = 2
  Faults <- ReceiveFaults
  Events <- NoEvents
  Isolated = TRUE
  Reachable <- OnlyNear
INVARIANT AcknowledgedIsRead
CHECK_DEADLOCK FALSE
