SPECIFICATION FairSpec
CONSTANTS
  p1 = p1
  p2 = p2
  c1 = c1
  c2 = c2
  c3 = c3
  Producers = {p1, p2}
  Consumers = {c1, c2, c3}
  BatchSizes = {0, 1, 2}
  Depths = {0, 2}
  MaxAccepted = 4
INVARIANTS TypeOK NoLostWakeup ExactlyOnce CloseIsClean
PROPERTIES DepthRespected WaiterServed CloseReleases
CHECK_DEADLOCK FALSE
