SPECIFICATION PartsSpec
CONSTANTS
  p1 = p1
  p2 = p2
  Producers <- TwoWorkers
  Capacity = 2
  MaxEvents = 3
  Modes <- Either
  Clocks = 6
  Uaps = {0, 1}
  Dci = 0
  Inquiry = FALSE
  Lts = {1, 2}
  Events <- MCEvents
  QueueSize = 3
  HistoryCutoff = 3
  IdleReset = 8
  MaxConfidence = 2
  MaxPackets = 5
INVARIANTS NoLostWakeup SurvivorsAgree
PROPERTIES ImplementsQueue EventsSurface StopEndsThreads
  WindowIsLatest LockIsProved TwoToMove
\* Every thread may have returned, or wait for events that do not come; a link
\* stops at its bound on packets.
CHECK_DEADLOCK FALSE
