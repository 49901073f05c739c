SPECIFICATION Spec
CONSTANTS
  Clocks = 6
  Uaps = {0, 1}
  Dci = 0
  Inquiry = FALSE
  Lts = {1, 2}
  Events <- MCEvents
  QueueSize = 3
  HistoryCutoff = 3
  IdleReset = 8
  MaxConfidence = 2
  MaxPackets = 5
PROPERTIES KeepsAcquiring
\* The model stops at its bound on packets.
CHECK_DEADLOCK FALSE
