SPECIFICATION FairSpec
CONSTANTS
  Lanes = {1}
  Channels = {1, 2}
  Pool = 2
  QueueCap = 1
  EventCap = 1
  MaxChunks = 2
  Split = 2
  Packets = 1
INVARIANTS QuietIsComplete
PROPERTIES ReplayDrains
\* The replay has ended, or was stopped.
CHECK_DEADLOCK FALSE
