SPECIFICATION FairSpec
CONSTANTS
  NBlocks = 3
  QueueCap = 2
  NReaders = 2
  MaxChunks = 4
  Exhaustive = FALSE
INVARIANTS LossIsCounted
PROPERTIES NoOverwrite ImplementsStream StopEndsThreads
\* Every thread has returned, or every reader waits for a producer that is done.
CHECK_DEADLOCK FALSE
