SPECIFICATION FairSpec
CONSTANTS
  NBlocks = 3
  QueueCap = 2
  NReaders = 2
  MaxChunks = 5
  Exhaustive = TRUE
INVARIANTS ExhaustiveDropsNothing DrainedIsComplete
PROPERTIES ReplayEnds
\* Every thread has returned, or every reader waits for a producer that is done.
CHECK_DEADLOCK FALSE
