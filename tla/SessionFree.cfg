SPECIFICATION MCSpec
CONSTANTS
  Protocols <- Hybrid
  NChannels = 1
  Failures = {}
  MaxBlocks = 1
  Trampolines = {"ble"}
  ListCapacity = 1
  PendingCap = 1
  MaxRuns = 1
  MaxFrames = 1
  Entities <- MCEntities
  Readings <- MCReadings
  Sorts <- MCSorts
  MaxSeriesPoints = 1
  MaxSteps = 1
INVARIANTS NothingFreedInUse
CHECK_DEADLOCK FALSE
