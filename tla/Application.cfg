SPECIFICATION MCSpec
CONSTANTS
  Protocols <- Hybrid
  NChannels = 2
  Failures = {"create", "channel", "service", "collector", "radio"}
  MaxBlocks = 2
  Trampolines = {"ble", "bredr"}
  ListCapacity = 2
  PendingCap = 2
  MaxRuns = 2
  MaxFrames = 4
  Entities <- MCEntities
  Readings <- MCReadings
  Sorts <- MCSorts
  MaxSeriesPoints = 2
  MaxSteps = 3
INVARIANTS OnlyPfbUsesFreed SessionOutlivesWorker ListShowsThisRun TableIsOrdered HistoryFollowsDevice
PROPERTIES DestroyReturns StopIsObeyed
\* The owner has destroyed the session, the window is closed, or a bound is reached.
CHECK_DEADLOCK FALSE
