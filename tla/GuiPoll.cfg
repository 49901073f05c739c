SPECIFICATION FairGuiSpec
CONSTANTS
  Trampolines = {"ble"}
  ListCapacity = 1
  PendingCap = 1
  MaxRuns = 1
  MaxFrames = 0
INVARIANTS PollIsSafe
CHECK_DEADLOCK FALSE
