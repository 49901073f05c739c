SPECIFICATION Spec
CONSTANTS
  a1 = a1
  a2 = a2
  a3 = a3
  i1 = i1
  i2 = i2
  Aas = {a1, a2, a3}
  Addrs = {11, 12}
  Inits = {i1, i2}
  ConnsMax = 2
  PendingCap = 2
  Threshold = 3
  MaxCandidates = 1
  BleEvents <- MCBleEvents
  MaxBleEvents = 6
  Laps = {21, 22}
  LtAddrs = {1}
  LapPendingCap = 1
  Thresholds = {1, 2}
  ClkModulus = 8
  LapStarts = {1, 2, 3}
  MaxLapEvents = 4
  Depth = 3
  RssiWindow = 1
  Sources = {0, 1}
  Ticks = {1, 2, 3}
  MaxFrames = 4
SYMMETRY Symmetry
INVARIANTS TablesAgree ShownAreProven NothingForgotten MembersAgree TimesRunForward MeanOfWindow
PROPERTIES ProvenStay
\* The model stops at its bounds.
CHECK_DEADLOCK FALSE
