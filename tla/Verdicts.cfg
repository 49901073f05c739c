SPECIFICATION CodecsSpec
CONSTANTS
  BredrSamples <- MCBredrSamples
  BleSamples <- MCBleSamples
  Advertised <- MCAdvertised
  Uuid32Bytes = 3
  Uuid128Bytes = 4
  MaxServices = 2
  MaxServices128 = 2
  MaxMerges = 3
  Packets <- MCPackets
  DhBufferBytes = 300
  MaxChecked = 2
INVARIANTS TruthIsConfirmed
\* The model stops at its bounds.
CHECK_DEADLOCK FALSE
