SPECIFICATION StagesSpec
CONSTANTS
  MaxRate <- MCMaxRate
  AskedCounts = {0, 1, 2, 3, 4, 5, 9, 10, 12, 20, 21, 22, 24, 27, 28, 32, 36, 38, 39, 40, 41, 54, 60, 72, 74, 78, 79, 80}
  Decim = 2
  HalfFrame = 3
  MaxChunk = 4
  BlockSizes = {1, 5, 12}
  MaxSamples = 36
  MaxGaps = 2
  PreambleBits = 2
  AaBits = 3
  AdvAa <- MCAdvAa
  MaxRun = 2
  Whitening <- MCWhitening
  PayloadBits = 4
  CrcBits = 0
  QueueCap = 2
  MaxBits = 17
  SyncBits = 3
  TrailerBits = 2
  HeaderBits = 1
  BodyBits = 2
  LapOf <- MCLapOf
  InquiryLaps = {"giac"}
  LapFilters = {{}, {"lap1"}}
  BlockBits = 4
  HoleSamples = 6
  MaxHoles = 2
  MaxAirBits = 19
  BredrSamples <- MCBredrSamples
  BleSamples <- MCBleSamples
  Advertised <- MCAdvertised
  Uuid32Bytes = 3
  Uuid128Bytes = 4
  MaxServices = 2
  MaxServices128 = 2
  MaxMerges = 3
  Packets <- MCPackets
  DhBufferBytes = 300
  MaxChecked = 2
INVARIANTS BleReceives StampIsItsOwn TuningDelivers OfferedIsAccepted LanesKeepTime
  CodesInvert ShownWasOnAir AdvertisementsMerge VerdictsAreSound
\* The model stops at its bounds.
CHECK_DEADLOCK FALSE
