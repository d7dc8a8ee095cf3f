CONSTANTS
  Keys = {k1}
  Slots = {s1, s2}
  Threads = {t1}
  Readers = {r1, r2}
  Vals = {v1, v2}
  BatchMax = 1
  MaxEpoch = 3
  None = None
  Torn = Torn
  Geometries = {"g1", "g2"}
  ExtentFiles = {"E0", "E1"}
  MaxStarts = 3
  MaxPowerLosses = 1
  HighBytes = 2
  LowestBytes = 1
  FullBytes = 3
  QuietTickLimit = 2
  TickVictims = 1
  MaxTicks = 4
  UringDepth = 2
  MaxTokens = 4
  ReadUnits = 3
  MaxReaps = 1
  MaxRingFaults = 2
SPECIFICATION StoreSpec
INVARIANTS CleanEpochIsExact LayoutIsSound LatchFollowsDemand RingIsOwned
PROPERTIES ImplementsCacheStore
CHECK_DEADLOCK FALSE
