CONSTANTS
  k1 = k1
  k2 = k2
  k3 = k3
  t1 = t1
  t2 = t2
  Depth = 2
  Sessions <- MCSessions
  SConns = {1, 2, 3}
  PoolUnits = 2
  MaxRequests = 3
  ChunkBytes = 4
  MaxBytes = 10
  Alignment = 2
  Reserve = TRUE
  LeaseSizes = {1, 2, 3}
  Rails = {1}
  TrimAfter = 1
  Owners = {1, 2, 3}
  FKeys = {k1, k2}
  RReaders = {t1, t2}
  RingDepth = 2
  Scripts <- MCScripts
  BKeys = {k1, k2, k3}
  BThreads = {t1, t2}
  ShardOf <- MCShardOf
  TenantOf <- MCTenantOf
  ShardBytes = 1
  ForceBytes = 1
  Align = 2
  Loads <- MCLoads
  QKeys = {k1, k2, k3}
  QThreads = {t1, t2}
  QTenant <- MCQTenant
  QStripe <- MCQStripe
  QDisk <- MCQDisk
  QBytes <- MCQBytes
  Quota <- MCQuota
  Mixes <- MCMixes
  Keys = {r1, r2}
  Capacity = 2
  WheelTick = 2
  MaxTTL = 2
  Budget = 1
  PersistMinDelta = 2
  Instants = {12}
  Objects = {k1, k2, k3}
  HashOf <- MCHashOf
  SizeOf <- MCSizeOf
  MinCapacity = 4
  NumExtents = 2
  ExtentUnits = 2
  WastePct = 25
  StripeWays = 1
  MaxHolds = 1
  MaxVictims = 2
  FreeTarget = 2
  LowBytes = 1
SYMMETRY Symmetry
SPECIFICATION ServerSpec
INVARIANTS ConnectionIsSafe StopDrains LeasesDivideChunks ReadsAreCoalesced
  BlocksAreExact  RetentionIsExact
PROPERTIES NeverEndsEarly AllocatorIsSound
CHECK_DEADLOCK FALSE
