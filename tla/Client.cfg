CONSTANTS
  k1 = k1
  k2 = k2
  n1 = n1
  n2 = n2
  c1 = c1
  c2 = c2
  c3 = c3
  Members = {m1, m2, m3}
  ViewsToAccept = 3
  ShrinkPct = 50
  Capacity = 1
  RotateBytes = 3
  BatchBytes = {1, 2, 4}
  MaxEnqueues = 4
  Callers = {c1, c2, c3}
  Shards <- MCShards
  Readers = {r1, r2}
  Loops = {c1, c2, c3}
  Helpers = {h1, h2}
  Items <- MCItems
  Concurrency <- MCConcurrency
  Sockets = {1, 2, 3, 4}
  ServerCap = 1
  Links <- MCLinks
  TcpCallers = {q1, q2}
  MaxConnections = 2
  MinConnections = 1
  IdleTimeout = 1
  BackoffBase = 1
  BackoffMax = 2
  RKeys = {k1, k2}
  RNodes = {n1, n2}
  ROwner <- MCOwner
  Aware = {n1}
  RCallers = {c1, c2}
  SetTtl = 4
  DebouncePart = 2
  ReplyDelay = 1
  EntryCap = 1
  Tiers <- MCTiers
  Preferred = {1}
  RThreads = {p1, p2}
  ConnIds = {1, 2, 3, 4}
  RailCredits = 2
  ErrorThreshold = 2
  FullDepth = 2
  PoolMax = 1
  DataPoolMax = 2
  Networks <- MCNetworks
  DedupKeys = {d1, d2}
  Procs = {p1, p2}
  NSlots = 2
  Arena = 1
  MaxGets = 3
  MaxVersion = 1
  GpuProcs = {1, 2, 3}
  RegEntries = {1, 2}
  GpuKeys = {1, 2}
  ArenaCells = 2
  CallPlans <- MCCallPlans
  MaxDeaths = 1
  CKeys = {k1, k2}
  CNodes = {n1, n2}
  Clients = {p1, p2}
  Route <- MCRoute
  Workloads <- MCWorkloads
  Publishers = {g1, g2}
  PoolSlots = 1
  MaxCopies = 2
  ChunksPerCopy = 2
  MaxFaults = 2
SYMMETRY Symmetry
SPECIFICATION ClientSpec
INVARIANTS  CallsReturn DropsAreAccounted BatchesComplete ItemsRunInsideTheCall
  TcpIsSound  RailsAreAccounted  
  PublishIsSafe
PROPERTIES RingFollowsViews
CHECK_DEADLOCK FALSE
