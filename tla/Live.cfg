CONSTANTS
  Endpoints <- MCEndpoints
  Upserts = {c1, c2}
  Leases <- MCLeases
  Ttl = 3
  StaleTtls = 1
  CallSpan = 1
  IoTimeout = 1
  Heartbeat = 1
  RetryWait = 1
  Backoff = 1
  Deadline = 1
  MaxMdsFaults = 3
  Peers = {p1, p2}
  HThreads = {h1, h2}
  BaseCooldown = 1
  MaxCooldown = 2
  BusyGrace = 1
  MaxPeers = 1
  MaxStale = 1
  Depth = 2
  Sessions <- MCSessions
  Keys = {k1}
  Slots = {s1}
  Threads = {t1, t2}
  Readers = {r1}
  Vals = {v1}
  BatchMax = 2
  MaxEpoch = 1
  None = None
  Torn = Torn
SPECIFICATION LiveSpec
INVARIANTS AnsweredMemberStays
PROPERTIES MemberReturns PeerIsTriedAgain WindowsAreAnswered PutsAnswered
CHECK_DEADLOCK FALSE
