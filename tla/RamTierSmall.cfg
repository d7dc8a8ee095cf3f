CONSTANTS
  Keys <- Small
  Cap <- Caps
  Threads = {t1, t2}
  Workers = {w1}
  Bytes = 1
  LargeBudget = 0
  ExtentCap = 1
  ArenaSlots = 1
  AckHigh = 1
  FlushRetries = 2
  FlushBatchMax = 2
  MaxGen = 3
SYMMETRY Symmetry
SPECIFICATION Spec
INVARIANTS DurabilityIsKept FencedStaysGone ReaderKeepsItsBytes
