CONSTANTS
  Keys <- Large
  Cap <- Caps
  Threads = {t1, t2}
  Workers = {w1}
  Bytes = 3
  LargeBudget = 2
  ExtentCap = 1
  ArenaSlots = 1
  AckHigh = 3
  FlushRetries = 2
  FlushBatchMax = 2
  MaxGen = 3
SYMMETRY Symmetry
SPECIFICATION Spec
 
PROPERTIES DirtyNeverEvicted
