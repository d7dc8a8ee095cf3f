CONSTANTS
  Keys = {1}
  Cap <- Caps
  Threads = {t1, t2}
  Workers = {w1}
  Bytes = 1
  LargeBudget = 0
  ExtentCap = 1
  ArenaSlots = 1
  AckHigh = 1
  FlushRetries = 2
  FlushBatchMax = 1
  MaxGen = 3
  WriteModes = {TRUE, FALSE}
  AckMode = "commit"
  Promotion = {"direct", "prepared"}
  PutLimit = 2
SPECIFICATION NodeSpec
PROPERTIES RequestsAnswered
