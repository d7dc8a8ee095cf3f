CONSTANTS
  DedupKeys = {k1, k2}
  Procs = {p1, p2}
  NSlots = 1
  Arena = 2
  MaxGets = 4
  MaxVersion = 1
SPECIFICATION NodeDedupSpec
INVARIANTS HitIsOwnKey
CHECK_DEADLOCK FALSE
