CONSTANTS
  Keys = {k1, k2}
  Slots = {s1, s2}
  Threads = {t1, t2}
  Readers = {r1}
  Vals = {v1}
  BatchMax = 2
  MaxEpoch = 1
  None = None
  Torn = Torn
SYMMETRY Symmetry
SPECIFICATION SteadySpec
INVARIANTS HoldersAreExact
