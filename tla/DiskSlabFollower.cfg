CONSTANTS
  Keys = {k1}
  Slots = {s1}
  Threads = {t1, t2}
  Readers = {r1}
  Vals = {v1}
  BatchMax = 1
  MaxEpoch = 1
  None = None
  Torn = Torn
SYMMETRY Symmetry
SPECIFICATION SteadySpec
INVARIANTS OkMeansCommitted
