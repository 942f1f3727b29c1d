SPECIFICATION HistorySpec
CONSTANTS
  c1 = c1
  c2 = c2
  c3 = c3
  c4 = c4
  c5 = c5
  None = None
  Calls = {c1, c2, c3, c4, c5}
  Capacity = 2
  TTL = 2
  MaxTime = 3
SYMMETRY Symmetry
INVARIANTS NewestSurvive
PROPERTIES StaleOnlyBehindFresh
