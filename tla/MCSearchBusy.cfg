SPECIFICATION HistorySpec
CONSTANTS
  r1 = r1
  r2 = r2
  r3 = r3
  r4 = r4
  q1 = q1
  None = None
  Requests = {r1, r2, r3, r4}
  Queries = {q1}
  MaxWatermark = 1
  Capacity = 1
  TTL = 1
  MaxTime = 0
  PageLines = 1
  RefCapacity = 1
  Failures = {"DEADLINE_EXCEEDED"}
SYMMETRY Symmetry
INVARIANTS NotRetryableIsFinal
