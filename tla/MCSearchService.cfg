SPECIFICATION ServiceFair
CONSTANTS
  r1 = r1
  r2 = r2
  r3 = r3
  q1 = q1
  q2 = q2
  None = None
  Requests = {r1, r2, r3}
  Queries = {q1, q2}
  MaxWatermark = 2
  Capacity = 1
  TTL = 1
  MaxTime = 1
  PageLines = 1
  RefCapacity = 1
  Failures = {"DEADLINE_EXCEEDED"}
INVARIANTS OrphansOnlyAtLimits
PROPERTIES LeaseEnds RetryableKeepsCursor FinalAnswersAreFinal
