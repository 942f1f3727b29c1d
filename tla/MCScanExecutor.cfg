SPECIFICATION FairSpec
CONSTANTS
  c1 = c1
  c2 = c2
  c3 = c3
  Calls = {c1, c2, c3}
  Timed = {c3}
  Permits = 1
CHECK_DEADLOCK FALSE
INVARIANTS PermitsConserved NoLostWakeup
PROPERTIES StoppedCallsAnswer DroppedWorkEnds WaitersServed
