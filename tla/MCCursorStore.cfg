SPECIFICATION Spec
CONSTANTS
  r1 = r1
  r2 = r2
  r3 = r3
  r4 = r4
  r5 = r5
  q1 = q1
  None = None
  Requests = {r1, r2, r3, r4, r5}
  Queries = {q1}
  MaxWatermark = 2
  Capacity = 2
  TTL = 1
  MaxTime = 1
SYMMETRY Symmetry
INVARIANTS
  OrderMatchesEntries
  LeaseHolderKeepsEntry
  ChainNeverForks
PROPERTIES
  CursorNeverSilentlyLost
  ExpiredCursorNeverServed
  BusyOnlyWhenAllLeased
  ImplementsChain
