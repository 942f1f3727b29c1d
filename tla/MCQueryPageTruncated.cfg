SPECIFICATION Spec
CONSTANTS
  None = None
  Kinds = {"early"}
  OtherKinds = {"early"}
  MaxFirst = 2
  MaxOther = 1
  Lines <- AllLines
  InitialFiles <- AllFiles
  Appended <- NoLines
  Timed = {2}
  InRange = {1, 2}
  MaxResults = 2
  MaxContent = 9
  PageBudget = 9
  ChunkResults = 2
  MaxPages = 9
  MaxEvents = 1
  InPlace = TRUE
CHECK_DEADLOCK FALSE
INVARIANTS CompleteMeansAll
