SPECIFICATION Spec
CONSTANTS
  None = None
  Kinds = {"early"}
  OtherKinds = {"early"}
  MaxFirst = 2
  MaxOther = 1
  Lines <- AllLines
  InitialFiles <- AllFiles
  Appended <- NewLines
  Timed = {1}
  InRange = {1, 2}
  MaxResults = 1
  MaxContent = 9
  PageBudget = 9
  ChunkResults = 2
  MaxPages = 2
  MaxEvents = 1
  InPlace = FALSE
CHECK_DEADLOCK FALSE
INVARIANTS PagesWithinHardLimit
