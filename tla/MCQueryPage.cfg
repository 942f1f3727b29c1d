SPECIFICATION FairSpec
CONSTANTS
  None = None
  Kinds = {"plain", "early", "late", "outside", "untimed"}
  OtherKinds = {"early", "late"}
  MaxFirst = 3
  MaxOther = 1
  Lines <- AllLines
  InitialFiles <- AllFiles
  Appended <- NewLines
  Timed = {1, 2}
  InRange = {1, 2}
  MaxResults = 2
  MaxContent = 2
  PageBudget = 3
  ChunkResults = 2
  MaxPages = 2
  MaxEvents = 2
  InPlace = TRUE
CHECK_DEADLOCK FALSE
INVARIANTS PagesFormOneList CompleteUnlessCut SortedAndOnce
PROPERTIES SearchEnds
