SPECIFICATION Spec
CONSTANTS
  None = None
  Bytes = {"a", "A", "b", "newline", "return", "invalid"}
  MatchText = 7
  PreviewText = 5
  MaxBytes = 7
  Start <- StartHere
  Requests <- AllRequests
CONSTRAINT Explored
CHECK_DEADLOCK FALSE
INVARIANTS
  TypeOK ResultsExact PlacesExact
  PreviewFaithful ContinuationOnLineStart LimitsRespected ChunksLoseNoMatch
