SPECIFICATION Spec
CONSTANTS
  None = None
  Bytes = {"m", "M", "x", "newline", "return", "invalid"}
  Letters = {"m", "x", "newline"}
  MaxText = 4
  Lines <- FewAndMany
  Written = {"x", "newline"}
  MaxAppends = 1
  MaxRewrites = 1
  Texts <- AllTexts
  Requests <- AllRequests
CHECK_DEADLOCK FALSE
INVARIANTS TypeOK ContextAsInFile NothingHidden KeywordVisible StaleRefused NoFalseAlarm
