SPECIFICATION Spec
CHECK_DEADLOCK FALSE
CONSTANTS
  MaxDepth = 2
  MaxBytes = 40
  DESTINATION_HISTORY_LIMIT = 1
  Tokens <- MCTokens
  MaxTokens = 6
  Characters = {"a", "b", "*"}
  MaxChars = 5
INVARIANTS ScanIsExact GlobIsSound
