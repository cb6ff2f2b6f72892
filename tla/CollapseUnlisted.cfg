SPECIFICATION Spec
CONSTANTS
  W = 3
  Lines <- Ranges
  MaxLines = 3
CHECK_DEADLOCK FALSE
INVARIANT NothingElse
