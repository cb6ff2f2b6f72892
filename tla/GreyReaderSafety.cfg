SPECIFICATION Spec
CONSTANTS
  MaxMessages = 4
  MaxLines = 10
CHECK_DEADLOCK FALSE
INVARIANT TypeOK
INVARIANT EachMessageOnce
INVARIANT SyncMarksItsTuple
PROPERTY IsFeed
