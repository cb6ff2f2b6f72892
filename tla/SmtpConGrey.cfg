SPECIFICATION Spec
CONSTANTS
  MaxCon = 2
  MaxBlack = 1
  Spare = 1
  Greylist = TRUE
  GreyStutter = TRUE
  ReplyLen = 2
INVARIANTS TypeOK Counters Dialogue StutterBound GreyNeverSends AcceptedIsReported
