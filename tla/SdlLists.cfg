SPECIFICATION Spec
CONSTANTS
  t1 = t1
  t2 = t2
  t3 = t3
  i1 = i1
  i2 = i2
  s1 = s1
  Tag <- ThreeTags
  Greytrap = Greytrap
  Ip <- TwoIps
  Slot <- OneSlot
  Chunk = 3
  MaxLines = 4
  NULL = NULL
CHECK_DEADLOCK FALSE
INVARIANT TypeOK
INVARIANT InForce
INVARIANT ReplyIsSafe
INVARIANT OneSession
