SPECIFICATION FairSpec
CONSTANTS
  i1 = i1
  i2 = i2
  Ip <- OneIp
  GreyCap = 1
  TrapCap = 1
  Killable <- Nobody
PROPERTY TrapIsReleased
