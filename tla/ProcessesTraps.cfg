SPECIFICATION FairSpec
CONSTANTS
  i1 = i1
  i2 = i2
  Ip <- TwoIps
  GreyCap = 1
  TrapCap = 2
  Killable <- Nobody
PROPERTY GreytrapConverges
