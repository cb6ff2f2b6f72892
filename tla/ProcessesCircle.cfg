SPECIFICATION FairSpec
CONSTANTS
  i1 = i1
  i2 = i2
  Ip <- OneIp
  GreyCap = 2
  TrapCap = 2
  Killable <- Everybody
INVARIANT TypeOK
INVARIANT LockIsShort
INVARIANT Supervised
PROPERTY EveryoneComesRound
