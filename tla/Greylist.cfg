SPECIFICATION FairSpec
CONSTANTS
  i1 = i1
  m1 = m1
  Ip <- OneIp
  Mail <- OneMail
  Bare <- None
  Foreign <- None
  PassTime = 0
  GreyExp = 2
  WhiteExp = 2
  WHITEEXP = 2
  TrapExp = 1
  Grace = 1
  PeerLife <- Lives
  MaxTime = 2
  MaxWaiting = 1
  MaxFaults = 1
  NoEntry = NoEntry
  NotRead = NotRead
INVARIANT TypeOK
INVARIANT PfWasEarned
PROPERTY TrapNotUndone
PROPERTY IsPassage
PROPERTY PfConverges
