SPECIFICATION FairSpec
CONSTANTS
  high = high
  low = low
  i1 = i1
  m1 = m1
  Host <- TwoHosts
  LowMx = low
  Ip <- OneIp
  Mail <- OneMail
  Bare <- None
  Foreign <- None
  PassTime = 1
  GreyExp = 3
  WhiteExp = 2
  WHITEEXP = 2
  TrapExp = 1
  Grace = 0
  Late = 1
  MaxTime = 3
  MaxNet = 2
  MaxFaults = 1
  Lossy = FALSE
  NoEntry = NoEntry
PROPERTY NotTrappedErroneously
