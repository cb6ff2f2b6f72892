SPECIFICATION FairSpec
CONSTANTS
  maxcon = 2
  Pipe <- Pipes1
  MaxFd = 4
  NFDBITS = 2
  MAXTIME = 1
  MaxTime = 2
INVARIANT TypeOK
INVARIANT OnlyFreshBlocks
INVARIANT Punctual
PROPERTY PipesAreServed
