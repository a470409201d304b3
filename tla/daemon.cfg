CONSTANTS
  p1 = p1
  p2 = p2
  r1 = r1
  None = None
  Order <- AllModes
  Feed <- Feeds
  Sink <- Direct
  Solana <- Meteora
  Window <- Windows
  Cap = 1
  Backends <- Both
  MaxFaults = 2
SPECIFICATION FairSpec
INVARIANT TypeOK
INVARIANT SilentForAReason
INVARIANT CapHeld
PROPERTY KeepsPromise
PROPERTY SilenceEnds
CHECK_DEADLOCK FALSE
