CONSTANTS
  p3 = p3
  p4 = p4
  Positions = {p3}
  Executors = {"v3", "v4"}
  Exec <- OneVenue
  Readings <- EveryRule
  Unpriced = {}
  Reliable = {"v3"}
  Watched = p3
  OorLimit = 1
  BlockCap = 2
  MaxKills = 1
  None = None
SPECIFICATION FairSpec
INVARIANT PostponedAtMostCap
INVARIANT OorExitIsReal
PROPERTY BagIsSold
PROPERTY HalfClosedIsFinished
