CONSTANTS
  p3 = p3
  p4 = p4
  Positions = {p3, p4}
  Executors = {"v3", "v4"}
  Exec <- BothVenues
  Readings <- Few
  Unpriced = {p4}
  Reliable = {"v3"}
  Watched = p3
  OorLimit = 1
  BlockCap = 2
  MaxKills = 1
  None = None
SPECIFICATION Spec
INVARIANT TypeOK
PROPERTY PeakKept
