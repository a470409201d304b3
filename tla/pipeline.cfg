CONSTANTS
  Runs = {r1, r2}
  p1 = p1
  p2 = p2
  t1 = t1
  Pools = {p1, p2}
  Token <- OneToken
  SolIsX = {p2}
  Addrs = {a1, a2}
  Calls <- Daily
  SoulStrategy = "stage_aware"
  MaxPositions <- OneSlot
  ChurnLimit = 1
  StartSol = 64
  MaxStarts = 2
  Shares = {0, 2}
  MaxUpsets = 1
  None = None
SPECIFICATION Spec
INVARIANT TypeOK
INVARIANT ReserveKept
INVARIANT SlotsKept
INVARIANT TokenOnce
INVARIANT ChurnIsCooled
INVARIANT LandsOnItsSide
PROPERTY BarredStaysOut
PROPERTY GateLeavesNoBag
SYMMETRY Interchangeable
CHECK_DEADLOCK FALSE
