CONSTANTS
  Loop = loop
  Reports = {}
  Agents = {agent}
  p1 = p1
  p2 = p2
  pool1 = pool1
  t1 = t1
  Positions = {p1, p2}
  Pool <- OnePool
  Token <- OneToken
  CountCap <- Tight
  CbLoss = 1
  Closes <- Some
  Entered = {"turnover", "reseed"}
  MaxCloses = 3
  MaxKills = 1
  None = None
SPECIFICATION Spec
INVARIANT TypeOK
INVARIANT TotalAddsUp
PROPERTY ExitIsGated
PROPERTY RepeatLossIsOut
PROPERTY RecenterBudget
CHECK_DEADLOCK FALSE
