SPECIFICATION HSpec
CONSTANTS
  None = None
  Runs = {"loop", "report"}
  AgentCalls = {}
  Positions <- GracePositions
  Readings <- GraceReadings
  StopLoss <- SoulStopLoss
  TrailingTrigger = 50
  TrailingDrop = 15
  MaxOor = 2
  OorDownsideMax = 2
  TurnoverMaxOor = 1
  MinAgeYield = 2
  MinFeeTvl = 1
  IndicatorsEnabled = TRUE
  SlGraceAge = 2
  OorRecoveryGrace = 1
  FeeStallWindow = 2
  FeeStallMin = 1
  FeeStallMinAge = 9
  MaxIndicatorBlock = 2
  SuspectTtl = 2
  AbsentGrace = 2
  HoldMinutes = 2
  MaxClock = 3
INVARIANT ArmedLocksGain
PROPERTIES
  SuspectNeedsSecondRead
  GapGraceOnce
  IndicatorDelayBounded
  OorFuseEnds
CHECK_DEADLOCK FALSE
