SPECIFICATION Spec
CONSTANTS
  None = None
  Runs = {"loop"}
  AgentCalls = {"hold", "close"}
  Positions <- RulePositions
  Readings <- HoldReadings
  StopLoss <- SoulStopLoss
  TrailingTrigger = 50
  TrailingDrop = 15
  MaxOor = 2
  OorDownsideMax = 1
  TurnoverMaxOor = 1
  MinAgeYield = 1
  MinFeeTvl = 1
  IndicatorsEnabled = TRUE
  SlGraceAge = 2
  OorRecoveryGrace = 1
  FeeStallWindow = 1
  FeeStallMin = 1
  FeeStallMinAge = 2
  MaxIndicatorBlock = 1
  SuspectTtl = 2
  AbsentGrace = 1
  HoldMinutes = 2
  MaxClock = 2
PROPERTY HoldBlocksOverride
CHECK_DEADLOCK FALSE
