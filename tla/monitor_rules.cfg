SPECIFICATION FairSpec
CONSTANTS
  None = None
  Runs = {"loop"}
  AgentCalls = {"hold"}
  Positions <- RulePositions
  Readings <- RuleReadings
  StopLoss <- SoulStopLoss
  TrailingTrigger = 50
  TrailingDrop = 15
  MaxOor = 1
  OorDownsideMax = 1
  TurnoverMaxOor = 1
  MinAgeYield = 1
  MinFeeTvl = 1
  IndicatorsEnabled = TRUE
  SlGraceAge = 1
  OorRecoveryGrace = 1
  FeeStallWindow = 1
  FeeStallMin = 1
  FeeStallMinAge = 0
  MaxIndicatorBlock = 1
  SuspectTtl = 1
  AbsentGrace = 1
  HoldMinutes = 1
  MaxClock = 1
PROPERTIES
  EmergencyNeverSuppressed
  EmergencyEventuallyCloses
CHECK_DEADLOCK FALSE
