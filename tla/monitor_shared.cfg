SPECIFICATION Spec
CONSTANTS
  None = None
  Runs = {"loop", "report"}
  AgentCalls = {"hold", "reset", "close"}
  Positions <- SharedPositions
  Readings <- SharedReadings
  StopLoss <- SoulStopLoss
  TrailingTrigger = 50
  TrailingDrop = 15
  MaxOor = 2
  OorDownsideMax = 1
  TurnoverMaxOor = 1
  MinAgeYield = 1
  MinFeeTvl = 1
  IndicatorsEnabled = TRUE
  SlGraceAge = 2
  OorRecoveryGrace = 1
  FeeStallWindow = 1
  FeeStallMin = 1
  FeeStallMinAge = 0
  MaxIndicatorBlock = 1
  SuspectTtl = 1
  AbsentGrace = 1
  HoldMinutes = 1
  MaxClock = 1
INVARIANTS
  TypeOK
  ReportClosesOnlyEmergencies
  ClosedAtMostOnce
  OpenIsTracked
CHECK_DEADLOCK FALSE
