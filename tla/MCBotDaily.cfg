SPECIFICATION BotSpec
CONSTANTS
  Mints = {m1, m2}
  BookSize = 360
  MaxPositions = 2
  SpendCap = 450
  MaxDailyLossPct = 15
  KillLosses = 3
  TicksPerDay = 10
  PositionSize = 144
  Prices = {12, 24}
  LegCosts <- MCLegCosts
  StopLossPct = 15
  TrailingArmsAtPct = 15
  TimeStop = 2
  MaxTime = 4
  MaxCrashes = 1
  Unreadable = FALSE
PROPERTIES
  DailyLossSurvivesRestart
CHECK_DEADLOCK FALSE
