SPECIFICATION BotSpec
CONSTANTS
  Mints = {m1, m2}
  BookSize = 300
  MaxPositions = 2
  SpendCap = 450
  MaxDailyLossPct = 15
  KillLosses = 3
  TicksPerDay = 10
  PositionSize = 144
  Prices = {1, 24}
  LegCosts <- DearExit
  StopLossPct = 15
  TrailingArmsAtPct = 15
  TimeStop = 2
  MaxTime = 4
  MaxCrashes = 1
  Unreadable = TRUE
SYMMETRY MCSymmetry
PROPERTIES
  SpendNeverForgotten
CHECK_DEADLOCK FALSE
