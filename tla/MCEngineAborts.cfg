SPECIFICATION Spec
CONSTANTS
  Mints = {m1, m2}
  BookSize = 120840
  MaxPositions = 2
  SpendCap = 180000
  MaxDailyLossPct = 15
  KillLosses = 2
  TicksPerDay = 3
  PositionSize = 57960
  Prices = {1, 20, 21, 23, 30}
  LegCosts <- MCLegCosts
  StopLossPct = 15
  TrailingArmsAtPct = 15
  TimeStop = 3
  MaxTime = 4
CONSTRAINT CrashesOnce
INVARIANTS
  NoTickIsAborted
CHECK_DEADLOCK FALSE
