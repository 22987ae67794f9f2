SPECIFICATION Spec
CONSTANTS
  Mints = {m1, m2}
  BookSize = 60
  MaxPositions = 2
  SpendCap = 66
  MaxDailyLossPct = 15
  KillLosses = 2
  TicksPerDay = 2
  Sizes = {18}
  Prices = {1, 3}
  Costs = {6}
  Times = {1, 2}
  Fractions <- MCFractions
  MaxTrades = 2
SYMMETRY MCSymmetry
INVARIANTS
  RiskLimits
  CashIdentity
  BookTotals
  StreakIsTheLosingTail
CHECK_DEADLOCK FALSE
