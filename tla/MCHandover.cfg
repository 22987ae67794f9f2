SPECIFICATION HandoverSpec
CONSTANTS
  Unknown = Unknown
  None = None
  QuoteMints = {"sol", "usdc"}
  WSOL = "sol"
  Universe <- MCUniverse
  Momentum <- MCMomentum
  ExpectedMove = 25
  Size = 100
  FeeSol = 1
  RouterFee = 1
  SolFallback = 2
  MaxPositions = 1
  Tokens = {"token", "sol"}
  Pairs <- MCPairs
  Gates <- MCGates
  Survives = {TRUE}
  HealthyFor = 1
  MaxClock = 2
CHECK_DEADLOCK FALSE
INVARIANTS
  EntryIsEarned
  SignalsSurviveTheFile
  FreshPriceWins
