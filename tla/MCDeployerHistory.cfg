\* The run ends when the result is out.
SPECIFICATION HistorySpec
CHECK_DEADLOCK FALSE
CONSTANTS
  Kinds <- MCKinds
  Nodes <- MCNodes
  Risks <- MCRisks
  Wallet = Wallet
  None = None
  other = other
  m1 = m1
  m2 = m2
  m3 = m3
  primary = primary
  fallback = fallback
  PageLimit = 2
  MaxPages = 2
  MaxInspections = 2
  MaxLen = 4
SYMMETRY MCSymmetry
INVARIANTS
  CreatorIsOldestKept
  CountIsAFloor
