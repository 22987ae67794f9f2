\* The run ends when the result is out.
SPECIFICATION Spec
CHECK_DEADLOCK FALSE
CONSTANTS
  None = None
  Failed = Failed
  Unasked = Unasked
  Waiting = Waiting
  ZeroKey = ZeroKey
  Incinerator = Incinerator
  whale = whale
  vault = vault
  pool = pool
  fish = fish
  key = key
  AllowedExtensions = {"metadataPointer", "tokenMetadata", "groupPointer", "tokenGroup", "groupMemberPointer", "tokenGroupMember"}
  QuoteMints = {"sol", "usdc"}
  TopN = 2
  MaxLate = 0
  Raw <- MCRaw
INVARIANTS
  BuyableMeansMeasured
  LostEvidenceNeverHelps
PROPERTY
  ImplementsGate
