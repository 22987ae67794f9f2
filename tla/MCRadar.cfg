SPECIFICATION RadarSpec
CONSTANTS
  Mints <- MCMints
  MaxRetries = 2
  Batch = 2
  MaxPolls = 2
  MaxDeaths = 1
INVARIANTS
  AnnouncedAtMostOnce
  LossesAreKnown
PROPERTY
  QueueDrains
