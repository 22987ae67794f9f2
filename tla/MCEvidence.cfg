SPECIFICATION Spec
CONSTANTS
  Mints = {m1, m2}
  MinAge = 1
  RelabelAfter = 1
  LabelEvery = 2
  Interval = 1
  TicksPerDay = 2
  MaxTime = 2
  MaxRuns = 1
  MaxCrashes = 1
SYMMETRY MintSymmetry
INVARIANTS
  LabelsMeasureFirstSight
  LabelsAreSpaced
  NewestSnapshotIsRead
CHECK_DEADLOCK FALSE
