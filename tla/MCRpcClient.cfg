SPECIFICATION Spec
CONSTANTS
  Calls = {c1, c2}
  Tasks <- MCTasks
  RequestsPerMinute = 2
  WindowMs = 2
  MaxAttempts = 2
  HasFallback = TRUE
  BackoffBaseMs = 1
  MaxTime = 2
INVARIANTS
  TypeOK
  WindowHolds
  EveryAttemptPays
PROPERTIES
  FailureNotCached
  QueuedCallsStart
CHECK_DEADLOCK FALSE
