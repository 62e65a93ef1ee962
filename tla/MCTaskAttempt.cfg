SPECIFICATION FairSpec
CONSTANTS
  MaxAttempts = 2
  MaxTries = 2
  MaxGeneration = 3
  CanPause = TRUE
  CanCancel = TRUE
INVARIANTS
  CapacityFollowsAttempt
  PausedIsDrained
  FinishedIsWoken
PROPERTY AttemptEnds
CHECK_DEADLOCK FALSE
