SPECIFICATION FairSpec
CONSTANTS
  MaxAttempts = 2
  MaxTries = 2
  MaxGeneration = 3
  CanPause = FALSE
  CanCancel = TRUE
PROPERTY RunCancelEnds
CHECK_DEADLOCK FALSE
