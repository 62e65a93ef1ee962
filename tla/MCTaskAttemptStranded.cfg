SPECIFICATION FairSpec
CONSTANTS
  MaxAttempts = 1
  MaxTries = 2
  MaxGeneration = 3
  CanPause = FALSE
  CanCancel = FALSE
PROPERTY CapacityIsReturned
CHECK_DEADLOCK FALSE
