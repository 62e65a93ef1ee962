SPECIFICATION LiveSpec
CONSTANTS
  Reviews = {r1}
  Waiters = {}
  InputTurns = {1}
  Replies = {yes}
  Releases = {"deadline", "recovered"}
  MaxRelease = 2
  MaxTurns = 3
  MaxGeneration = 2
  MaxWatch = 1
PROPERTIES
  CancelledTurnReports
  DeliveredEnds
CHECK_DEADLOCK FALSE
