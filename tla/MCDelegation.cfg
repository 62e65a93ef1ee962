SPECIFICATION DSpec
CONSTANTS
  Reviews = {r1}
  Waiters = {}
  InputTurns = {1}
  Replies = {yes}
  Releases = {"deadline"}
  MaxRelease = 1
  MaxTurns = 3
  MaxGeneration = 2
  MaxWatch = 1
INVARIANTS
  DeliveryIsNew
  AcknowledgedIsKept
  FirstReportIsAccepted
  TargetIsAnswerable
CHECK_DEADLOCK FALSE
