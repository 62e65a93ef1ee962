SPECIFICATION Spec
CONSTANTS
  Reviews = {r1, r2}
  Waiters = {}
  InputTurns = {}
  Replies = {yes}
  Releases = {"deadline"}
  MaxRelease = 1
  MaxTurns = 3
  MaxGeneration = 1
  MaxWatch = 1
INVARIANT EveryTerminalReported
CHECK_DEADLOCK FALSE
