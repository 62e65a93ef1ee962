SPECIFICATION Spec
CONSTANTS
  Reviews = {r1, r2}
  Waiters = {w1}
  InputTurns = {1}
  Replies = {yes}
  Releases = {"deadline", "recovered", "security"}
  MaxRelease = 2
  MaxTurns = 4
  MaxGeneration = 2
  MaxWatch = 3
SYMMETRY Symmetry
INVARIANTS
  ReportedWhenSettled
  InstructionsAreServed
  NoReportWhileHeld
  RegisteredCanContinue
  OneLiveTurn
  OutstandingIsScheduled
  ParkedIsAnswerable
PROPERTY ImplementsLife
CHECK_DEADLOCK FALSE
