SPECIFICATION Spec
CONSTANTS
  m1 = m1
  m2 = m2
  m3 = m3
  m4 = m4
  s1 = s1
  s2 = s2
  r1 = r1
  r2 = r2
  x1 = x1
  x2 = x2
  w1 = w1
  Messages = {m1, m2, m3}
  Uploads = {}
  Reviews = {}
  Runs = {x1}
  Signals = {}
  Waiters = {w1}
  CancelKinds = {"CoordinatorOnly", "TaskTree", "request"}
  InputTurns = {}
  MaxPending = 2
  MaxUnread = 2
  MaxResumes = 1
  CanDestroy = TRUE
  MaxTurns = 3
  MaxGeneration = 3
  MaxClock = 1
  MaxRetained = 1
  Retention = 1
  SignalKind <- SignalKinds
INVARIANT NoSecondAdmission
INVARIANT AcceptedRunIsMarked
PROPERTY OnlyCancelLiftsFence
SYMMETRY Symmetry
CHECK_DEADLOCK FALSE
