SPECIFICATION Spec
CONSTANTS
  m1 = m1
  m2 = m2
  m3 = m3
  m4 = m4
  s1 = s1
  s2 = s2
  r1 = r1
  r2 = r2
  x1 = x1
  x2 = x2
  w1 = w1
  Messages = {m1, m2, m3}
  Uploads = {}
  Reviews = {r1}
  Runs = {}
  Signals = {}
  Waiters = {}
  CancelKinds = {}
  InputTurns = {}
  MaxPending = 2
  MaxUnread = 2
  MaxResumes = 1
  CanDestroy = FALSE
  MaxTurns = 4
  MaxGeneration = 3
  MaxClock = 0
  MaxRetained = 3
  Retention = 5
  SignalKind <- SignalKinds
INVARIANT LeaseFollowsTurn
SYMMETRY Symmetry
