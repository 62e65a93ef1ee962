SPECIFICATION FSpec
CONSTANTS
  Children = {c1, c2, c3}
  MaxFences = 2
  MaxAdmissions = 2
SYMMETRY Symmetry
PROPERTY WakeFindsAllFinished
CHECK_DEADLOCK FALSE
