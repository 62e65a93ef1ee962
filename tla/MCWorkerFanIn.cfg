SPECIFICATION FSpec
CONSTANTS
  Children = {c1, c2, c3}
  MaxFences = 2
  MaxAdmissions = 2
SYMMETRY Symmetry
INVARIANTS
  OneWakePerGeneration
  AllTerminalIsSettled
PROPERTY WakeIsEarned
CHECK_DEADLOCK FALSE
