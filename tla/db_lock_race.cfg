\* Two openers find the lock of a killed process at the same time.
SPECIFICATION Spec
CONSTANTS
  Procs = {p1, p2, p3}
  None = None
  Serial = FALSE
  StartKnown = TRUE
  MaxKills = 1
INVARIANTS OneEngine
CHECK_DEADLOCK FALSE
