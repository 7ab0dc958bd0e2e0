\* A call for the instance of a worker that has just died.
SPECIFICATION Spec
CONSTANTS
  Batches = {b1}
  Acts = {}
  None = None
  MaxInstances = 2
  MaxDeaths = 1
  MaxRestarts = 0
  Relinks = FALSE
INVARIANTS CollectedOnWake
CHECK_DEADLOCK FALSE
