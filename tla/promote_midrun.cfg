\* One promote, and a run that starts while it is being served.
SPECIFICATION Spec
CONSTANTS
  Requests = {q1, boot}
  Boot = boot
  Routes = {"promote"}
  MaxRuns = 2
  MaxCommits = 1
  MaxCrashes = 0
  Overlap = TRUE
PROPERTIES PromoteWhileIdle
CHECK_DEADLOCK FALSE
