\* Approve and promote after a second run that never got to its review.
SPECIFICATION Spec
CONSTANTS
  Requests = {q1, q2, boot}
  Boot = boot
  Routes = {"promote", "approve"}
  MaxRuns = 2
  MaxCommits = 1
  MaxCrashes = 0
  Overlap = FALSE
INVARIANTS ProtectedNeedsWaiver
CHECK_DEADLOCK FALSE
