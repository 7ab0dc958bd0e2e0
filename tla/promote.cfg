\* Two requests of any kind, overlapping each other but not the start of a run; or two reviews of a change; or
\* the sandbox of a ticket, with two actors; or two tickets and their runs, as a client shows them.
SPECIFICATION ReviewSpec
CONSTANTS
  Requests = {q1, q2, boot}
  Boot = boot
  Routes = {"promote", "approve", "waive", "discard", "cleanup"}
  MaxRuns = 2
  MaxCommits = 2
  MaxCrashes = 1
  Overlap = FALSE
  GateFiles = {"s", "n", "t"}
  GateTests = {"t"}
  GateDocs = {"n"}
  GateCompanions = {"n"}
  GateSchema = {"s"}
  MaxSourceFiles = 2
  GateChanges <- SmallChanges
  GateCommands = 1
  GateLines <- LinesOfFiles
  GateCitations <- TwoCitations
  GateReviews = 2
  SandTickets = {"k1"}
  SandDirs = {"nm", "x"}
  DefaultDirs = {"nm"}
  SandActors = {"a1", "a2"}
  SandWork = 3
  ConTickets = {"t1", "t2"}
  ConRuns = {1, 2}
  TicketOfRun <- OneRunEach
  PollSlots = {s1, s2}
  AskSlots = {"a1"}
  OutputMax = 2
  ConEvents = 2
SYMMETRY Interchangeable
INVARIANTS PromoteInv LandedWasPassed MergeOrReopen ReviewInv SandInv
PROPERTIES PolicyHonoured WorkKept ReconcilesLanded
CHECK_DEADLOCK FALSE
