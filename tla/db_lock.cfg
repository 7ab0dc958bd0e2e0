\* Opens one at a time, with kills and recycled pids; or the backups, requests with keys, projects, issues, notes, documents.
SPECIFICATION DataSpec
CONSTANTS
  Procs = {p1, p2, p3, p4}
  None = None
  Serial = TRUE
  StartKnown = TRUE
  MaxKills = 3
  BoardTickets = {1}
  KeepExports = 1
  BackupBoots = 2
  BackupStamps = 3
  AccessKeys = {"k1", "k2"}
  ActorKeys = {"k1"}
  AdminKeys = {}
  AccessRequests = {"q1", "q2"}
  CacheTtl = 1
  FailWindow = 1
  MaxFailures = 2
  MaxBuckets = 1
  AccessCalls = 3
  AccessTime = 2
  BoardProjects = {"p1"}
  LateWriters = {"run", "chunk"}
  Imports <- TwoImports
  Folders = {"d1", "d2"}
  BoardEdits = 6
  HookRows <- HookFolders
  HookRowsMax = 3
  BriefSizes = {1, 2, 4}
  BriefCap = 5
  SectionsMax = 4
  SyncProjects = {"p1", "p2"}
  SyncIssues = {"i1", "i2"}
  SyncTickets = {"t1", "t2"}
  IssueChanges = 2
  TicketChanges = 2
  SyncDeaths = 1
  NoteIds = {"n1"}
  NoteBodies = {"t1", "t2"}
  NoteEditors = {"e1", "e2"}
  NoteSweeps = {"w1"}
  Captures = {"c1"}
  CaptureSlots = 1
  CaptureItems = 1
  NoteVersions = 3
  DocRefs <- TwoDocs
  DocTexts <- TextsOfDocs
  DocsAtFirst <- DocsThen
  DocRuns = {"w1"}
  DocJobs = {"w1"}
  EmbedBatch = 3
  DocEdits = 1
  DocRowIds = {1, 2, 3, 4, 5}
INVARIANTS OneEngine LockInv BackupsInv AccessInv BoardInv KnowledgeInv
PROPERTIES LiveLockKept StaleLockReclaimed
CHECK_DEADLOCK FALSE
