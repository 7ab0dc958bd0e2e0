\* Every component on a small instance of its own; the first state chooses the one that acts.
SPECIFICATION ServicesSpec
CONSTANTS
  ChatPosts = {"p1", "p2"}
  ChatDeletes = {"d1"}
  ChatSessionOf <- OneSession
  ChatLanesOf <- ChatLns
  ToolCalls = {"a1", "a2", "m1"}
  McpCalls = {"m1"}
  ToolSession <- ToolSess
  ToolOrigin <- ToolOrig
  ToolSessions = {"s1"}
  AlwaysAllow <- AllowW1
  OnceClicks = 1
  LaneRounds = 3
  RoundCalls = 3
  LaneFrames = 2
  Councils = {"k1", "k2"}
  Roles = {"believer", "skeptic"}
  CouncilMax = 1
  CouncilKeep = 0
  CouncilRounds = 2
  UnsavedMax = 1
  TicketTries = 1
  CouncilCrashes = 1
  DepNames = {"a", "b", "c"}
  PyManifestLines = 2
  DepCap = 2
  ManifestLines = 4
  TreeFiles <- SmallTrees
  TreeMax = 5
  TreeDepth = 3
  LangCap = 2
  FileLangs = {"TS", "Go", "Rust", "other"}
  ManifestCap = 2
  SectionSizes = {0, 1, 9}
  Budgets = {1, 3, 6, 9, 20}
  Heading = 3
  Marker = 6
  RelayAgents = {"cli", "sdk"}
  LaneTypes <- LaneOfAgent
  RelayAtFirst <- RelayThen
  HandEdits <- EditsByHand
  RelayAccounts = {1, 2}
  FileRuns = {"r1", "r2"}
  FileWriters = {"w1"}
  Packages = {"x"}
  FileEvents = 2
  VaultFiles = {"f1", "f2"}
  VaultVersions = {1, 2}
  ReindexSlots = {1, 2}
  WatchStops = {"s1", "s2"}
  VaultEdits = 5
  VaultProjects = {"p1", "p2"}
  VaultDirs = {"d1", "d2"}
  ProjectEdits = 4
  Transcripts = {"t1"}
  SubAgents = {"t1"}
  RecordKinds = {"warmup", "forge", "user", "sandbox", "tool"}
  RecordSizes = {1, 2, 4}
  TailBytes = 3
  MaxTailBytes = 4
  HeadBytes = 2
  TranscriptSteps = 3
  RepoPaths <- PathsOfRepos
  Runners = {"p1", "w1", "w2", "v1"}
  RunnerRole <- RolesOfRunners
  Targeted = {"w2"}
  TicketEdits = 1
  RunnerThrows = 1
  TicketVersions = 4
  IndexRows <- SomeRows
  RowsMax = 3
  NoteKinds <- KindsOfNotes
  HitsMax = 1
  MaxDecisions = 2
  MaxKnowledge = 1
  BlockSizes = {1, 4}
  BlockMax = 8
  GraphRows <- SomeNodes
  GraphLimits = {0, 1, 4}
  Artifacts <- SomeArtifacts
  TriggerRows = 2
  Segments <- CommandSegments
  SegmentsMax = 3
  BodyLinesMax = 3
  ModelPairs <- RoutedPairs
  PairsMax = 3
  VerifyMarks <- MarksOfReports
  MarksMax = 3
  WallWords = {"-p", "{prompt}", "exec", "--sandbox", "--restricted"}
  SkillOps = {"f1", "f2", "r1", "i1", "i2", "x1", "a1", "a2"}
  Batches <- RequestsTogether
  OpOf <- OpsAsked
  ValidUrls = {"u1", "u2"}
  Offers <- TwoOffers
  OpsAtOnce = 2
  OwnDirs = {"own1"}
  SkillDeaths = 1
  MetaLines = 3
  SkillNames = {"s", "t", "v"}
  SkillCap = 2
  WrittenMax = 3
  WireLanes <- SomeLanes
  ClientOf <- ClientOfLane
  ClientKind <- KindOfClient
  WirePasses = {"w1", "w2"}
  WireEdits = 1
  LaneKeys = 2
  LayaCalls = {"c1", "c2", "c3"}
  LayaConnections = 3
  EmbedBatches = {"b1", "b2", "b3"}
  Retries = 2
  Throttled = 4
  IntervalFloor = 1
  HalveAfter = 2
INVARIANTS TurnsInv CouncilInv ReadsInv FilesInv IngestInv OutsideInv SkillsInv
CHECK_DEADLOCK FALSE
