SPECIFICATION WorkbenchSpec
CONSTANTS
  Job <- MemoryJobs
  MaxLeases = 2
  Served = 8
  RequestGaps = {1}
  ConfigTotal = 6
  CardTotal = 6
  Baseline = 1
  ResidentBackend <- OneResident
  RESIDENT_MIN_MB = 1
  App = {"game"}
  Sampled <- MemorySamples
  UserOps <- MemoryButtons
  NewPriorities = {}
  HistoryJob = {"training", "chat"}
  BURST_GAP = 1
  MaxTurns = 3
  MaxInstant = 3
  Content = {"x", "y"}
  FINISHED_KEEP = 3
  MaxTasks = 2
  Program = {mcp, watcher}
  Marker = {"todo", "fixme"}
  Spoilt = {"fixme"}
  Headings <- OwnHeadings
  MaxId = 3
  MaxChanges = 1
  MaxCalls = 3
  Thread = {"poll", "command"}
  Size = {1, 2}
  SETTLE = 1
  MaxTick = 2
  MaxWrites = 2
  Name = {"app", "app2"}
  Path = {"src", "lib"}
  Begins <- App2BeginsWithApp
  CHUNK_LINES = 3
  MIN_CHUNK_LINES = 2
  MAX_FUNCTION_LINES = 5
  MAX_CHUNK_FOR_FUNCTIONS = 3
  BlankWindow = 1
  MaxLines = 8
  Port = {50051, 50052}
  MaxDaemons = 2
  MaxCommands = 1
  MaxDay = 1
SYMMETRY ProgramsAlike
INVARIANTS TypeOK FailuresStandOut BurstsAreRows ProgressTellsTheList FinishedIsKept
INVARIANTS IdsAreUnique WorkFollows ChunksTile FoundByItsFile OneBriefingADay
PROPERTIES LeasedEngineNotAsked NotAskedAgain SyncSettles NoSilentDelete HitIsCurrent
CHECK_DEADLOCK FALSE
