SPECIFICATION Spec
CONSTANTS
  Job <- ModeJobs
  MaxLeases = 3
  Served = 8
  RequestGaps = {1}
  ConfigTotal = 6
  CardTotal = 6
  Baseline = 1
  ResidentBackend <- NoResidents
  RESIDENT_MIN_MB = 1
  App = {"game"}
  Sampled <- GameSamples
  UserOps <- ModeButtons
  NewPriorities = {}
INVARIANTS NoIdleMemory
PROPERTIES CriticalNotInterrupted NothingPastTheUser
CHECK_DEADLOCK FALSE
