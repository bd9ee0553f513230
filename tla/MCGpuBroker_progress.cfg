SPECIFICATION FairSpec
CONSTANTS
  Job <- ProgressJobs
  MaxLeases = 4
  Served = 8
  RequestGaps = {1}
  ConfigTotal = 6
  CardTotal = 6
  Baseline = 1
  ResidentBackend <- NoResidents
  RESIDENT_MIN_MB = 1
  App = {"game"}
  Sampled <- QuietSamples
  UserOps <- ProgressButtons
  NewPriorities = {}
PROPERTIES CriticalGetsIn
CHECK_DEADLOCK FALSE
