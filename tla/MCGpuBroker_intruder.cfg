SPECIFICATION Spec
CONSTANTS
  Job <- QueueJobs
  MaxLeases = 3
  Served = 8
  RequestGaps = {1}
  ConfigTotal = 6
  CardTotal = 6
  Baseline = 1
  ResidentBackend <- NoResidents
  RESIDENT_MIN_MB = 1
  App = {"game"}
  Sampled <- IntruderSamples
  UserOps <- QueueOnly
  NewPriorities = {}
PROPERTIES GrantsFitWhatIsFree
CHECK_DEADLOCK FALSE
