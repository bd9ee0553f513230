SPECIFICATION Spec
CONSTANTS
  Job <- QueueJobs
  MaxLeases = 3
  Served = 8
  RequestGaps = {0}
  ConfigTotal = 6
  CardTotal = 6
  Baseline = 1
  ResidentBackend <- NoResidents
  RESIDENT_MIN_MB = 1
  App = {"game"}
  Sampled <- QuietSamples
  UserOps <- QueueButtons
  NewPriorities = {0}
INVARIANTS NoOvercommit OnlyPreemptibleYield
PROPERTIES RoomStaysReserved NoQueueJump CancelStands KeepsItsPromise
CHECK_DEADLOCK FALSE
