SPECIFICATION Spec
CONSTANTS
  Job <- InversionJobs
  MaxLeases = 4
  Served = 8
  RequestGaps = {1}
  ConfigTotal = 6
  CardTotal = 6
  Baseline = 1
  ResidentBackend <- NoResidents
  RESIDENT_MIN_MB = 1
  App = {"game"}
  Sampled <- QuietSamples
  UserOps = {}
  NewPriorities = {}
INVARIANTS ReservationWithoutInversion
CHECK_DEADLOCK FALSE
