SPECIFICATION Spec
CONSTANTS
  Client = {"trader", "osac"}
  Priority <- TraderFirst
  Preemptible = {"osac"}
  Impatient = {}
  Cancellable = {}
  MaxLeases = 4
  MaxRestarts = 0
INVARIANT WeHaveTheGpuAlready
CHECK_DEADLOCK FALSE
