SPECIFICATION FairSpec
CONSTANTS
  Client = {"trader", "osac"}
  Priority <- TraderFirst
  Preemptible = {"osac"}
  Impatient = {"osac"}
  Cancellable = {"osac"}
  MaxLeases = 3
  MaxRestarts = 1
INVARIANT WorkIsLeased
PROPERTIES BrokerKeepsItsPromise WaitEnds LeaseDiesWithClient CancelHeard
CHECK_DEADLOCK FALSE
