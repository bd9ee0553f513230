SPECIFICATION FairSpec
CONSTANTS
  Service = {"api", "web"}
  Enabled <- TwoServices
  Caller = {"desktop"}
  MaxProcesses = 2
INVARIANTS AliveIsKnown
PROPERTIES ExitedIsGone KeepsItsLedger CallsReturn DeadIsNoticed
CHECK_DEADLOCK FALSE
