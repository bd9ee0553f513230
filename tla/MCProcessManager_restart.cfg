SPECIFICATION Spec
CONSTANTS
  Service = {"api"}
  Enabled <- OneService
  Caller = {"desktop"}
  MaxProcesses = 3
INVARIANT OneProcess
