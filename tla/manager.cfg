SPECIFICATION Spec
CONSTANTS
  Requests = {"newnym", "exit", "hup"}
  MaxCalls = 3
  MaxInstances = 2
  MaxPending = 2
INVARIANTS IInv OnIsReal StoppedMeansNoService
CHECK_DEADLOCK FALSE
