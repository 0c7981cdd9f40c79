SPECIFICATION Spec
CONSTANTS
  Intents = {"start", "stop"}
  Faults = {"cookie", "kill", "launch"}
  PoolSize = 2
  MaxInstances = 2
  MaxTasks = 4
  MaxTries = 1
  MaxGen = 2
INVARIANTS IInv
PROPERTIES LaunchedByCurrent KeepsStatusPromise
CHECK_DEADLOCK FALSE
