SPECIFICATION FairSpec
CONSTANTS
  Intents = {"start", "hup", "newnym", "exit", "stop"}
  Faults = {"config", "giveup", "death", "network"}
  PoolSize = 1
  MaxInstances = 1
  MaxTasks = 3
  MaxTries = 1
  MaxGen = 1
PROPERTIES StopCompletes IntentsServed
CHECK_DEADLOCK FALSE
