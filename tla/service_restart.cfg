SPECIFICATION FairSpec
CONSTANTS
  Intents = {"start"}
  Faults = {"kill"}
  PoolSize = 2
  MaxInstances = 2
  MaxTasks = 4
  MaxTries = 1
  MaxGen = 1
PROPERTY AdoptsSurvivor
CHECK_DEADLOCK FALSE
