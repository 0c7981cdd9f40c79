SPECIFICATION FairSpec
CONSTANTS
  Configs <- MCConfigs
  Queriers = {"q"}
  Status = "status"
  Control = "control"
  Free = "free"
  RootNames = {"r1", "r2"}
  Addresses = {"a", "b"}
  Lists <- MCLists
  Watched <- MCWatched
  PINGREPEAT = 2
  MaxCommands = 1
INVARIANTS DataGuarded ThreadAwake
PROPERTIES TestsDone
CHECK_DEADLOCK FALSE
