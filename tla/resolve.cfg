SPECIFICATION Spec
CONSTANTS
  None = None
  Names <- MCNames
  Configured <- MCConfigured
  World <- MCWorld
  Queries <- MCQueries
  Local <- MCLocal
  Above <- MCAbove
  MAX_HOPS = 2
  LndownKluge = TRUE
  MaxQueries = 2
  MaxEvents = 1
INVARIANTS NoCircle NotAskedTwice LocalFirst
PROPERTIES QueryEnds
CHECK_DEADLOCK FALSE
