SPECIFICATION CacheSpec
CONSTANTS
  None = None
  Names <- MCNames
  Up <- MCUp
  Star <- MCStar
  Types <- MCTypes
  Ext <- MCExt
  Data <- MCData
  Answers <- MCAnswers
  Local <- MCLocal
  Records <- MCRecords
  Negations <- MCNegations
  Min_ttl = 1
  Max_ttl = 2
  Neg_ttl = 0
  CACHE_LAT = 1
  Perm = 7
  MCSZ = 3
  MemoryFails = TRUE
  MaxTime = 2
  MaxOps = 4
  Selections <- MCSelections
INVARIANTS Accounted NoConflict EmptyComplete
PROPERTIES LocalKept
CHECK_DEADLOCK FALSE
