SPECIFICATION FairSpec
CONSTANTS
  Threads = {t1, t2, t3, t4}
  Control = ctl
  MaxTries = 2
INVARIANTS Exclusion WaitersServed
PROPERTIES ExitEnds
CHECK_DEADLOCK FALSE
