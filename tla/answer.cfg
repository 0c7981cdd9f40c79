SPECIFICATION Spec
CONSTANTS
  MaxRequests = 3
  MaxFaults = 2
  proc_limit = 1
  procq_limit = 1
  MAX_HOPS = 1
  UDP_BUFSIZE = 4
  udpbufsize = 7
  Names <- MCNames
  Values <- MCValues
  Messages <- MCMessages
  Resolve <- MCResolve
  Cached <- MCCached
  LocalOwner <- MCLocalOwner
  None = None
INVARIANTS ThreadsAccounted KeepsToLimit RepliesTrue
PROPERTIES ThreadsEnd
