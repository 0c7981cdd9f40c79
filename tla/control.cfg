\* The connection really stops: the commands are used up, or Tor is gone and the
\* callers that still wait for a reply wait for ever.
SPECIFICATION FairSpec
CONSTANTS
  Callers = {c1, c2}
  None = None
  MaxCommands = 3
  MaxShared = 2
  MaxEvents = 1
  MaxParsers = 2
INVARIANTS IInv HeadReplyFindsItsWaiter
PROPERTIES ImplementsChannel CallReturns
CHECK_DEADLOCK FALSE
