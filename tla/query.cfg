SPECIFICATION QuerySpec
CONSTANTS
  Nothing = Nothing
  N = 2
  ParQueries = 1
  Methods = {"UDP_TCP", "TCP_UDP"}
  Kind <- MCKind
  Messages <- MCMessages
  Within <- MCWithin
  QName = "a.b"
  QType = "A"
  Root = ""
  DelegOnly = {"b"}
  NegDomain = "auth"
  RejectNegates = FALSE
  Hops = 1
  MaxStray = 1
INVARIANTS ResourcesOwned RightAnswer ServersSpared
PROPERTIES AllAsked Ends
CHECK_DEADLOCK FALSE
