SPECIFICATION Spec
CONSTANTS
  a = a
  b = b
  NoReply = NoReply
  Clients <- MCClients
  MaxRequests = 2
  Window = 2
  Horizon = 3
  MaxNow = 6
  MaxCalls = 6
INVARIANTS WindowBound
PROPERTIES ImplementsSlidingWindow
CHECK_DEADLOCK FALSE
