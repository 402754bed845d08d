SPECIFICATION StayingSpec
CONSTANTS
  Sockets = {s1, s2}
  Rooms = {r1}
  Peers = {p1, p2}
  None = None
  NumWorkers = 1
  MaxRequests = 1
  MaxMicro = 2
  Requests = {"caps"}
  Disciplined = TRUE
SYMMETRY Symmetry
INVARIANTS
  NoRouterWithoutRoom
CHECK_DEADLOCK FALSE
