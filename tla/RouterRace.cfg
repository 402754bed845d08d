SPECIFICATION Spec
CONSTANTS
  Sockets = {s1, s2}
  Rooms = {r1}
  Peers = {p1, p2}
  None = None
  NumWorkers = 2
  MaxRequests = 2
  MaxMicro = 2
  Requests = {"caps"}
  Disciplined = TRUE
SYMMETRY Symmetry
INVARIANTS
  OneRouterPerRoom
CHECK_DEADLOCK FALSE
