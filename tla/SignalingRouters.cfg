SPECIFICATION Spec
CONSTANTS
  Sockets = {s1, s2}
  Rooms = {r1, r2}
  Peers = {p1, p2}
  None = None
  NumWorkers = 2
  MaxRequests = 4
  MaxMicro = 2
  Requests = {"transport", "produce", "consume"}
  Disciplined = FALSE
SYMMETRY Symmetry
INVARIANTS
  CachedRouterLive
  RoomIsolation
PROPERTIES
  RoutersOutliveMembers
CHECK_DEADLOCK FALSE
