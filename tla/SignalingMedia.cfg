SPECIFICATION Spec
CONSTANTS
  Sockets = {s1, s2}
  Rooms = {r1}
  Peers = {p1, p2, p3}
  None = None
  NumWorkers = 1
  MaxRequests = 4
  MaxMicro = 2
  Requests = {"transport", "produce", "consume"}
  Disciplined = TRUE
SYMMETRY Symmetry
INVARIANTS
  MemberMediaAlive
  KnownProducersLive
PROPERTIES
  AnnouncedByMembers
CHECK_DEADLOCK FALSE
