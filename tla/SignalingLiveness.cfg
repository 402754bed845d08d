SPECIFICATION FairSpec
CONSTANTS
  Sockets = {s1, s2}
  Rooms = {r1}
  Peers = {p1, p2}
  None = None
  NumWorkers = 2
  MaxRequests = 2
  MaxMicro = 2
  Requests = {"caps", "transport"}
  Disciplined = TRUE
PROPERTIES
  WaitingPeersServed
  DisconnectedPeersLeave
CHECK_DEADLOCK FALSE
