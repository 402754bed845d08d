SPECIFICATION MetricsSpec
CONSTANTS
  Sockets = {s1}
  Rooms = {r1}
  Peers = {p1}
  None = None
  CallerNames = {"joined", "spare"}
  MaxEvents = 1
INVARIANTS
  StandardMetricsRegistered
