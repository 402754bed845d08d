SPECIFICATION Spec
CONSTANTS
  Sockets = {s1, s2, s3}
  Rooms = {r1, r2}
  Peers = {p1, p2, p3, p4, p5}
  None = None
  NumWorkers = 1
  MaxRequests = 0
  MaxMicro = 3
  Requests = {"room"}
  Disciplined = TRUE
SYMMETRY Symmetry
INVARIANTS
  RosterAgreement
  NoGhosts
  OneMemberPerSocket
CHECK_DEADLOCK FALSE
