SPECIFICATION ServerSpec
CONSTANTS
  Sockets = {s1, s2}
  Rooms = {r1, r2}
  Peers = {p1, p2, p3}
  None = None
  CallerNames = {"joined", "spare"}
  MaxEvents = 1
  Concurrency = 2
  MaxHosts = 3
  Elsewhere = {printer}
  Idle = Idle
  WorkerCount = 2
  Signals = {SIGINT, SIGTERM}
  FewPeers = {p1, p2}
  OneRoom = r1
  OneSocket = s1
  OnePeer = p1
  OneSignal = SIGINT
  Inquiries = {q1, q2}
  Selections <- SomeSelections
  MaxRooms = 1
  MaxPeersListed = 1
  Nothing = Nothing
INVARIANTS
  MembershipAgrees
  OccupiedRoomsListed
  OneInstrumentPerName
  ScrapeCurrent
  InitializedMeansRegistered
  ScanExact
  CleanExit
  LateJoinersOnly
PROPERTIES
  DirectorySpec
  SignalEndsProcess
  ScanEnds
  DiagnosticsCurrent
  DiagnosticsEnd
