SPECIFICATION MonitoringSpec
CONSTANTS
  e1 = e1
  e2 = e2
  k1 = k1
  k2 = k2
  Events = {e1, e2}
  Handlers = {h1, h2}
  Once = {h2}
  Hooks = {k1, k2}
  Wanted <- SomeWanted
  Retrying = {k2}
  MaxRetries = 1
  Capacity = 1
  MaxHistory = 1
  MaxSlots = 2
  MaxDispatches = 2
  Peers = {p1, p2}
  Rooms = {r1, r2}
  NoRoom = NoRoom
  Kinds = {latency}
  Latency = latency
  StaleMs = 1
  RetentionMs = 1
  MaxSamples = 1
  MaxNow = 2
  MaxSerial = 2
  MaxBatch = 2
  Members = {m1, m2, m3}
  Figures <- SomeFigures
  Figured = 4
  WindowMs = 3
  BucketCount = 2
  SampleTimes = {0, 1, 2, 3, 4, 5}
  SampleValues = {0, 1, 3}
  Sent = 10
  MaxList = 3
INVARIANTS
  AuditTrailExact
  AuditedBeforeDelivered
  ResultsTruthful
  SteadyHooksServed
  IndexExact
  LostOnlyOldOrExcess
  SnapshotAddsUp
  FiguresExact
PROPERTIES
  PublishedEventsAudited
  BetterNeverScoresLess
CHECK_DEADLOCK FALSE
