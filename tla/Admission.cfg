SPECIFICATION FocusSpec
CONSTANTS
  ip = ip
  global = global
  Keys = {ip, global}
  WindowMs <- SomeWindow
  MaxRequests <- SomeMaximum
  None = None
  MaxNow = 5
  MaxSerial = 4
  Global = global
  Forgotten = Forgotten
  Peers = {p1, p2}
  transports = transports
  producers = producers
  Kinds = {transports, producers}
  MaxSlots <- SomeSlots
  JoinWindow = 3
  MaxJoins = 2
  MaxPeersPerRoom = 2
  NameLengths = {0, 1, 3}
  MaxNameLength = 2
  MaxCalls = 5
  r1 = r1
  padded = padded
  dash = dash
  RoomIds = {r1, padded, dash}
  Trim <- SomeTrim
  WellFormed = {r1}
  Secrets = {old, new}
  Secret = old
  Grants <- SomeGrants
  Ttls <- SomeTtls
  MaxTtl = 2
  Skew = 1
  Capacity = 1
  AnonymousJoin = TRUE
  AnonymousCreate = FALSE
  TokenRequired = FALSE
  Nobody = Nobody
  Start = 2
  MaxSecond = 8
  MaxTokens = 1
INVARIANTS
  RetryAfterExact
  QuotaPaid
  PeerLimitsExact
  UsableForItsLifetime
  ChecksAgree
PROPERTIES
  ContractSpec
CHECK_DEADLOCK FALSE
