SPECIFICATION FairSpec
CONSTANTS
  Events = {e1, e2}
  Handlers = {h1}
  Once = {h1}
  Hooks = {}
  Wanted <- AllWanted
  Retrying = {}
  MaxRetries = 0
  Capacity = 2
  MaxHistory = 1
  MaxSlots = 0
  MaxDispatches = 2
INVARIANTS
  OnceRunsOnce
CHECK_DEADLOCK FALSE
