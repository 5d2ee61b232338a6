SPECIFICATION SystemSpec
CONSTANTS
  Payment = {p1}
  HasUrl = {p1}
  Worker = {w1, w2}
  MaxRetries = 2
  DeliveryLimit = 0
  PoolSize = 2
  MaxFaults = 0
  MaxCopies = 0
  MaxCommands = 1
  DebugEnv = "unset"
  Nothing = Nothing
CHECK_DEADLOCK FALSE
INVARIANT PublishedReachesItsQueue
