SPECIFICATION Spec
CONSTANTS
  Payment = {p1}
  HasUrl = {p1}
  Worker = {w1, w2}
  MaxRetries = 2
  DeliveryLimit = 3
  PoolSize = 2
  MaxFaults = 4
  MaxCopies = 0
  Nothing = Nothing
INVARIANTS ExhaustedReachDlq
CHECK_DEADLOCK FALSE
