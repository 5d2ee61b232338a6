SPECIFICATION Spec
CONSTANTS
  Payment = {p1}
  HasUrl = {p1}
  Worker = {w1, w2}
  MaxRetries = 2
  DeliveryLimit = 0
  PoolSize = 2
  MaxFaults = 0
  MaxCopies = 1
  Nothing = Nothing
PROPERTIES OutcomeIsFinal
CHECK_DEADLOCK FALSE
