SPECIFICATION SystemFairSpec
CONSTANTS
  Payment = {p1}
  HasUrl = {p1}
  Worker = {w1, w2}
  MaxRetries = 1
  DeliveryLimit = 1
  PoolSize = 1
  MaxFaults = 1
  MaxCopies = 1
  MaxCommands = 3
  DebugEnv = "unset"
  Nothing = Nothing
INVARIANTS NoOtherLoss SchemaIsWholeOrNone NoStatementFails
PROPERTIES PaymentSettles ImplementsPaymentLife
CHECK_DEADLOCK FALSE
