SPECIFICATION Spec
CONSTANTS
  Payment = {p1}
  HasUrl = {p1}
  Worker = {w1, w2, w3}
  MaxRetries = 2
  DeliveryLimit = 1
  PoolSize = 2
  MaxFaults = 1
  MaxCopies = 1
  Nothing = Nothing
SYMMETRY WorkerSymmetry
CONSTRAINT FewRepeats
INVARIANTS ConsumerTypeOK PendingIsInHand MerchantIsInformed WebhookIsTrue EffectsAreCounted
PROPERTIES DecidedIsFinal
CHECK_DEADLOCK FALSE
