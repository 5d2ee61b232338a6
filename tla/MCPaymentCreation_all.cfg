SPECIFICATION ApiFairSpec
CONSTANTS
  r1 = r1
  r2 = r2
  r3 = r3
  r4 = r4
  k1 = k1
  k2 = k2
  Request = {r1, r2, r3, r4}
  Key = {k1, k2}
  KeyOf <- MCKeyOf
  MaxFaults = 1
  Read = {g1}
  Probe = {h1}
  PoolSize = 2
  Nobody = Nobody
INVARIANTS CreationIndInv OnePaymentPerKey PaymentIffEvent RepliesAreTrue ErrorHasCause ConnectionsAreUsed ReadYourPayment
PROPERTIES EverythingIsAnswered ImplementsIdempotentCreate
CHECK_DEADLOCK FALSE
