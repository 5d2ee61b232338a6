SPECIFICATION ApiSpec
CONSTANTS
  r1 = r1
  r2 = r2
  r3 = r3
  r4 = r4
  k1 = k1
  k2 = k2
  Request = {r1, r2, r3, r4}
  Key = {k1, k2}
  KeyOf <- MCKeyOf
  MaxFaults = 0
  Read = {}
  Probe = {}
  PoolSize = 15
  Nobody = Nobody
INVARIANT DuplicateGetsThePayment
CHECK_DEADLOCK FALSE
