SPECIFICATION FairSpec
CONSTANTS
  Scheduler = {s1, s2}
  EventId = {1, 2}
  MaxRetries = 2
  BatchLimit = 2
  MaxRaises = 1
  MaxCrashes = 1
  Nobody = Nobody
INVARIANTS NoEventStranded LockedCopyIsFresh IndInv
PROPERTIES SentIsFinal RelayIsAtLeastOnce EventSettledWhileRelaying
