SPECIFICATION FairSpec
CONSTANTS
  Scheduler = {s1}
  EventId = {1, 2, 3}
  MaxRetries = 2
  BatchLimit = 2
  MaxRaises = 1
  MaxCrashes = 1
  Nobody = Nobody
INVARIANTS TypeOK RowCoherent NoSpuriousDuplicate
PROPERTIES DeadLetterIsFinal PublishedMarkStays EventSettledWhileRelaying
