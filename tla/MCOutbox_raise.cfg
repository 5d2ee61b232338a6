SPECIFICATION FairSpec
CONSTANTS
  Scheduler = {s1}
  EventId = {1, 2}
  MaxRetries = 2
  BatchLimit = 2
  MaxRaises = 1
  MaxCrashes = 0
  Nobody = Nobody
PROPERTIES EventSettled
