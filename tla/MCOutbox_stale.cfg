SPECIFICATION Spec
CONSTANTS
  Scheduler = {s1, s2}
  EventId = {1, 2}
  MaxRetries = 2
  BatchLimit = 2
  MaxRaises = 0
  MaxCrashes = 0
  Nobody = Nobody
PROPERTIES PublishedMarkStays
