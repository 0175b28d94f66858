SPECIFICATION PatientSpec
CONSTANTS
  Slots = {k1}
  MaxLingering = 1
  Requests = {r1}
  Events = {e1}
  DedupMaxSize = 1
  QueueDepth = 1
  MaxRetries = 1
  MaxPosts = 1
  MaxCrashes = 0
  NoEvent = NoEvent
PROPERTY ExtractionEnds
CHECK_DEADLOCK FALSE
