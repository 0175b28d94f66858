SPECIFICATION FairSpec
CONSTANTS
  Slots = {k1, k2}
  MaxLingering = 2
  Requests = {r1, r2}
  Events = {e1, e2}
  DedupMaxSize = 1
  QueueDepth = 1
  MaxRetries = 2
  MaxPosts = 4
  MaxCrashes = 1
  NoEvent = NoEvent
INVARIANTS
  DedupIsHarmless
  StageIsSound
PROPERTIES
  ExtractionEnds
CHECK_DEADLOCK FALSE
