SPECIFICATION Spec
CONSTANTS
  Projects = {p1}
  Events = {e1, e2}
  ExtractionSizeThreshold = 2
  BufferMaxBytes = 3
  MaxConsecutiveFailures = 2
  ExtractionConcurrency = 1
  MaxCrashes = 0
INVARIANT BufferKeepsWaitingEvents
CHECK_DEADLOCK FALSE
