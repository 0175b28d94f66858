SPECIFICATION CompactionSpec
CONSTANTS
  Projects = {p1, p2}
  Events = {e1, e2, e3, e4}
  ExtractionSizeThreshold = 1
  BufferMaxBytes = 3
  MaxConsecutiveFailures = 1
  ExtractionConcurrency = 1
  MaxCrashes = 1
  CompactionSizeThreshold = 1
  MaxConsecutiveModelFailures = 1
  MaxSummaryLines = 3
SYMMETRY Symmetry
INVARIANTS
  WorkerConsistent
  CeilingIsNearlyKept
  OnlyOverlapsHarm
CHECK_DEADLOCK FALSE
