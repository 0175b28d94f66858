SPECIFICATION CompactionFairSpec
CONSTANTS
  Projects = {p1, p2}
  Events = {e1, e2}
  ExtractionSizeThreshold = 2
  BufferMaxBytes = 2
  MaxConsecutiveFailures = 1
  ExtractionConcurrency = 1
  MaxCrashes = 1
  CompactionSizeThreshold = 0
  MaxConsecutiveModelFailures = 1
  MaxSummaryLines = 2
PROPERTIES
  OnlyCallsHoldRuns
  BufferedIsProcessed
CHECK_DEADLOCK FALSE
