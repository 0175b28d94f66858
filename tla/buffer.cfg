SPECIFICATION Spec
CONSTANTS
  Projects = {p1, p2}
  Events = {e1, e2, e3, e4}
  ExtractionSizeThreshold = 2
  BufferMaxBytes = 3
  MaxConsecutiveFailures = 2
  ExtractionConcurrency = 1
  MaxCrashes = 2
SYMMETRY Symmetry
INVARIANTS
  CeilingIsKept
  NothingForgotten
  NoLossOutsideRuns
  InFlightMatchesRun
PROPERTIES
  SlotsAreFair
  BreakerHolds
  LedgerKept
CHECK_DEADLOCK FALSE
