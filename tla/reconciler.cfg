SPECIFICATION FairSpec
CONSTANTS
  Events = {e1, e2}
  Ids = {1,2,3,4}
  MaxCandidates = 2
  NeighborPoolMaxSize = 2
  MaxConsecutiveFailures = 2
  ReconciliationEnabled = TRUE
  MaxDisturbances = 1
INVARIANTS
  EventsAccounted
  BatchConsistent
  NeighborsAreCurrent
  JudgeBreakerWorks
PROPERTIES
  ProvenanceKept
  OnlyCallsHoldRuns
CHECK_DEADLOCK FALSE
