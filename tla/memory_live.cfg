SPECIFICATION FairSpec
CONSTANTS
  Callers = {"run", "backfill", "s1"}
  Searchers = {"s1"}
  MaxAbandoned = 1
  Ids = {1, 2}
  Namespaces = {"project"}
  NamespaceOf <- MCNamespaceOf
  Queries = {{1, 2}}
  OldRecords = {1}
  Poison = {1}
  BatchSize = 2
  CircuitBreakerFailures = 2
  MaxCrashes = 1
  NoIndex = NoIndex
PROPERTIES
  BackfillCatchesUp
  ShutdownIsClean
CHECK_DEADLOCK FALSE
