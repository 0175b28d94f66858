SPECIFICATION Spec
CONSTANTS
  Callers = {"run", "backfill", "s1"}
  Searchers = {"s1"}
  MaxAbandoned = 1
  Ids = {1, 2, 3}
  Namespaces = {"project"}
  NamespaceOf <- MCNamespaceOf
  Queries = {{1, 2, 3}}
  OldRecords = {1, 2}
  Poison = {}
  BatchSize = 2
  CircuitBreakerFailures = 2
  MaxCrashes = 1
  NoIndex = NoIndex
INVARIANTS
  StateConsistent
  CacheFresh
  SearchIsCurrent
CHECK_DEADLOCK FALSE
