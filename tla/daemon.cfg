SPECIFICATION FairSpec
CONSTANTS
  Operators = {alice, bob}
  Pids = {1, 2, 3}
  NoPid = NoPid
  MaxCommands = 3
  MaxAccidents = 2
INVARIANTS
  OneCollector
PROPERTIES
  DataSurvives
  CommandsSucceed
CHECK_DEADLOCK FALSE
