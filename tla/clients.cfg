SPECIFICATION FairSpec
CONSTANTS
  Hooks = {h1, h2}
  Calls = {c1}
  MaxAttempts = 2
  MaxAccidents = 1
  NoId = NoId
INVARIANTS
  SessionsAgree
  SavesAreAccounted
PROPERTIES
  ClientsReturn
CHECK_DEADLOCK FALSE
