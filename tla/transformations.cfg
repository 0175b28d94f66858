SPECIFICATION Spec
CONSTANTS
  Budgets = {5, 8}
  RrfK = 60
  Ages = {1, 2}
  FetchMultiplier = 4
  MaxRank = 3
  MaxTitle = 2
  MaxSummary = 3
  RecordTypes = {"known"}
  Projects = {"p1"}
  Bodies <- MCBodies
  Rankings <- MCRankings
  MaxLimit = 2
  MaxBatch = 5
  Batches <- MCBatches
  Answers <- MCAnswers
  Candidates <- MCCandidates
  MergeAnswers <- MCMergeAnswers
  Directories <- MCDirectories
  Homes <- MCHomes
  EventRows <- MCEventRows
  RecordRows <- MCRecordRows
  ListLimit = 2
  AllProjects = AllProjects
  NoPath = NoPath
  Missing = Missing
  NotInteger = NotInteger
  None = None
INVARIANTS
  BodiesArrive
  SearchOrderIsRight
  ClusteringIsRight
  XmlRoundTrips
  ProjectsAreRespected
  SchemaEvolves
  ReadersAreServed
  ViewIsTrue
CHECK_DEADLOCK FALSE
