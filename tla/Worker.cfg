SPECIFICATION WorkerSpec
CONSTANTS
  User = {u1, u2}
  Job = {j1, j2}
  MaxFeedback = 1
  MaxFailures = 1
  NumVectors = 4
  Goroutine = {g1, g2, g3}
  MaxLevel = 1
  EfConstruction = 2
  MaxConnection = 1
  Distance <- Line
  NumTasks = 3
  NumJobs = 2
  Privileged = {1, 2}
  Priorities = {1}
  MaxRuns = 2
  RankingTasks = {2}
  ClickTasks = {1, 3}
  None = None
  Asks = {1, 2, 3}
  MaxLoads = 2
INVARIANTS
  FreshKnowsFeedback
  LinksHold
  BuildsGoOn
  ReadsOneVersion
PROPERTIES
  RoundsCatchUp
  SafeSpec
CHECK_DEADLOCK FALSE
