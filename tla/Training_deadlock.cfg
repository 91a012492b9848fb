SPECIFICATION TrainingSpec
CONSTANTS
  NumTasks = 2
  NumJobs = 1
  Privileged = {1, 2}
  Priorities = {1}
  MaxRuns = 2
  RankingTasks = {1, 2}
  ClickTasks = {}
  None = None
  Asks = {1, 2}
  MaxLoads = 2
PROPERTY LoadsEnd
CHECK_DEADLOCK FALSE
