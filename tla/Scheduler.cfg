SPECIFICATION Spec
CONSTANTS
  NumTasks = 4
  NumJobs = 2
  Privileged = {1}
  Priorities = {1}
  MaxRuns = 1
INVARIANTS
  JobsAccounted
  WakerAwake
  WorkConserving
PROPERTIES
  ImplementsPool
  AskerWorks
