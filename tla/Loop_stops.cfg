SPECIFICATION LoadSpec
CONSTANTS
  MaxChanges = 2
  MaxFailures = 0
PROPERTY ImportIsLoaded
CHECK_DEADLOCK FALSE
