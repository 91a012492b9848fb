SPECIFICATION FairVisibilitySpec
CONSTANTS
  Item = {i1}
  Client = {c1, c2}
  MaxRequests = 3
  MaxFailures = 1
INVARIANTS
  UndisturbedRemovalHolds
PROPERTIES
  LatestShowsOnlyVisible
  LatestShowsAll
