SPECIFICATION FairVisibilitySpec
CONSTANTS
  Item = {i1}
  Client = {c1}
  MaxRequests = 3
  MaxFailures = 0
PROPERTY OfflineShowsOnlyVisible
