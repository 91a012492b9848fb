SPECIFICATION BackgroundSpec
CONSTANTS
  StoredUsers <- MCStoredUsers
  StoredItems <- MCStoredItems
  StoredFeedback <- MCStoredFeedback
  MaxFeedback = 3
  PosTypes = {"like", "star"}
  ReadTypes = {"read"}
  Today = 10
  ItemTTL = 7
  FeedbackTTL = 5
  PopularWindow = 5
  EvaluateDays = 4
  CacheSize = 1
  NumGroups = 2
  MaxLost = 1
  Nodes = {1, 2, 3}
  Content <- MCContent
  Ways <- MCWays
  Types = {"auto"}
  Indexed = {FALSE, TRUE}
  NumLabels = 2
  NumFeedback = 2
  Ln <- MCLn
  Inserted = {1}
  Shrink = 1
  KeepsHidden = {FALSE, TRUE}
  NeighborsSize = 1
  CacheExpire = 0
  MaxClock = 2
  NumSearchers = 1
  MaxRuns = 2
  MaxTrouble = 1
  MaxChanges = 2
  MaxFailures = 1
  Fitting = {"f1", "f2"}
  Searching = {"s"}
  Posters = {"a", "b"}
  MaxPosts = 4
  Kind = {"ranking", "click"}
  MaxFits = 2
  MaxSearched = 1
  MaxRestarts = 1
  Spread = 10
  Large <- EverySecond
  Workers = {w1, w2}
  Servers = {s1}
  Clusters = {{}, {w1, w2}, {s1}}
  Users = {"u1", "u2"}
  Ring <- MCRing
  Configs <- MCConfigs
  ViaMaster = {"sqlite"}
  MetaTimeout = 1
  MaxTime = 2
  MaxNames = 3
  MaxIncidents = 3
  Settings <- MCSettings
  Worlds <- MCWorlds
  ListSize = 3
  NumSimilar = 2
  EfConstruction = 2
  ItemDigest = "I"
  UserDigest = "U"
  PositiveDecay = 80
  ReadDecay = 60
  Geometries <- MCGeometries
  NumVectors = 4
  NumNeighbors = 2
  ErrorPercent = 5
  MaxIteration = 2
  RecallPercent = 80
  MaxTrials = 2
  LoadedData <- MCLoadedData
  Families = {"ranking", "click"}
  Grid <- MCGrid
  NumTrials = 2
  OtherIsFitted = TRUE
  Epochs <- MCEpochs
  Verbose = 2
  ScoreRange = {0, 1}
INVARIANTS
  DataIsLoaded
  SearchedAreExact
  RunsCoverModifications
  NoImportForgotten
  RoundsDoWhatWasAsked
  QuietFileIsCache
  ClusterAgrees
  RecommendationsAreFit
  DigestTellsTruth
  SearchIsExactAtLimits
  BestIsKept
  OwnRowsAreRead
CHECK_DEADLOCK FALSE
