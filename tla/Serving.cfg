SPECIFICATION ServingSpec
CONSTANTS
  Nil = Nil
  NotFound = NotFound
  Now = 3
  Latest = Latest
  Popular = Popular
  BlankUser <- MCBlankUser
  BlankItem <- MCBlankItem
  PositiveTypes <- MCPositiveTypes
  CacheSize = 3
  NumFeedback = 2
  NumSimilar = 2
  ImageWeight = 2
  Reader = 1
  Readings <- MCReadings
  Published <- MCPublished
  Catalog <- MCCatalog
  Removed = 3
  Fallbacks <- MCFallbacks
  Asked <- MCAsked
  MaxN = 2
  MaxEvents = 5
  Clients = {c1, c2}
  UserTables <- MCUserTables
  UserChanges <- MCUserChanges
  ItemTables <- MCItemTables
  ItemChanges <- MCItemChanges
  FeedbackTables <- MCFeedbackTables
  AutoInsertUser = TRUE
  AutoInsertItem = FALSE
  Fallback <- MCFallback
  WriteBackType = 2
  Categories = {"x"}
  CachedIn <- MCCachedIn
  MaxRequests = 3
  MaxFailures = 1
  InitialSource <- MCSource
  InitialTargets <- MCTargets
  SourceChanges <- MCSourceChanges
  AutoUsers = TRUE
  AutoItems = FALSE
  BatchSize = 2
  MaxChanges = 2
  MaxFaults = 1
INVARIANTS
  TimesCoverChanges
  CacheFollowsStore
  OrphansOnlyAfterRaces
  AnswersAreRight
  RequestsAgree
  MovesAreFaithful
SYMMETRY Alike
CHECK_DEADLOCK FALSE
