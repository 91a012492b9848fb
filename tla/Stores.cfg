SPECIFICATION StoresSpec
CONSTANTS
  Nil = Nil
  NotFound = NotFound
  Now = 2
  BlankUser <- MCBlankUser
  BlankItem <- MCBlankItem
  UserBatches <- MCUserBatches
  ItemBatches <- MCItemBatches
  FeedbackBatches <- MCFeedbackBatches
  UserPatches <- MCUserPatches
  ItemPatches <- MCItemPatches
  FeedbackTypes <- MCFeedbackTypes
  Times = {1, 2}
  Scans <- MCScans
  PageSizes = {2}
  MaxWrites = 3
  Label = Label
  Category = Category
  AnySubset = ""
  PageLimit = 1
  DefaultRows = 2
  ValueBatches <- MCValueBatches
  SetNames = {"n"}
  Members = {"x", "y"}
  QueueNames = {"q"}
  Messages = {"x", "y"}
  DocumentSets <- MCDocumentSets
  Patches <- MCPatches
  Conditions <- MCConditions
  PointSets <- MCPointSets
  Searches <- MCSearches
  MaxCalls = 4
  PageSize = 1
  DocumentKeys <- MCDocKeys
  NewRows <- MCNewRows
  Queries <- MCQueries
  RedisPatch <- MCRedisPatch
  MaxCommands = 4
INVARIANTS
  PagesMissNothing
  QueriesAgree
  ProxyKeepsData
  CacheStoresAgree
PROPERTIES
  StoresKeepPromises
CHECK_DEADLOCK FALSE
