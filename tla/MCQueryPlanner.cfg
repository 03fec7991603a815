SPECIFICATION CallerSpec
CONSTANTS
  MinTime = 0
  MaxTime = 4
  Instruments = {1, 2}
  Providers = {"databento"}
  Venues = {1, 2}
  Sources = {1}
  ProviderIds = {1}
  MaxMappings = 2
  ProviderName = "databento"
  CacheAnswers = {"miss", "other"}
  Queries <- MCQueries
  OneMinute = 2
  Target = 1
  HardCeiling = 3
  Infinity = 5
  Costs <- MCCosts
  Requests <- MCRequests
INVARIANTS
  PlannerInv
  PlanPartitionsTheRequest
  PlanOrderIsTotal
  FetchCoversTheMargin
  AcceptedOncePerShape
  FetchedAsEstimated
PROPERTY ReplanExtends
CHECK_DEADLOCK FALSE
