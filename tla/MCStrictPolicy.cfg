SPECIFICATION CallerSpec
CONSTANTS
  MinTime = 0
  MaxTime = 4
  Instruments = {1}
  Providers = {"databento"}
  Venues = {1}
  Sources = {1}
  ProviderIds = {1}
  MaxMappings = 1
  ProviderName = "databento"
  CacheAnswers = {"miss"}
  Queries <- MCQueries
  OneMinute = 2
  Target = 1
  HardCeiling = 3
  Infinity = 5
  Costs <- MCCosts
  Requests <- MCRequests
INVARIANT StrictPolicyFails
CHECK_DEADLOCK FALSE
