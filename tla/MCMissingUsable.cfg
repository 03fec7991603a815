SPECIFICATION Spec
CONSTANTS
  MinTime <- MCMinTime
  MaxTime = 6
  Instruments = {1}
  Providers = {"databento"}
  Venues = {1, 2}
  Sources = {1}
  ProviderIds = {0, 7, 8, 9}
  MaxMappings = 3
  ProviderName = "databento"
  RawSymbol = 0
  BadIdentities = {9}
  DayLength = 2
  MaxMessages = 2
  Queries <- MCQueries
  Registries <- MCRegistries
  DayConditions <- MCDayConditions
  Messages <- MCMessages
INVARIANT
  MissingIsNotUsable
CHECK_DEADLOCK FALSE
