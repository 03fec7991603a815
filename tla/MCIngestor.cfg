SPECIFICATION Spec
CONSTANTS
  MinTime = 0
  MaxTime = 3
  Instruments = {1, 2}
  Providers = {"databento"}
  Venues = {1, 2}
  Sources = {1, 2}
  ProviderIds = {1}
  MaxMappings = 2
  ProviderName = "databento"
  CacheAnswers = {"miss", "other"}
  Queries <- MCQueries
  Registries <- MCRegistries
  Responses <- MCResponses
INVARIANTS
  IngestInv
  ResultHasState
  InvalidIsCorrupt
  CoverageHasEvidence
PROPERTY
  IngestIsAtomic
CHECK_DEADLOCK FALSE
