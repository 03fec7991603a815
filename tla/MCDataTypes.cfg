SPECIFICATION DataSpec
CONSTANTS
  Streams = {1, 2}
  Context = 1
  MaxEvents = 2
  Events <- MCEvents
  OtherBatches <- MCOtherBatches
  MinTime = 0
  MaxTime = 4
  CoveredSets <- MCCoveredSets
  Instruments = {i1, i2}
  Instrument = i1
  Symbols = {none, a}
  NoText = none
  VenueIds = {1, 2}
  SourceIds = {1}
  MaxVersions = 3
  MaxReferences = 3
  MinRaw <- MCMinRaw
  MaxRaw = 13
  MaxScale = 2
  Power <- MCPower
  CanonicalScale <- MCCanonicalScale
  Coefficients <- MCCoefficients
  Currencies = {usd, eur}
INVARIANTS
  BufferInv
  ValidIsAppendable
  LoadedIsCanonical
  ReferenceInv
  LookupsAreExact
  DecimalInv
  RefusedOnlyIfImpossible
  SubtractInv
  ReturnsTheGaps
PROPERTIES
  OwnBatchLoads
  AnswersStand
CHECK_DEADLOCK FALSE
