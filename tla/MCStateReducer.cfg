SPECIFICATION Spec
CONSTANTS
  MinTime = 0
  MaxTime = 3
  Scope = {1, 2}
  NoScope = 0
  Kinds = {"Complete", "Pending", "SequenceGap", "Missing"}
  Requests <- MCRequests
  ObservationSets <- MCObservationSets
  ExpectedSets <- MCExpectedSets
INVARIANTS
  ReducerInv
  ReturnsTheStateSegments
  LookupsFind
CHECK_DEADLOCK FALSE
