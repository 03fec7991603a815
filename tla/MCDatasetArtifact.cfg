SPECIFICATION ArtifactSpec
CONSTANTS
  Streams = {"s", "t"}
  MaxHeld = 2
  Observations <- MCObservations
  OtherArtifacts <- MCOtherArtifacts
  MinTime <- MCMinTime
  MaxTime = 2
  MaxUint32 = 3
  MaxUint64 = 7
  MaxCount = 1
  Texts <- MCTexts
  Written <- MCWritten
  Foreign <- MCForeign
  MaxEdits = 2
INVARIANTS
  ArchiveInv
  AcceptedRowsAreKept
  ReplayIsTheFullRead
  MetadataIsWhatIsStored
CHECK_DEADLOCK FALSE
