SPECIFICATION Spec
CONSTANTS
  Streams = {"a", "b"}
  SchemaVersions <- MCSchemaVersions
  Checksums <- MCChecksums
  Batches <- MCBatches
  Written <- MCWritten
  Asked <- MCAsked
  CanonicalSchemas = {"trades", "archive"}
  Readers = {"replay"}
  MaxWrites = 3
INVARIANTS
  StoreInv
  ReplayIsFaithful
  ReturnedFragmentsReadBack
PROPERTIES
  OnlyTheSameStreamOverwrites
  ReadsReturn
