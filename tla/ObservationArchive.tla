------------------------- MODULE ObservationArchive -------------------------
(***************************************************************************)
(* Trades and order executions on their way into a dataset artifact and    *)
(* back: to_arrow, the schema check, the full and the replay projection of *)
(* a Parquet file, and the decoders (quant/storage/arrow_interchange.hpp   *)
(* and consume_batches of parquet_backend.hpp).                            *)
(*                                                                         *)
(* A program fills a vector of observations, or adopts what it has read,   *)
(* and writes it; artifacts with other columns and rows come from other    *)
(* programs.  An optional value is a set with at most one element.  One    *)
(* artifact holds one batch: ParquetStore has the batches and the faults.  *)
(***************************************************************************)
EXTENDS Integers, Sequences, FiniteSets

Sequence == INSTANCE SequencesExt

CONSTANTS Streams,        \* StreamIdentity: instrument, venue and source
          Observations,   \* kind -> what a program may hold
          OtherArtifacts, \* what other programs may have written
          MaxHeld         \* bound: observations in the vector

Kind == {"trades", "order_executions"}

\* A field of a schema; a nested one has several leaf columns in a file.
Field(name, type, nullable) == [name |-> name, type |-> type, nullable |-> nullable, leaves |-> 1]

HeaderFields ==
  << Field("event_time", "int64", FALSE), Field("source_receive_time", "int64", TRUE),
     Field("sequence", "uint64", TRUE), Field("channel_id", "uint32", TRUE),
     Field("source_flags", "uint64", FALSE) >>

SchemaFor(kind) ==
  HeaderFields \o
  IF kind = "trades"
  THEN << Field("price", "int64", FALSE), Field("quantity", "int64", FALSE),
          Field("aggressor_side", "int8", TRUE) >>
  ELSE << Field("resting_order_id", "uint64", FALSE), Field("executed_quantity", "int64", FALSE),
          Field("price", "int64", TRUE) >>

CanonicalColumnNames(kind) == {SchemaFor(kind)[i].name : i \in DOMAIN SchemaFor(kind)}

\* The fields of a name among some columns of a schema; GetFieldIndex() finds
\* none when there are several.
FieldsNamed(schema, columns, name) ==
  LET found == {i \in columns : schema[i].name = name}
  IN  IF Cardinality(found) = 1 THEN found ELSE {}

\* validate_batch_schema() of a batch with some columns of a schema.
IsValidSchema(schema, columns, kind) ==
  \A f \in Sequence!ToSet(SchemaFor(kind)) :
    \E i \in FieldsNamed(schema, columns, f.name) :
      schema[i].type = f.type /\ (schema[i].nullable => f.nullable)
-----------------------------------------------------------------------------
Buy == "Buy"
Sell == "Sell"

MutSideCodes(sides) == {IF side = Buy THEN 0 ELSE 1 : side \in sides \ {Buy}}

\* The aggressor side as the encoder appends it: 0, 1 or null.
SideCodes(sides) == {IF side = Buy THEN 0 ELSE 1 : side \in sides}

\* optional_side() reads every other code as a sell.
SidesOf(codes) == {IF code = 0 THEN Buy ELSE Sell : code \in codes}

\* The row to_arrow() appends: the values of the columns, the header without
\* the instrument, the venue and the source.
RowOf(kind, o) ==
  [name \in CanonicalColumnNames(kind) |->
     IF name = "aggressor_side" THEN SideCodes(o.values[name]) ELSE o.values[name]]

ToArrow(kind, held) ==
  [schema |-> SchemaFor(kind), rows |-> [i \in DOMAIN held |-> RowOf(kind, held[i])]]

\* The rows the decoders take: no null in a required column, a known side,
\* and values the constructors of Quantity and OrderId do not throw on.
MutRowIsCanonical(kind, row) ==
  /\ \A f \in Sequence!ToSet(SchemaFor(kind)) : f.nullable \/ row[f.name] # {}
  /\ \A q \in (IF kind = "trades" THEN row.quantity ELSE row.executed_quantity) : q >= 0
  /\ kind = "order_executions" => 0 \notin row.resting_order_id

RowIsCanonical(kind, row) ==
  /\ \A f \in Sequence!ToSet(SchemaFor(kind)) : f.nullable \/ row[f.name] # {}
  /\ IF kind = "trades"
     THEN row.aggressor_side \subseteq {0, 1} /\ \A q \in row.quantity : q >= 0
     ELSE 0 \notin row.resting_order_id /\ \A q \in row.executed_quantity : q >= 0

\* trades_from_arrow() and executions_from_arrow(): header() gives every row
\* the stream of the artifact.
ObservationOf(kind, row, stream) ==
  [stream |-> stream,
   values |-> [name \in CanonicalColumnNames(kind) |->
                 IF name = "aggressor_side" THEN SidesOf(row[name]) ELSE row[name]]]

\* A Trade or an OrderExecution: every member that is no optional has a value,
\* and a Quantity and an OrderId one that their constructors accept.
IsObservation(kind, o) ==
  /\ o = [stream |-> o.stream, values |-> [name \in CanonicalColumnNames(kind) |-> o.values[name]]]
  /\ o.stream \in Streams
  /\ \A f \in Sequence!ToSet(SchemaFor(kind)) : f.nullable \/ o.values[f.name] # {}
  /\ IF kind = "trades"
     THEN o.values.aggressor_side \subseteq {Buy, Sell} /\ \A q \in o.values.quantity : q >= 0
     ELSE 0 \notin o.values.resting_order_id /\ \A q \in o.values.executed_quantity : q >= 0

IsSequence(s) == Len(s) \in Nat /\ s = [i \in 1..Len(s) |-> s[i]]

\* Of a file of another program only the form is known.
ASSUME ArchiveAssumption ==
  /\ MaxHeld \in Nat
  /\ \A kind \in Kind : \A o \in Observations[kind] : IsObservation(kind, o)
  /\ \A file \in OtherArtifacts :
       /\ file.kind \in Kind /\ file.stream \in Streams
       /\ IsSequence(file.batch.schema) /\ IsSequence(file.batch.rows)
       /\ \A i \in DOMAIN file.batch.schema : file.batch.schema[i].leaves \in Nat \ {0}

Invalid == [status |-> "invalid", events |-> <<>>]

EventsFromArrow(kind, rows, stream) ==
  IF \A i \in DOMAIN rows : RowIsCanonical(kind, rows[i])
  THEN [status |-> "ok", events |-> [i \in DOMAIN rows |-> ObservationOf(kind, rows[i], stream)]]
  ELSE Invalid
-----------------------------------------------------------------------------
\* The leaf columns of a file, each with the field it belongs to.
LeafColumns(schema) ==
  Sequence!FlattenSeq([i \in DOMAIN schema |-> [leaf \in 1..schema[i].leaves |-> i]])

\* The columns of the replay projection: the positions of the canonical fields
\* among the fields are passed to a reader that counts leaf columns.
MutReplayColumns(schema, kind) ==
  {LeafColumns(schema)[i + 1] :
     i \in UNION {FieldsNamed(schema, DOMAIN schema, name) : name \in CanonicalColumnNames(kind)}
             \ {Len(LeafColumns(schema))}}

ReplayColumns(schema, kind) ==
  {LeafColumns(schema)[i] :
     i \in UNION {FieldsNamed(schema, DOMAIN schema, name) : name \in CanonicalColumnNames(kind)}}

\* The loop of consume_batches() and the decoder as its consumer.  The reader
\* gives no batch of a file without rows, and then no schema is checked.
Consume(artifact, columns) ==
  IF artifact.batch.rows = <<>> \/ IsValidSchema(artifact.batch.schema, columns, artifact.kind)
  THEN EventsFromArrow(artifact.kind, artifact.batch.rows, artifact.stream)
  ELSE Invalid

HasCanonicalColumns(artifact) ==
  \A name \in CanonicalColumnNames(artifact.kind) :
    FieldsNamed(artifact.batch.schema, DOMAIN artifact.batch.schema, name) # {}

\* The replay projection asks for every canonical column before it reads.
Replay(artifact) ==
  IF HasCanonicalColumns(artifact)
  THEN Consume(artifact, ReplayColumns(artifact.batch.schema, artifact.kind))
  ELSE Invalid
-----------------------------------------------------------------------------
VARIABLES
  kind,      \* the kind of the vector
  held,      \* the vector of observations
  artifact,  \* [kind, stream, batch]: the file; empty before a write
  exported,  \* auxiliary: the observations it was written from; empty if another's
  read,      \* what the full projection gave, decoded
  replayed   \* what stream_events() gave

vars == <<kind, held, artifact, exported, read, replayed>>

NotYet == [status |-> "none", events |-> <<>>]

Init ==
  /\ kind \in Kind
  /\ held = <<>>
  /\ artifact = {}
  /\ exported = {}
  /\ read = NotYet /\ replayed = NotYet

Hold(o) ==
  /\ Len(held) < MaxHeld
  /\ held' = Append(held, o)
  /\ UNCHANGED <<kind, artifact, exported, read, replayed>>

Store(file, observations) ==
  /\ artifact' = {file}
  /\ exported' = observations
  /\ read' = NotYet /\ replayed' = NotYet
  /\ UNCHANGED <<kind, held>>

\* to_arrow() of the vector and write(), under the metadata of a stream.
WriteOwn(stream) ==
  LET batch == ToArrow(kind, held)
  IN  /\ IsValidSchema(batch.schema, DOMAIN batch.schema, kind)
      /\ Store([kind |-> kind, stream |-> stream, batch |-> batch], {held})

WriteOther(file) ==
  /\ file.kind = kind
  /\ Store(file, {})

\* read_batches() with the full projection, and stream_events().
ReadFull ==
  /\ \E file \in artifact : read' = Consume(file, DOMAIN file.batch.schema)
  /\ UNCHANGED <<kind, held, artifact, exported, replayed>>

StreamEvents ==
  /\ \E file \in artifact : replayed' = Replay(file)
  /\ UNCHANGED <<kind, held, artifact, exported, read>>

\* The program goes on with what it has read.
Adopt ==
  /\ \E result \in {read, replayed} :
       result.status = "ok" /\ Len(result.events) <= MaxHeld /\ held' = result.events
  /\ UNCHANGED <<kind, artifact, exported, read, replayed>>

Next ==
  \/ \E o \in Observations[kind] : Hold(o)
  \/ \E stream \in Streams : WriteOwn(stream)
  \/ \E file \in OtherArtifacts : WriteOther(file)
  \/ ReadFull
  \/ StreamEvents
  \/ Adopt

Spec == Init /\ [][Next]_vars
-----------------------------------------------------------------------------
TypeOK ==
  /\ kind \in Kind
  /\ Len(held) <= MaxHeld /\ Cardinality(artifact) <= 1
  /\ IsSequence(held) /\ \A i \in DOMAIN held : IsObservation(kind, held[i])
  /\ read.status \in {"none", "ok", "invalid"} /\ replayed.status \in {"none", "ok", "invalid"}

Relabelled(observations, stream) ==
  [i \in DOMAIN observations |-> [observations[i] EXCEPT !.stream = stream]]

\* What to_arrow() and write() made of any observations is read in full and
\* replayed as these observations, in their order, absent values absent and
\* zeros present, but for the stream, which is the one of the metadata ("Storage
\* does not redefine ... identity", docs/architecture/phase1-storage-replay.md,
\* holds for one stream only).  This includes observations that were themselves
\* read from another program's artifact: what the decoders let through, the
\* encoders can store.
OwnArtifactsRoundTrip ==
  \A observations \in exported, file \in artifact, result \in {read, replayed} \ {NotYet} :
    result = [status |-> "ok", events |-> Relabelled(observations, file.stream)]

ArchiveInv == TypeOK /\ OwnArtifactsRoundTrip

\* A batch of another program that is accepted loses and gains nothing by being
\* decoded: encoded again, its canonical columns are what they were, code by
\* code and null by null.
AcceptedRowsAreKept ==
  \A file \in artifact, result \in {read, replayed} :
    result.status = "ok" =>
      ToArrow(file.kind, result.events).rows =
        [i \in DOMAIN file.batch.rows |->
           [name \in CanonicalColumnNames(file.kind) |-> file.batch.rows[i][name]]]

IsFlat(file) == \A i \in DOMAIN file.batch.schema : file.batch.schema[i].leaves = 1

\* The replay projection leaves out the columns that are not canonical wherever
\* they stand: what it replays is what the full read gives.  It refuses a file
\* that the full read takes in two cases only: a file without rows, where the
\* full read finds no events whatever the columns are, lacks a canonical one;
\* or a column is nested, so that the positions of the fields after it are not
\* those of their leaves.
ReplayIsTheFullRead ==
  \A file \in artifact :
    NotYet \notin {read, replayed} =>
      /\ replayed.status = "ok" => replayed = read
      /\ IsFlat(file) =>
           replayed = IF HasCanonicalColumns(file) \/ file.batch.rows # <<>> THEN read ELSE Invalid
=============================================================================
