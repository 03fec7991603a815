------------------------- MODULE MCDatasetArtifact ------------------------
(***************************************************************************)
(* A dataset artifact for TLC: its rows (ObservationArchive) and the texts *)
(* of its metadata (ParquetMetadata).  They are separate parts of the file *)
(* with readers of their own, so one part changes while the other is as it *)
(* began.                                                                  *)
(*                                                                         *)
(* Rows: observations whose optional values are absent or zero, of two     *)
(* streams, and artifacts of other programs with an archive column in      *)
(* every position, flat or nested, a canonical field missing, twice there, *)
(* of another type or nullable, with a row and without, and rows with      *)
(* every null and with the values at the ends of the checks.  Metadata:    *)
(* ids of 2 and 3 bits, timestamps from -2 to 2, and lists of up to two    *)
(* entries where a reader accepts one.                                     *)
(***************************************************************************)
EXTENDS ObservationArchive, ParquetMetadata

Trade(stream, receive, channel, quantity, sides) ==
  [stream |-> stream,
   values |-> [event_time |-> {5}, source_receive_time |-> receive, sequence |-> {0},
               channel_id |-> channel, source_flags |-> {0}, price |-> {-1},
               quantity |-> {quantity}, aggressor_side |-> sides]]

Execution(stream, receive, channel, quantity, price) ==
  [stream |-> stream,
   values |-> [event_time |-> {5}, source_receive_time |-> receive, sequence |-> {},
               channel_id |-> channel, source_flags |-> {1}, resting_order_id |-> {1},
               executed_quantity |-> {quantity}, price |-> price]]

MCObservations ==
  [k \in Kind |->
     IF k = "trades"
     THEN {Trade("s", {}, {0}, 2, {Buy}), Trade("s", {0}, {}, 0, {Sell}), Trade("t", {3}, {}, 1, {})}
     ELSE {Execution("s", {}, {0}, 2, {0}), Execution("t", {0}, {}, 0, {})}]

ArchiveOnly == [name |-> "archive_only", type |-> "utf8", nullable |-> TRUE, leaves |-> 1]
Nested == [name |-> "levels", type |-> "struct", nullable |-> TRUE, leaves |-> 2]

Extended(k, column) == {Sequence!InsertAt(SchemaFor(k), i, column) : i \in 1..(Len(SchemaFor(k)) + 1)}

Altered(k) ==
  {Sequence!RemoveAt(SchemaFor(k), i) : i \in DOMAIN SchemaFor(k)}
    \union {Append(SchemaFor(k), SchemaFor(k)[i]) : i \in {2, 6}}
    \union {[SchemaFor(k) EXCEPT ![i].type = "float"] : i \in {1, 8}}
    \union {[SchemaFor(k) EXCEPT ![i].nullable = TRUE] : i \in {1, 2, 6}}

PlainRow(k) == IF k = "trades" THEN RowOf(k, Trade("s", {}, {0}, 2, {Sell}))
            ELSE RowOf(k, Execution("s", {}, {0}, 2, {}))

Row(k) == [name \in CanonicalColumnNames(k) \union {"archive_only", "levels"} |->
             IF name \in CanonicalColumnNames(k) THEN PlainRow(k)[name] ELSE {7}]

OddRows(k) ==
  {[Row(k) EXCEPT ![name] = {}] : name \in CanonicalColumnNames(k)}
    \union IF k = "trades"
           THEN {[Row(k) EXCEPT !.quantity = {-1}], [Row(k) EXCEPT !.quantity = {0}],
                 [Row(k) EXCEPT !.aggressor_side = {0}], [Row(k) EXCEPT !.aggressor_side = {2}]}
           ELSE {[Row(k) EXCEPT !.executed_quantity = {-1}], [Row(k) EXCEPT !.resting_order_id = {0}]}

File(k, schema, rows) == [kind |-> k, stream |-> "t", batch |-> [schema |-> schema, rows |-> rows]]

MCOtherArtifacts ==
  UNION {   {File(k, schema, <<Row(k)>>) :
               schema \in Extended(k, ArchiveOnly) \union Extended(k, Nested) \union Altered(k)}
          \union {File(k, schema, <<>>) : schema \in Altered(k)}
          \union {File(k, Append(SchemaFor(k), ArchiveOnly), <<Row(k), row>>) : row \in OddRows(k)}
        : k \in Kind}

-----------------------------------------------------------------------------
MCMinTime == -2

Range(start, end) == [start |-> start, end |-> end]

MCForeign == {Empty, Word("v1"), Number(0), Number(-1), Number(1), Padded(1), Number(5), Number(9)}
MCTexts == MCForeign \cup {Word("a"), Word("mbo"), Word("live"), Number(2), Number(-2)}

Plain ==
  [data_kind |-> "mbo", instrument |-> 5, venue |-> 1, source |-> 3, range |-> Range(-2, 2),
   mode |-> "live", schema |-> Word("v1"), adapter |-> Empty, mapping |-> Word("a"),
   references |-> <<>>, artifacts |-> <<>>, checksum |-> {}]

MCWritten ==
  { Plain,
    [Plain EXCEPT !.references = <<Word("a")>>, !.checksum = {Number(5)},
                  !.artifacts = <<[identity |-> Word("a"), range |-> Range(-1, 1)]>>],
    [Plain EXCEPT !.references = <<Word("a"), Word("v1")>>],
    [Plain EXCEPT !.artifacts = <<[identity |-> Word("a"), range |-> Range(-1, 1)],
                                  [identity |-> Word("v1"), range |-> Range(0, 1)]>>],
    [Plain EXCEPT !.checksum = {Empty}] }

-----------------------------------------------------------------------------
ArtifactInit == Init /\ MetadataInit

MetadataRests == MetadataInit /\ UNCHANGED metadataVars
RowsRest == Init /\ kind = "trades" /\ UNCHANGED vars

\* Next with MetadataRests, spelled out so that TLC enumerates each set once,
\* and MetadataNext with RowsRest.
ArtifactNext ==
  \/ \E o \in Observations[kind] : Hold(o) /\ MetadataRests
  \/ \E stream \in Streams : WriteOwn(stream) /\ MetadataRests
  \/ \E file \in OtherArtifacts : WriteOther(file) /\ MetadataRests
  \/ ReadFull /\ MetadataRests
  \/ StreamEvents /\ MetadataRests
  \/ Adopt /\ MetadataRests
  \/ MetadataNext /\ RowsRest

ArtifactSpec == ArtifactInit /\ [][ArtifactNext]_<<vars, metadataVars>>
=============================================================================
