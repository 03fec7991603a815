----------------------------- MODULE MboBuffer ----------------------------
(***************************************************************************)
(* MboBuffer (quant/data/observations.hpp): the records of one stream, and *)
(* their way through an Arrow batch (quant/storage/arrow_interchange.hpp)  *)
(* into another buffer.  Writers append events until the buffer is         *)
(* exported, or a batch comes from elsewhere: a file of another program    *)
(* passes the schema check with any content in its rows.                   *)
(***************************************************************************)
EXTENDS MboEvents, Sequences, FiniteSets

CONSTANTS Context,      \* the stream of the buffer
          Events,       \* what writers may append
          OtherBatches, \* row sequences that other programs may have written
          MaxEvents     \* bound: records in the buffer

\* A row of a batch: the nine columns of the schema, and whether one of them
\* is null there.
RowShape(row) == row \in [null : BOOLEAN, record : MboRecord]

ASSUME BufferAssumption ==
  /\ Context \in Streams
  /\ MaxEvents \in Nat
  /\ Events # {} /\ \A e \in Events : EventShape(e)
  /\ \A b \in OtherBatches : \A i \in DOMAIN b : RowShape(b[i])

VARIABLES records,   \* records_
          batch,     \* the rows of the record batch
          loaded,    \* the records of the buffer from_arrow() returns
          phase,     \* "writing", "own" or "other" batch, "loaded", "invalid"
          written,   \* auxiliary: the events that were appended
          last       \* auxiliary: the last event offered, and whether it threw

vars == <<records, batch, loaded, phase, written, last>>

Init ==
  /\ records = <<>> /\ batch = <<>> /\ loaded = <<>> /\ written = <<>>
  /\ phase = "writing"
  /\ last = [event |-> CHOOSE e \in Events : TRUE, outcome |-> "none"]

\* append_record() refuses the events of another stream.
Appendable(e) == Complete(e) /\ e.stream = Context

AppendEvent(e) ==
  /\ phase = "writing"
  /\ Len(records) < MaxEvents
  /\ Appendable(e)
  /\ records' = Append(records, RecordOf(Written(e)))
  /\ written' = Append(written, e)
  /\ last' = [event |-> e, outcome |-> "appended"]
  /\ UNCHANGED <<batch, loaded, phase>>

AppendThrows(e) ==
  /\ phase = "writing"
  /\ Len(records) < MaxEvents
  /\ ~Appendable(e)
  /\ last' = [event |-> e, outcome |-> "threw"]
  /\ UNCHANGED <<records, batch, loaded, phase, written>>

MutToArrow ==
  /\ phase = "writing"
  /\ batch' = [i \in DOMAIN records |-> [null |-> records[i].order = 0, record |-> records[i]]]
  /\ phase' = "own"
  /\ UNCHANGED <<records, loaded, written, last>>

\* to_arrow(): column by column what the records hold.
ToArrow ==
  /\ phase = "writing"
  /\ batch' = [i \in DOMAIN records |-> [null |-> FALSE, record |-> records[i]]]
  /\ phase' = "own"
  /\ UNCHANGED <<records, loaded, written, last>>

\* The process that loads another program's batch has appended nothing.
OtherBatch ==
  /\ phase = "writing"
  /\ last.outcome = "none"
  /\ batch' \in OtherBatches
  /\ phase' = "other"
  /\ UNCHANGED <<records, loaded, written, last>>

\* from_arrow(): every row goes through append() of a new buffer; a null or an
\* exception makes the whole batch invalid.
RowIsCanonical(row) ==
  ~row.null /\ Decodable(row.record) /\ Appendable(EventOf(row.record, Context))

MutFromArrow ==
  /\ phase \in {"own", "other"}
  /\ \/ /\ \A i \in DOMAIN batch : RowIsCanonical(batch[i])
        /\ loaded' = [i \in DOMAIN batch |-> batch[i].record]
        /\ phase' = "loaded"
     \/ /\ \E i \in DOMAIN batch : ~RowIsCanonical(batch[i])
        /\ phase' = "invalid"
        /\ UNCHANGED loaded
  /\ UNCHANGED <<records, batch, written, last>>

FromArrow ==
  /\ phase \in {"own", "other"}
  /\ \/ /\ \A i \in DOMAIN batch : RowIsCanonical(batch[i])
        /\ loaded' = [i \in DOMAIN batch |->
                        RecordOf(Written(EventOf(batch[i].record, Context)))]
        /\ phase' = "loaded"
     \/ /\ \E i \in DOMAIN batch : ~RowIsCanonical(batch[i])
        /\ phase' = "invalid"
        /\ UNCHANGED loaded
  /\ UNCHANGED <<records, batch, written, last>>

Next ==
  \/ \E e \in Events : AppendEvent(e) \/ AppendThrows(e)
  \/ ToArrow
  \/ OtherBatch
  \/ FromArrow

Spec == Init /\ [][Next]_vars
-----------------------------------------------------------------------------
\* A control word has eleven bits in use, and the slots of a record have the
\* signs of their integer types.
TypeOK ==
  /\ phase \in {"writing", "own", "other", "loaded", "invalid"}
  /\ records \in Seq(MboRecord) /\ Len(records) <= MaxEvents
  /\ \A i \in DOMAIN records : records[i].control \in 0..2047
  /\ written \in Seq(Events)
  /\ last \in [event : Events, outcome : {"none", "appended", "threw"}]

\* validate() and append() agree on every event of the stream: ingest() drops
\* what validation refuses and appends the rest, so an event that passed
\* validation never aborts the ingestion, and none that append would take is
\* dropped as invalid.
ValidIsAppendable ==
  last.event.stream = Context =>
    /\ last.outcome = "threw" => ~IsValid(last.event)
    /\ last.outcome = "appended" => IsValid(last.event)

\* Reading a record gives the event that was appended, absent fields absent
\* and zeros present: "Fixed-stride MBO storage preserves action semantics
\* through a tag and presence bits" (phase1-data-model.md).
ViewReadsBack ==
  /\ DOMAIN records = DOMAIN written
  /\ \A i \in DOMAIN records : EventOf(records[i], Context) = Written(written[i])

\* Whatever way a record came into a buffer, exactly one of its typed views is
\* there: a consumer that asks for all five never skips a record.
OneTypedView ==
  \A i \in DOMAIN records : Cardinality(TypedViews(EventOf(records[i], Context))) = 1

\* What holds of a buffer after any appends and loads: the ranges of its slots
\* and control words, that every record reads back as its event, and that it
\* has one typed view.
BufferInv == TypeOK /\ ViewReadsBack /\ OneTypedView

\* A batch that to_arrow() made always loads, into the same records.
OwnBatchLoads ==
  [][phase = "own" => phase' = "loaded" /\ loaded' = records]_phase

\* A batch of another program either is refused or becomes a buffer that an
\* append of valid events could have made: from then on it round-trips.
LoadedIsCanonical ==
  \A i \in DOMAIN loaded :
    LET e == EventOf(loaded[i], Context)
    IN  IsValid(e) /\ Decodable(loaded[i]) /\ RecordOf(Written(e)) = loaded[i]
=============================================================================
