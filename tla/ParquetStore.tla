--------------------------- MODULE ParquetStore ---------------------------
(***************************************************************************)
(* quant/storage/parquet_backend.hpp and dataset.hpp: write, read_metadata,*)
(* read_batches and stream_events over one directory.  A writing process   *)
(* and reading processes share the files; the backend takes no lock and    *)
(* writes in place, so their steps interleave at every file operation.     *)
(*                                                                         *)
(* A stream stands for the data kind, the StreamIdentity and the TimeRange *)
(* of a dataset: fragment_path spells all of them out one to one.  Schema  *)
(* versions and checksums are free text of which the path keeps only the   *)
(* sanitised tokens.  A batch is one row, named by the write it came from. *)
(***************************************************************************)
EXTENDS Naturals, Sequences

CONSTANTS
  Streams,         \* (data kind, stream identity, time range)
  SchemaVersions,  \* [text, token]: the string and the tokens safe_token leaves
  Checksums,       \* the same, for the checksums a caller may supply
  Batches,         \* the spans of Arrow batches a caller may pass
  CanonicalSchemas,\* batch schemas validate_batch_schema accepts
  Written,         \* metadata the writing process passes to write
  Asked,           \* fragments a reading process asks for
  Readers,         \* reading processes
  MaxWrites        \* bound on the calls of write

NoChecksum == [text |-> "", token |-> <<>>]

\* Two versions are the same only if their texts are.
ASSUME VersionAssumption ==
  /\ MaxWrites \in Nat
  /\ \A v, w \in SchemaVersions \union Checksums \union {NoChecksum} :
       v.text = w.text => v = w

Metadata ==
  [stream : Streams, schema : SchemaVersions, checksum : Checksums \union {NoChecksum}]

\* fragment_path: the tokens of the schema version and of the checksum are
\* joined with the character that also replaces what safe_token drops.
MutPath(m) == [stream |-> "any", name |-> m.schema.token \o m.checksum.token]

Path(m) == [stream |-> m.stream, name |-> m.schema.token \o m.checksum.token]

Paths == {Path(m) : m \in Metadata}

Fragment == [stream : Streams, schema : SchemaVersions, locator : Paths]

FragmentFromMetadata(m) ==
  [stream |-> m.stream, schema |-> m.schema, locator |-> Path(m)]

Operation == {"read_metadata", "read_batches", "stream_events"}

ASSUME ArgumentAssumption == Written \subseteq Metadata /\ Asked \subseteq Fragment

VARIABLES
  files,    \* path -> [id, meta, rows, footer]: the directory
  writes,   \* number of calls of write
  writer,   \* [pc, meta, batches]: the running write
  returned, \* [id, meta, count]: the writes that returned a fragment
  reader    \* reader -> [pc, op, fragment, label, opened, delivered]

vars == <<files, writes, writer, returned, reader>>

NoRead == [pc |-> "idle"]

Init ==
  /\ files = <<>>
  /\ writes = 0
  /\ writer = [pc |-> "idle"]
  /\ returned = {}
  /\ reader = [r \in Readers |-> NoRead]

PutFile(p, f) == files' = [q \in DOMAIN files \union {p} |-> IF q = p THEN f ELSE files[q]]
-----------------------------------------------------------------------------
\* Arguments write accepts: metadata that validates (Metadata holds no other)
\* and a non-empty span of non-null batches of one canonical schema.
Accepts(batches) ==
  /\ batches # <<>>
  /\ \A i \in DOMAIN batches : batches[i] \in CanonicalSchemas /\ batches[i] = batches[1]

\* write is called; it returns an error at once for arguments it rejects.
CallWrite(meta, batches) ==
  /\ writer.pc = "idle"
  /\ writes < MaxWrites
  /\ writes' = writes + 1
  /\ writer' = IF Accepts(batches)
               THEN [pc |-> "opening", meta |-> meta, batches |-> batches]
               ELSE [pc |-> "idle"]
  /\ UNCHANGED <<files, returned, reader>>

OpenFails ==
  /\ writer.pc = "opening"
  /\ writer' = [pc |-> "idle"]
  /\ UNCHANGED <<files, writes, returned, reader>>

\* FileOutputStream::Open creates the file or truncates the one in its place.
OpenOutput ==
  /\ writer.pc = "opening"
  /\ PutFile(Path(writer.meta),
             [id |-> writes, meta |-> writer.meta, rows |-> <<>>, footer |-> FALSE])
  /\ writer' = [writer EXCEPT !.pc = "writing"]
  /\ UNCHANGED <<writes, returned, reader>>

Output == files[Path(writer.meta)]

WriteBatch ==
  /\ writer.pc = "writing"
  /\ Len(Output.rows) < Len(writer.batches)
  /\ LET row == [id |-> writes, index |-> Len(Output.rows) + 1, stream |-> writer.meta.stream]
     IN  PutFile(Path(writer.meta), [Output EXCEPT !.rows = Append(@, row)])
  /\ UNCHANGED <<writes, writer, returned, reader>>

\* writer->Close() writes the footer, then write returns the fragment.
MutCloseOutput ==
  /\ writer.pc = "writing"
  /\ PutFile(Path(writer.meta), [Output EXCEPT !.footer = TRUE])
  /\ returned' = returned \union
       {[id |-> writes, meta |-> writer.meta, count |-> Len(writer.batches)]}
  /\ writer' = [pc |-> "idle"]
  /\ UNCHANGED <<writes, reader>>

CloseOutput ==
  /\ writer.pc = "writing"
  /\ Len(Output.rows) = Len(writer.batches)
  /\ PutFile(Path(writer.meta), [Output EXCEPT !.footer = TRUE])
  /\ returned' = returned \union
       {[id |-> writes, meta |-> writer.meta, count |-> Len(writer.batches)]}
  /\ writer' = [pc |-> "idle"]
  /\ UNCHANGED <<writes, reader>>

\* A library call fails: write returns the error and destroys the FileWriter,
\* which tries to close the file, so the footer may or may not get written.
WriteFails ==
  /\ writer.pc = "writing"
  /\ \E footer \in BOOLEAN : PutFile(Path(writer.meta), [Output EXCEPT !.footer = footer])
  /\ writer' = [pc |-> "idle"]
  /\ UNCHANGED <<writes, returned, reader>>

\* The writing process dies; its file stays as it is.
Crash ==
  /\ writer.pc # "idle"
  /\ writer' = [pc |-> "idle"]
  /\ UNCHANGED <<files, writes, returned, reader>>
-----------------------------------------------------------------------------
\* open_reader and metadata_from_reader succeed only on a complete file.
Opens(f) == f.locator \in DOMAIN files /\ files[f.locator].footer

\* validate_fragment_metadata
MatchesFragment(f, meta) == f.stream = meta.stream /\ f.schema = meta.schema

SetReader(r, value) ==
  /\ reader' = [reader EXCEPT ![r] = value]
  /\ UNCHANGED <<files, writes, writer, returned>>

Call(r, op, f) ==
  /\ reader[r].pc \in {"idle", "ok", "error"}
  /\ SetReader(r, [pc |-> IF op = "read_batches" THEN "open" ELSE "check",
                   op |-> op, fragment |-> f, delivered |-> <<>>])

\* The file does not open, or is not the one the fragment describes.
Refuse(r) ==
  LET f == reader[r].fragment
  IN  /\ reader[r].pc \in {"check", "open"}
      /\ ~(Opens(f) /\ MatchesFragment(f, files[f.locator].meta))
      /\ SetReader(r, [reader[r] EXCEPT !.pc = "error"])

\* An error of the library, of the decoder or of the consumer: the call
\* returns it and delivers nothing more.
Fail(r) ==
  /\ reader[r].pc \in {"check", "open", "read"}
  /\ SetReader(r, [reader[r] EXCEPT !.pc = "error"])

\* read_metadata: the whole of that operation, the first step of stream_events,
\* which keeps the metadata to label the events with its stream.
ReadMetadata(r) ==
  LET f == reader[r].fragment
  IN  /\ reader[r].pc = "check"
      /\ Opens(f)
      /\ MatchesFragment(f, files[f.locator].meta)
      /\ SetReader(r, [pc |-> IF reader[r].op = "read_metadata" THEN "ok" ELSE "open",
                       op |-> reader[r].op, fragment |-> f, delivered |-> <<>>,
                       label |-> files[f.locator].meta])

\* read_batches opens the file again and checks it again.
MutOpenBatches(r) ==
  LET f == reader[r].fragment
  IN  /\ reader[r].pc = "open"
      /\ Opens(f)
      /\ SetReader(r, [pc |-> "read", op |-> reader[r].op, fragment |-> f, delivered |-> <<>>,
                       opened |-> files[f.locator],
                       label |-> IF reader[r].op = "stream_events" THEN reader[r].label
                                 ELSE files[f.locator].meta])

OpenBatches(r) ==
  LET f == reader[r].fragment
  IN  /\ reader[r].pc = "open"
      /\ Opens(f)
      /\ MatchesFragment(f, files[f.locator].meta)
      /\ SetReader(r, [pc |-> "read", op |-> reader[r].op, fragment |-> f, delivered |-> <<>>,
                       opened |-> files[f.locator],
                       label |-> IF reader[r].op = "stream_events" THEN reader[r].label
                                 ELSE files[f.locator].meta])

\* The rows the reader can get at a position of the file it opened: the row
\* that was there, or, once the file was rewritten in place, the new one.
RowsAt(opened, now, i) ==
  {opened.rows[i]} \union (IF i \in DOMAIN now.rows THEN {now.rows[i]} ELSE {})

\* ReadNext and the consumer, once per row of the footer that was opened.
Deliver(r) ==
  LET d == reader[r].delivered
  IN  /\ reader[r].pc = "read"
      /\ Len(d) < Len(reader[r].opened.rows)
      /\ \E row \in RowsAt(reader[r].opened, files[reader[r].fragment.locator], Len(d) + 1) :
           SetReader(r, [reader[r] EXCEPT !.delivered = Append(d, row)])

MutFinish(r) ==
  /\ reader[r].pc = "read"
  /\ SetReader(r, [reader[r] EXCEPT !.pc = "ok"])

MutFinishAtEndOfFile(r) ==
  /\ reader[r].pc = "read"
  /\ Len(reader[r].delivered) = Len(files[reader[r].fragment.locator].rows)
  /\ SetReader(r, [reader[r] EXCEPT !.pc = "ok"])

Finish(r) ==
  /\ reader[r].pc = "read"
  /\ Len(reader[r].delivered) = Len(reader[r].opened.rows)
  /\ SetReader(r, [reader[r] EXCEPT !.pc = "ok"])
-----------------------------------------------------------------------------
WriterStep == OpenFails \/ OpenOutput \/ WriteBatch \/ CloseOutput \/ WriteFails \/ Crash

\* What the code of a read does next when nothing it calls fails.
ReaderStep(r) == ReadMetadata(r) \/ OpenBatches(r) \/ Deliver(r) \/ Finish(r) \/ Refuse(r)

Next ==
  \/ \E m \in Written, b \in Batches : CallWrite(m, b)
  \/ WriterStep
  \/ \E r \in Readers :
       \/ \E op \in Operation, f \in Asked : Call(r, op, f)
       \/ ReaderStep(r)
       \/ Fail(r)

\* A read is synchronous code that runs until it returns, and the consumer is
\* assumed to return.  Nobody has to call an operation, and nothing has to fail.
Spec == Init /\ [][Next]_vars /\ \A r \in Readers : WF_vars(ReaderStep(r))
-----------------------------------------------------------------------------
File ==
  [id : 1..MaxWrites, meta : Metadata, footer : BOOLEAN,
   rows : Seq([id : 1..MaxWrites, index : Nat \ {0}, stream : Streams])]

\* Every file lies under the path of its own metadata, and the running write
\* owns the file at its path until it ends.
TypeOK ==
  /\ writes \in 0..MaxWrites
  /\ DOMAIN files \subseteq Paths
  /\ \A p \in DOMAIN files : files[p] \in File /\ Path(files[p].meta) = p
  /\ writer.pc \in {"idle", "opening", "writing"}
  /\ writer.pc = "writing" =>
       /\ Path(writer.meta) \in DOMAIN files
       /\ Output.id = writes
       /\ ~Output.footer
  /\ \A w \in returned : w.id \in 1..writes /\ w.meta \in Metadata
  /\ \A r \in Readers : reader[r].pc \in {"idle", "check", "open", "read", "ok", "error"}

Reading(r) == "opened" \in DOMAIN reader[r]

\* An event is never replayed under another stream than the one it was
\* written for: not when the token of two schema versions is the same, not
\* when the file is rewritten between the two opens of stream_events, and not
\* when it is rewritten under a reader in the middle of it.
EventsKeepTheirStream ==
  \A r \in Readers : Reading(r) =>
    \A i \in DOMAIN reader[r].delivered :
      /\ reader[r].delivered[i].stream = reader[r].label.stream
      /\ reader[r].delivered[i].stream = reader[r].fragment.stream

\* The batches a reader gets come from a file of the schema version it asked
\* for, whatever was written between read_metadata and the second open.
SchemaIsTheOneAsked ==
  \A r \in Readers : Reading(r) => reader[r].opened.meta.schema = reader[r].fragment.schema

\* The invariant of the store and its readers, whatever the writer does between
\* their steps: well-formed files under their own paths, and no event or batch
\* under a label that is not its own.
StoreInv == TypeOK /\ EventsKeepTheirStream /\ SchemaIsTheOneAsked

\* What a consumer has seen is a prefix in row order, without a row repeated
\* or skipped, even when the call fails after it.
ReplayIsAnOrderedPrefix ==
  \A r \in Readers : Reading(r) =>
    LET d == reader[r].delivered
    IN  /\ Len(d) <= Len(reader[r].opened.rows)
        /\ \A i \in DOMAIN d : d[i].index = i

\* A successful replay of a file nobody touched delivered the whole file, and
\* the whole of what was passed to write if that write returned its fragment.
OkMeansTheWholeArtifact ==
  \A r \in Readers : (Reading(r) /\ reader[r].pc = "ok") =>
    LET f == reader[r].opened
    IN  files[reader[r].fragment.locator] = f =>
          /\ reader[r].delivered = f.rows
          /\ \A w \in returned : w.id = f.id => Len(f.rows) = w.count

\* What a replay delivers, at every moment of it and at its end.
ReplayIsFaithful == ReplayIsAnOrderedPrefix /\ OkMeansTheWholeArtifact

\* The fragment write returned can be opened and matches, with every row of
\* the write, until a later write opens the same path.
ReturnedFragmentsReadBack ==
  \A w \in returned :
    LET f == FragmentFromMetadata(w.meta)
    IN  /\ f.locator \in DOMAIN files
        /\ files[f.locator].id = w.id =>
             /\ Opens(f)
             /\ MatchesFragment(f, files[f.locator].meta)
             /\ Len(files[f.locator].rows) = w.count
        /\ files[f.locator].id >= w.id

\* No step destroys or alters a complete artifact, except the truncation by a
\* write of the same stream, whose data kind, identity and range are the same.
OnlyTheSameStreamOverwrites ==
  [][\A p \in DOMAIN files :
       files[p].footer =>
         /\ p \in DOMAIN files'
         /\ \/ files'[p] = files[p]
            \/ writer.pc = "opening" /\ writer.meta.stream = files[p].meta.stream]_vars

\* Every read returns, whatever the writer does to the file meanwhile.
ReadsReturn ==
  \A r \in Readers :
    reader[r].pc \in {"check", "open", "read"} ~> reader[r].pc \in {"ok", "error"}

\* "Observed history is not silently overwritten": the artifact of a write that
\* returned its fragment stays as it is (docs/architecture/phase1-data-model.md,
\* invariant 5 of iteration 1).
HistoryIsNotOverwritten ==
  [][\A w \in returned : files[Path(w.meta)].id = w.id =>
       files'[Path(w.meta)] = files[Path(w.meta)]]_vars
=============================================================================
