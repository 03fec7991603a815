-------------------------- MODULE ParquetMetadata --------------------------
(***************************************************************************)
(* The metadata of a dataset fragment as texts in the footer of its        *)
(* Parquet file (quant/storage/parquet_backend.hpp): encode_metadata       *)
(* writes every field under a key of its own, a list as a count and        *)
(* numbered keys, and decode_metadata reads keys that any program may have *)
(* written.                                                                *)
(*                                                                         *)
(* A text is a word, a number as to_string prints it, or a number with     *)
(* leading zeros, which from_chars reads just as well.  An error anywhere  *)
(* in decode_metadata ends it, so every part of it is the set of what it   *)
(* may return, empty for an error.                                         *)
(***************************************************************************)
EXTENDS TimeRanges, Sequences, FiniteSets

CONSTANTS MaxUint32, MaxUint64,  \* the largest values of the id types
          MaxCount,              \* the longest list a reader accepts: 1'000'000
          Texts,                 \* texts a metadata field may hold
          Written,               \* the metadata that is written
          Foreign,               \* the texts another program stores
          MaxEdits               \* bound: the keys another program changes

Word(word) == [form |-> "word", word |-> word, number |-> 0]
Number(n) == [form |-> "number", word |-> "", number |-> n]
Padded(n) == [form |-> "padded", word |-> "", number |-> n]
Empty == Word("")

DataKind == {"mbo", "trades", "order_executions"}
AcquisitionMode == {"historical", "live"}
ArtifactProvenance == [identity : Texts, range : TimeRange]

\* A DatasetLocalMetadata; its checksum is optional.
Metadata ==
  [data_kind : DataKind, instrument : 0..MaxUint64, venue : 0..MaxUint32, source : 0..MaxUint32,
   range : TimeRange, mode : AcquisitionMode, schema : Texts, adapter : Texts, mapping : Texts,
   references : Seq(Texts), artifacts : Seq(ArtifactProvenance),
   checksum : {{}} \cup {{c} : c \in Texts}]

ASSUME MetadataAssumption ==
  /\ MaxUint32 \in Nat /\ MaxUint64 \in Nat /\ MaxCount \in Nat /\ MaxEdits \in Nat
  /\ MaxUint32 < MaxUint64 /\ MaxCount <= MaxUint64
  /\ Empty \in Texts /\ Foreign \subseteq Texts
  /\ \A m \in Written : m \in Metadata

\* validate(): both write() and decode_metadata() stop where it throws.
IsValid(m) ==
  /\ 0 \notin {m.instrument, m.venue, m.source}
  /\ Empty \notin {m.schema} \cup m.checksum
  /\ \A i \in DOMAIN m.references : m.references[i] # Empty
  /\ \A i \in DOMAIN m.artifacts : m.artifacts[i].identity # Empty

VARIABLES stored,   \* the key-value metadata of the file; empty before there is a file
          own,      \* the metadata the file was written with, until a key is changed
          edits,    \* how many keys another program changed
          result    \* <<"unread">>, <<"invalid">>, or "ok" with the metadata that was returned

metadataVars == <<stored, own, edits, result>>

-----------------------------------------------------------------------------
Reference(i) == <<"quality_reference", i>>
Artifact(i, field) == <<"source_artifact", i, field>>

\* The fields with a key of their own, and the counts of the lists.
FieldTexts(m) ==
  [data_kind |-> Word(m.data_kind), instrument_id |-> Number(m.instrument),
   venue_id |-> Number(m.venue), source_id |-> Number(m.source),
   start_ns |-> Number(m.range.start), end_ns |-> Number(m.range.end),
   acquisition_mode |-> Word(m.mode), schema_version |-> m.schema,
   adapter_version |-> m.adapter, mapping_version |-> m.mapping,
   quality_reference_count |-> Number(Len(m.references)),
   source_artifact_count |-> Number(Len(m.artifacts))]

ArtifactText(a, field) ==
  CASE field = "identity" -> a.identity
    [] field = "start"    -> Number(a.range.start)
    [] field = "end"      -> Number(a.range.end)

\* encode_metadata(): the numbered keys count from 0, and only a checksum that
\* is there has a key.
KeysOf(m) ==
  {<<field>> : field \in DOMAIN FieldTexts(m)} \cup {<<"checksum">> : c \in m.checksum}
    \cup {Reference(i - 1) : i \in DOMAIN m.references}
    \cup {Artifact(i - 1, field) : i \in DOMAIN m.artifacts, field \in {"identity", "start", "end"}}

TextOf(m, key) ==
  CASE key[1] = "quality_reference" -> m.references[key[2] + 1]
    [] key[1] = "source_artifact"   -> ArtifactText(m.artifacts[key[2] + 1], key[3])
    [] key[1] = "checksum"          -> CHOOSE c \in m.checksum : TRUE
    [] OTHER                        -> FieldTexts(m)[key[1]]

EncodeMetadata(m) == [key \in KeysOf(m) |-> TextOf(m, key)]

-----------------------------------------------------------------------------
\* required_value(): the text of a key; no text is an error.
Required(key) == {stored[k] : k \in {key} \intersect DOMAIN stored}

\* parse_uint64(), parse_uint32(), parse_int64(): the whole text is a number of the type.
Parse(key, type) == {v.number : v \in {v \in Required(key) : v.form # "word"}} \intersect type

\* The constructor of a range throws on an empty or reversed one.
RangesAt(startKey, endKey) ==
  [start : Parse(startKey, Timestamp), end : Parse(endKey, Timestamp)] \intersect TimeRange

MutCounts(key) ==
  IF Required(key) = {} THEN {0} ELSE {n \in Parse(key, 0..MaxUint64) : n <= MaxCount}

\* The count of a list, which both decoders of lists take only up to a limit.
Counts(key) == {n \in Parse(key, 0..MaxUint64) : n <= MaxCount}

\* decode_references()
DecodeReferences ==
  {[i \in 1..n |-> stored[Reference(i - 1)]] :
     n \in {n \in Counts(<<"quality_reference_count">>) :
              \A i \in 1..n : Required(Reference(i - 1)) \ {Empty} # {}}}

\* decode_source_artifacts(): an empty identity is left to validate().
ArtifactsAt(i) ==
  [identity : Required(Artifact(i, "identity")),
   range : RangesAt(Artifact(i, "start"), Artifact(i, "end"))]

DecodeSourceArtifacts ==
  {[i \in 1..n |-> CHOOSE a \in ArtifactsAt(i - 1) : TRUE] :
     n \in {n \in Counts(<<"source_artifact_count">>) : \A i \in 1..n : ArtifactsAt(i - 1) # {}}}

\* decode_metadata(): a checksum may be absent, and nothing else.
DecodeMetadata ==
  {m \in [data_kind  : {k \in DataKind : Word(k) \in Required(<<"data_kind">>)},
          instrument : Parse(<<"instrument_id">>, 0..MaxUint64),
          venue      : Parse(<<"venue_id">>, 0..MaxUint32),
          source     : Parse(<<"source_id">>, 0..MaxUint32),
          range      : RangesAt(<<"start_ns">>, <<"end_ns">>),
          mode       : {k \in AcquisitionMode : Word(k) \in Required(<<"acquisition_mode">>)},
          schema     : Required(<<"schema_version">>),
          adapter    : Required(<<"adapter_version">>),
          mapping    : Required(<<"mapping_version">>),
          references : DecodeReferences,
          artifacts  : DecodeSourceArtifacts,
          checksum   : {Required(<<"checksum">>)}] :
     IsValid(m)}

-----------------------------------------------------------------------------
MetadataInit ==
  /\ stored = <<>>
  /\ own = {}
  /\ edits = 0
  /\ result = <<"unread">>

\* write() validates the metadata and stores it; it has no limit for the lists.
Write(m) ==
  /\ IsValid(m)
  /\ stored = <<>>
  /\ stored' = EncodeMetadata(m)
  /\ own' = {m}
  /\ UNCHANGED <<edits, result>>

\* Another program rewrites the file with one key more, changed, or left out.
Edited(file) ==
  /\ stored # <<>> /\ edits < MaxEdits
  /\ stored' = file
  /\ own' = {}
  /\ edits' = edits + 1
  /\ result' = <<"unread">>

StoreKey(key, text) ==
  Edited([k \in DOMAIN stored \cup {key} |-> IF k = key THEN text ELSE stored[k]])

DropKey(key) ==
  /\ key \in DOMAIN stored
  /\ Edited([k \in DOMAIN stored \ {key} |-> stored[k]])

\* metadata_from_reader()
ReadMetadata ==
  /\ stored # <<>> /\ result = <<"unread">>
  /\ result' \in IF DecodeMetadata = {} THEN {<<"invalid">>} ELSE {"ok"} \X DecodeMetadata
  /\ UNCHANGED <<stored, own, edits>>

MetadataNext ==
  \/ \E m \in Written : Write(m)
  \/ \E key \in DOMAIN stored \cup {<<"checksum">>}, text \in Foreign : StoreKey(key, text)
  \/ \E key \in DOMAIN stored : DropKey(key)
  \/ ReadMetadata

MetadataSpec == MetadataInit /\ [][MetadataNext]_metadataVars

-----------------------------------------------------------------------------
\* Two texts that a reader cannot tell apart where a number is expected.
SameNumber(v, w) == "word" \notin {v.form, w.form} /\ v.number = w.number

\* What a reader returns is what the file says: metadata comes back as it was
\* written unless a list is longer than a reader accepts (write does not
\* refuse it, and then nobody can read the file); from a file that another
\* program wrote, decode_metadata makes nothing up: all the keys that writing
\* its result would store are there with the same meaning, and it leaves out
\* no checksum.
MetadataIsWhatIsStored ==
  /\ \A m \in own : result # <<"unread">> =>
       result = IF Len(m.references) <= MaxCount /\ Len(m.artifacts) <= MaxCount
                THEN <<"ok", m>> ELSE <<"invalid">>
  /\ result[1] = "ok" =>
       LET m == result[2]
           encoded == EncodeMetadata(m)
       IN  /\ m \in Metadata /\ IsValid(m)
           /\ DOMAIN encoded \subseteq DOMAIN stored
           /\ \A key \in DOMAIN encoded :
                stored[key] = encoded[key] \/ SameNumber(stored[key], encoded[key])
           /\ <<"checksum">> \in DOMAIN stored => m.checksum = {stored[<<"checksum">>]}
=============================================================================
