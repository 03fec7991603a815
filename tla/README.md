# Formal model of quant-project

TLA+ modules, TLC configurations and TLAPS proofs for the C++ library under
`src/src/quant/` of the repository: planning a market-data query, ingesting the
answer of a provider, reducing quality evidence to data state, and storing and
replaying the result as Parquet. Definitions are translated from the source;
`PROJECT.json` maps each one to the lines it stands for.

## 1. The system

The library is header-only, synchronous and single-threaded by design
(`docs/architecture/phase1-storage-replay.md`: "No asynchronous callbacks, worker
pools, queues, locks"). What makes it hard is not threads but half-open ranges,
two optional parts of an identity, evidence that is scoped or not, exceptions in
the middle of a composition, and files shared by processes without a lock.

| Component | State | Operations | Interacts with | What is hard; what makes it correct |
|---|---|---|---|---|
| Time ranges (`ingestion/query.hpp`) | none | contains, expand, overlaps, intersection, subtract, query validation | everything | Off-by-one at half-open ends, overflow of the 64-bit clock. `subtract` returns exactly the maximal gaps. |
| Mapping registry (`instrument_mapping.hpp`) | list of mapping segments | add, resolve | planner | Overlap is rejected per (instrument, provider, venue, source) where venue and source are optional. No instant has two identities in a scope. |
| Query planner (`query_plan.hpp`) | none; reads the registry and the cache port | plan | registry, cache, ingestor | Registry grows between plans. A plan covers the request, fetches nothing twice in a scope, is deterministic, only grows. |
| Quality and state (`quality.hpp`) | none | reduce, two lookups, summarize, usability policy | ingestor | Boundary sweep, merge with the last segment, bisection, two different severity orders. State at an instant is the worst evidence there. |
| Ingestor (`synchronous_ingestor.hpp`) | the locals of one call | explain, ingest | planner, provider, reducer, recovery, policy | A provider that throws or breaks its contract midway, scoped and unscoped evidence, invalid records. All of the plan or nothing; coverage needs evidence. |
| Provider port (`provider.hpp`), cache port (`cache.hpp`), recovery policy (`recovery.hpp`) | that of the implementation | fetch; lookup; decide | ingestor, planner | Environment of the ingestor. The answer of `decide` is dropped. |
| Databento adapter (`databento_provider.hpp`) | none | fetch: translate records, map conditions to evidence | ingestor | Partial symbols hide a dataset condition; day-based conditions with inclusive ends. |
| MBO buffer and validation (`data/observations.hpp`, `validation.hpp`) | packed 64-byte records | append, typed views, validate | ingestor, storage | Presence bits, dropped optionals, agreement of `validate` and `append`. |
| Decimals and identifiers (`data/value_types.hpp`) | none | checked arithmetic, normalisation | everything | Checks that must not overflow themselves. A value is exact or refused, and refused only if it must be. |
| Reference data (`data/reference.hpp`, tables in `value_types.hpp`) | validity intervals, rows by identifier | append, add, at, find | consumers | Gaps, half-open ends, appends in any order. An answer for an instant never changes. |
| Arrow codecs (`storage/arrow_interchange.hpp`) | none | to_arrow, from_arrow, schema validation | Parquet store | Optional fields, foreign batches, archive columns. What is accepted loses nothing. |
| Fragment metadata (`parquet_backend.hpp`, `dataset.hpp`) | texts in the footer | encode, decode | Parquet store | Missing, changed and extra keys, lists longer than a reader takes. Nothing is made up. |
| Parquet store (`storage/parquet_backend.hpp`, `dataset.hpp`) | a directory of files | write, read_metadata, read_batches, stream_events | replay consumers, other processes | In-place truncation, crash or error midway, lossy paths, two opens in one read, a consumer that runs between reads. |
| Smoke program (`integration/databento/smoke.cpp`) | the range it asks for | estimate, reduce, gate, ingest | client, planner, ingestor | A cost that is not a number, a range that changes after its estimate. What is fetched is what was estimated. |

## 2. Modules

```
TimeRanges
    ├── MappingRegistry ── QueryPlanner ── CostGate ── MCQueryPlanner
    │         └── ProviderResponse (INSTANCE DataQuality)
    │                ├── AtomicIngest (INSTANCE QueryPlanner)
    │                ├── Ingestor (INSTANCE QueryPlanner)
    │                │      └── IngestorRefinement (INSTANCE AtomicIngest) ── MCIngestor
    │                └── (INSTANCE in) DatabentoProvider ── MCDatabentoProvider
    ├── DataQuality ── StateReducer ── MCStateReducer
    ├── SubtractLoop ─────────┐
    ├── ReferenceData ────────┤
    │   Decimals ─────────────┼── MCDataTypes
    │   MboEvents ── MboBuffer┘
    └── ParquetMetadata ──────┐
        ObservationArchive ───┴── MCDatasetArtifact
ParquetStore ── MCParquetStore
```

The proofs are in modules of their own, which extend the modules they are about:

| Proof module | Proves about | Uses |
|---|---|---|
| `TimeRangeProofs` | `TimeRanges`, `DataQuality` (lemmas only) | |
| `QueryPlannerProofs` | `MappingRegistry`, `QueryPlanner`, `CostGate` | `TimeRangeProofs` |
| `StateReducerProofs` | `StateReducer` | `TimeRangeProofs` |
| `IngestorProofs` | `Ingestor`, `IngestorRefinement` | `TimeRangeProofs`, by INSTANCE for the scopes of `ingest()` |
| `DatabentoProviderProofs` | `DatabentoProvider` | `TimeRangeProofs`, by INSTANCE |
| `ParquetStoreProofs` | `ParquetStore` | |
| `DataTypeProofs` | `MboEvents`, `MboBuffer`, `ReferenceData`, `Decimals`, `SubtractLoop` | `TimeRangeProofs` |
| `DatasetArtifactProofs` | `ObservationArchive`, `ParquetMetadata` | `TimeRangeProofs`, by INSTANCE, for `UpTo` |

**TimeRanges** holds the range algebra. `MinTime` and `MaxTime` are the limits of
the signed 64-bit clock: a run shrinks them and keeps the overflow checks of
`expand` (`CanExpand`) at their edge. An optional range is a set with at most one
range. `Gaps` is the specification of `subtract`.

**SubtractLoop** is the loop of `subtract`, one action per path: `Skip` (the
`continue`), `Visit` (gap, cursor, `break`), `LoopEnds`, `TailGap`. The sorted
vector is the set `remaining` visited in the order `RangeLeq`; a duplicate range
takes the `continue` path the second time, so a set loses nothing.

**MappingRegistry** has the state `mappings`, the action `Add` and the operator
`Resolve`. `None` is an absent venue or source and sorts first, as
`std::optional` does. `Add` is a guard: where the code throws, nothing changes.

**QueryPlanner** adds `Plan`, which evaluates `PlanFor`: the exceptions in the
order of the code, the segments, the unmapped ranges. A plan keeps its segments
as a set, because `PlanOrderIsTotal` shows that the sort has one result. The
cache is an input; only a full miss is accepted. `ExplicitRangeRequired` and
`RangeOverflow` are raised per resolved mapping, as in the code.

**DataQuality** has the tables and helpers of `quality.hpp` and, below the ruler,
the pointwise specification of the reducer: `StateAt` and `StateSegments`.

**StateReducer** is the loop of `reduce` (`TakeScope`, `TakeInterval`,
`ScopeDone`, `Return`) and the two lookups with their binary searches. A
`std::lower_bound` is `PartitionPoint`, which has a value only where the
sequence is partitioned.

**ProviderResponse** is one answer of the provider port and what the body of the
loop of `ingest()` takes from it: the records that match the query and the
mapping, their streams, the evidence, clipped and spread over scopes, and the
sources and artifacts. Validation is an input (`valid`).

**Ingestor** is one `ingest()` call: `Begin` (plan, unmapped ranges), then per
planned segment `FetchAccepted` (the whole loop body), `FetchRejected` (the
answer breaks the port's contract) or `FetchThrows`, then `Finish` (reduce,
summarise, classify). The planner is `INSTANCE QueryPlanner`. The reducer is
replaced by its specification `StateSegments`, which the run `reducer` shows it
to implement. `calls` is auxiliary: what was asked and answered so far.

**AtomicIngest** is what `ingest()` promises: one step that throws and leaves
nothing, or returns a result that is a function of the plan and of one answer per
segment: what the answers, in the order of the plan, say. It has no loop and no
accumulator.
**IngestorRefinement** has the refinement mapping: until `ingest()` ends, its plan
and its locals are hidden.

**DatabentoProvider** is one `fetch()` call of the adapter: `Refuse` or `Accept`
(its checks of the mapping), `AskConditions`, `AskRange`, then `ReadRecord` per
message and `Return`. The client is the environment: `ClientThrows` stands for
every exception of its calls and of the metadata check, `RecordThrows` for a
message the loop refuses. Initially the call is for any segment of any plan of
`QueryPlanner`, and the properties pass the batch through `ProviderResponse`, so that they speak of the state a consumer sees and not only of the
evidence. A field of a message is defined or not; numbers of days stand for dates.

**MboEvents** has the event, `validate`, the completeness rules of `append`, the
control word with its bits, and the reading of a record. **MboBuffer** is a buffer
and its way through an Arrow batch: `AppendEvent` and `AppendThrows`, `ToArrow`,
`OtherBatch` (rows from elsewhere that pass the schema check), `FromArrow`. The
control word is the number of the code, so bits that overlap would show. `last`
and `written` are auxiliary. The nine columns are one record per row.

**ReferenceData** has the three append-only tables: `AppendVersion`, `AddVenue`,
`AddSource`, and the lookups as operators that take the table, because callers ask
between any two appends.

**Decimals** is a caller that holds a value of one of the three decimal types and
replaces it by the result of `FromDecimal`, `AddTo` or `SubtractFrom`. The integer has
the limits `MinRaw` and `MaxRaw`, and an expression that leaves them, inside a check
as well, is the outcome `undefined`. `total` and `asked` are auxiliary: the exact
value of what is held, and of what was asked for.

**ObservationArchive** is the way of trades and executions into an artifact and
back: `Hold`, `WriteOwn`, `WriteOther` (an artifact of another program: other
columns, codes, nulls), `ReadFull`, `StreamEvents` (the replay projection) and `Adopt`
(the program goes on with what it read). A nested field has several leaf columns.

**ParquetMetadata** is the other part of that file: `Write` encodes the fields of a
fragment (`FieldTexts`, and numbered keys for the lists) as texts under keys, `StoreKey` and `DropKey` are another program's, and
`ReadMetadata` decodes. A text is a word, a number, or a number with leading zeros,
which is another text and the same number.

**CostGate** is the smoke program from `Main` to the last fetch. It uses the registry
and the planner of `QueryPlanner`, which decide what is fetched, and a client that
names any cost, NaN and infinity included, or throws. `CallerSpec` is the program by
itself; the run `planner` lets it run beside callers that plan and add mappings.

**ParquetStore** has one writing process (`CallWrite`, `OpenOutput`,
`WriteBatch`, `CloseOutput`, `OpenFails`, `WriteFails`, `Crash`) and reading
processes (`Call`, `ReadMetadata`, `OpenBatches`, `Deliver`, `Finish`, `Refuse`,
`Fail`). A stream stands for data kind, stream identity and time range: the path
spells them out one to one, and `fragment_path` and `validate_fragment_metadata`
use them together. Versions and checksums are a text and the tokens `safe_token`
leaves of it. Two outcomes belong to the Arrow library and are choices: the
row read at a position of a file rewritten in place, and whether destroying the
writer after an error completes the footer.

## 3. Runs

| Run | Question | Bounds and why they are enough |
|---|---|---|
| `planner` | What does a plan promise, over a registry that grows? What does the smoke program pay for? | 5 instants, 2 instruments, 2 venues or none, 1 source or none, up to 2 mappings: every property speaks of at most two mappings. Queries of all shapes, including margins that overflow. The program gets ranges longer than a minute, of a minute, and too late for one, and a cost on each side of every limit. |
| `reducer` | Does the sweep give the worst evidence per instant, and do the lookups find it? | 4 instants, two scopes and none, every pair of observations of four kinds and every triple of Complete and Missing; expected scopes with and without evidence. |
| `ingest` | Is `ingest()` one atomic step? What may a result contain, with which state? | 4 instants, 2 venues, 2 sources, four registries (gap, open beside scoped, no source, empty), answers of up to two records and two observations, valid or not, scoped or not. |
| `parquet` | What does a replay deliver while files are written? | 3 writes of up to 2 rows, colliding and distinct paths, 1 reader (readers do not affect each other). Three writes allow one artifact and a rewrite on each side of a step of the reader. |
| `data_types` | Do validation, append, the record and the codec agree? Is reference data point-in-time? Are decimals exact or refused? Does `subtract()` compute the gaps? | Events of all five actions and an unknown one with every combination of optional fields, zeros and negative prices included; buffers of up to 2 records; rows of other programs with wrong bits, slots and nulls. Three versions over 5 instants, so that two that are not neighbours meet. Every coefficient at every scale and every sum and difference of the integers -14..13, with powers of three, which divide neither limit, as the powers of ten do not. Every request and every set of up to 3 covered ranges over 5 instants: nested, touching, overlapping, equal-start and outside ranges all occur. |
| `dataset_artifact` | Does what is stored come back, from our files and from those of others? | Vectors of up to 2 observations of two streams; archive columns, flat and nested, in every position, altered canonical columns with a row and without, rows with every null and with codes and quantities at the ends of the checks. Metadata with ids of 2 and 3 bits, lists of up to two entries where a reader takes one, and two keys changed, added or dropped. |
| `databento` | Is the batch what the ingestor takes, and is its evidence honest? | Days of 2 instants, up to 2 messages of every action, with and without fields, flags, wrong identifiers; segments that start within a day and widened ranges that reach into the next; days of every condition or not listed. |
| `strict_policy`, `pending_usable`, `history`, `missing_usable`, `day_scope` | The findings below. | Small instances of the same modules, or the one above. |

Deadlock checking is off where the system stops: the loops return, a call of
`ingest()`, of `fetch()` or of the codec ends, the smoke program exits, and the tables
and edits of a run reach their bounds. The store accepts calls for ever.

Two runs check components that share no state side by side: `data_types` the types of
`quant/data` and the loop of `subtract()`, `dataset_artifact` the rows and the metadata of one file. A step of one
component leaves the others as they began, because with nothing shared every
interleaving is one of each component by itself. In `planner` the smoke program is a
second kind of caller, which finds its own registry empty.

**Fairness.** `ParquetStore` assumes weak fairness of each reader's own next step, not of
failures: a read is synchronous code, and its consumer is assumed to return. Nothing
assumes that an operation is called or that the writer makes progress. The other
modules state safety only: `ingest()` may wait for its provider for ever, and the loops over
finite vectors end by their form.

Most modules have one conjunction of named parts that holds at every step and that
the other invariants rest on: `SubtractInv`, `PlannerInv`, `ReducerInv`, `IngestInv`,
`StoreInv`, `ArchiveInv`, `BufferInv`, `BatchInv`, `ReferenceInv`, `DecimalInv`. Each begins with the module's `TypeOK`.

### Properties worth a look

* `ReturnsTheGaps`, `ReturnsTheStateSegments`: a sorted sweep against a
  pointwise definition, including maximality.
* `AcceptedOncePerShape`: the exact condition under which an event can be
  accepted from two provider calls. The registry lets an open mapping lie beside
  a scoped one; only there does it happen.
* `ReplanExtends`: what `explain()` showed stays planned when mappings are added.
* `IngestIsAtomic`: refinement. The loop, its accumulators and the order of its calls do
  not show: buffers, records, evidence, sources, artifacts and state are what the answers
  determine, in the order of the plan, or nothing.
* `CoverageHasEvidence`: "Event presence is not coverage evidence", instant by
  instant, across clipping, spreading over scopes, reduction and classification.
* `InvalidIsCorrupt`, `ResultHasState`: a dropped record is never hidden by good
  evidence; a returned record never lacks a state, nor its source a mention.
* `StoreInv`: no event under the stream, no batch under the schema version of another
  artifact, although `stream_events` opens the file twice, because the second open
  validates again and the stream is part of the path.
* `ReplayIsFaithful`: what a consumer may conclude from the status, and from the events
  it saw before an error.
* `ArchiveInv`, `AcceptedRowsAreKept`: a round trip both ways, from observations to
  an artifact and back and from a foreign batch to observations and back; what the
  decoders accept, the encoders can store without loss.
* `ReplayIsTheFullRead`: the replay projection drops archive columns wherever they are, and
  delivers nothing but what the full read gives. What it may refuse beyond that is exact:
  files with nested columns, because the projection passes positions of fields to a reader
  that counts leaf columns (`parquet_backend.hpp:348`), and files without rows that lack a
  canonical column, which the full read finds empty without looking at the schema.
* `MetadataIsWhatIsStored`: decoding adds, defaults and truncates nothing, whatever keys
  another program wrote; and the one way in which own metadata cannot be read back.
* `LookupsAreExact`, `AnswersStand`: appending compares with the last version only, and
  yet a lookup has one candidate at every instant, and no later append changes it.
* `RefusedOnlyIfImpossible`: the checks of the decimals are not too strict, next to
  `DecimalInv`, which says that they are strict enough.
* `FetchedAsEstimated`: from the first estimate to the provider call, through the
  reduced range, the mapping, the plan and the derived fetch range.
* `BatchInv`: the adapter and `ingest()` filter records with separate code;
  for every plan, neither drops or rejects what the other lets through.
* `LossIsVisible`, `CompleteIsVouched`: from a message of the client to the state of
  the stream: a record that was lost anywhere makes its segment Corrupt, and with Complete
  every listed day that was fetched is available. `CompleteIsVouched` speaks of all the days
  of a response because the quoted rule does, and bounds Complete from one side; it does not
  ask for more Complete than the code gives, which is what `ConditionsAreDayScoped` does.
* `UnavailableIsNotUsable`: a missing day keeps every instant that has it within its margin
  from being used, whatever the records, the flags and the other days say; only partly
  resolved symbols override it, which is a finding.
* `ValidIsAppendable`, `LoadedIsCanonical`: rules written in three places (validation,
  append, the views), and the batches of another program.

## 4. Findings

* **`PendingIsNotUsable`** (`quality.hpp:97`). `Unknown` is the bottom of the
  reducer's order, so a `SequenceGap` over a range that is only `Pending` makes it
  `Degraded`, which the default policy accepts. The docs map pending to Unknown
  and say that flags may worsen a result.
* **`StrictPolicyFails`** (`query_plan.hpp:52`). The explicit-range policy is
  checked per resolved mapping; when nothing resolves, the query is planned.
* **`HistoryIsNotOverwritten`** (`parquet_backend.hpp:407`). A second write to a
  path truncates the artifact of a returned fragment; if that write fails, nothing
  replaces it. The repository's own review records the overwrite.
* **`MissingIsNotUsable`** (`databento_provider.hpp:415`). The conditions of the
  dataset are looked at only when no symbol is partially resolved, so a missing day
  beside a partially resolved symbol becomes Degraded, which is usable.
  `UnavailableIsNotUsable` shows that an instant of a missing day is usable in no other way.
* **`ConditionsAreDayScoped`** (`databento_provider.hpp:420`). The conditions of all days
  asked for become one kind over the whole segment, so a bad day at one end decides for
  instants of the good days. `date_range()` also rounds the end up to the next date, which the
  endpoint includes, so the day may lie outside the fetch range altogether. The docs ask that
  a condition affect its own day only and record both points as an implementation issue
  (`phase1-data-integrity-session-2026-10-03.md:126`).

Two more divergences are stated by the properties themselves: the stream of observations
written together becomes that of the metadata (`ArchiveInv`, `arrow_interchange.hpp:212`; the
property says that this is all that changes, and the repository's review records it), and
the files that a full read takes and a replay refuses (`ReplayIsTheFullRead`, above).

## 5. Proofs

Everything that the passing runs check is also a theorem, for every value of the constants,
except the liveness property named at the end of this section. No bound of a run is
used; a bound of a model (`MaxMappings`, `MaxMessages`, `MaxWrites`, `MaxEvents`) is an
arbitrary natural number.

**Assumptions.** All are named in the module that declares the constant, and TLC
evaluates each on the runs. The clock has a first and a last instant around zero
(`TimeBounds`). Arguments have the types of the code: `CoveredSetsAssumption`,
`PlannerAssumption`, `ReferenceAssumption`, `BufferAssumption`, `ReducerAssumption`,
`IngestorAssumption`, `DatabentoAssumption`, `ArgumentAssumption`, `ArchiveAssumption`,
`MetadataAssumption`; the registries that
the ingestor and the adapter start from are ones that `add` can build. Identifiers are
numbers, with none below all of them (`IdentifierAssumption`), as the order of
`std::optional` has it. `WidthAssumption` and `PowerAssumption` say that the limits of an
integer lie around zero and that the table of powers is one. `VersionAssumption`: two
version texts that read the same are the same. `CostAssumption`: the limits of the smoke
program are ordered, and its provider is the one its mapping names. Of the file of another
program `ArchiveAssumption` says only that it has a kind, a stream, and sequences of fields and
rows, with a leaf column or more in each field: the fields may be any, and a row may hold any
set under any name. `MetadataAssumption` has the limit of a list
(1'000'000) within the type its count is parsed as, and nothing about the keys of a file.

**`TimeRangeProofs`.** Lemmas about ranges and states: their ends, what clipping shares
with its arguments, that a gap meets no covered instant and the gaps leave no instant out
(`GapsComplete`), that some evidence has the worst state (`StateAtFacts`) and Corrupt
always wins (`CorruptWins`), a fact about sets of naturals that stands in for induction over a
count (`UpTo`), that every instant of a scope lies in a segment
(`SegmentExists`) of constant state (`SegmentFacts`), and that a Complete summary leaves
nothing else (`SummaryFacts`). A maximal run around an instant has a least and a greatest
instant of a set as its ends, which exist by `LeastNatural`, so that no induction over the
clock is needed.

**`DataTypeProofs`, the gaps.** `ReturnsTheGaps` speaks of the end of the loop only, so it needs
`SubtractInv`: the cursor lies in the request and is the start or the end of something
covered (a gap recorded from it is maximal on the left); returned gaps are ordered and
strictly before the cursor; each is a maximal gap; every uncovered instant before the
cursor was returned; whatever is covered from the cursor on belongs to a range still to
be visited (the next range bounds the gap on the right). A gap of the specification
equals the returned range that contains its start, since both are maximal.

**`QueryPlannerProofs`.** `PlannerInv` is types, `SameScopeDisjoint`, `NoOverlapError` and
`PlanGrounded`: every planned segment is one that the registry *as it is now* resolves
for the query, and the unmapped ranges are the gaps the segments leave. A plan outlives
additions, so it need not be the plan of the current registry; it stays grounded in it
because resolving only grows. Clipped mappings of a disjoint registry are disjoint
(`ResolvedDisjoint`), which makes the overlap exception unreachable. The action property
`ReplanExtends` follows from the same invariant.

For `FetchedAsEstimated` the invariant is `GateInv`: for each phase of the smoke program,
what the registry, the query and the plan are (the one mapping over the requested range,
its query, its one segment) and what the last calls were. Nothing weaker carries the range
from the estimate to the fetch, because between them it exists only in the mapping, then
in the plan.

**`StateReducerProofs`.** `ReducerIInv` adds to `ReducerInv`: scopes are visited in order
and every scope is to come, in progress or covered to the end of the request; while a
scope is cut, its remaining boundaries are those after the cursor; every segment emitted
has the state of each of its instants; and neighbours of a scope differ, which is what
merging with the last segment is for. At the end this makes each segment a maximal run and
each maximal run a segment (`ReturnsTheStateSegments`). The evidence that contains an
interval between two boundaries is the evidence at each of its instants, since no piece
of evidence begins or ends inside. `LookupsFind` rests on the order of the result, for
which `PartitionPoint` has a value.

**`IngestorProofs`.** `IngestIInv` says where the accumulators come from: every item kept
matches some recorded call, all that a call names is in the result, all evidence except
that for unmapped ranges comes from a call, and the outcome is the reduction of the
evidence. With the lemmas about states this gives `ResultHasState`, `InvalidIsCorrupt` and
`CoverageHasEvidence` for any registry, query and answers.

The refinement `IngestIsAtomic` needs equalities where `IngestIInv` has inclusions:
`RefIInv` says that each accumulator *is* what the calls so far amount to, that no
recorded answer breaks the contract, and that the plan is one the planner makes. The
sequences are the difficult part. `Select` and `Joined` are recursive functions; that the
recursion has a solution is proved from `LeastNatural`, and their laws (selecting from two
sequences is selecting from each, one part more is joined at the end) by `UpTo`. The abstract ingest() picks *an* order of
the segments by `CHOOSE`; `OneOrder` shows that a strict order leaves one choice, which
is the order of the calls. Then `Begin` and `FetchAccepted` are stutters, every exception is
`Throw`, and `Finish` is `Return`.

**`DatabentoProviderProofs`.** `ProviderIInv` counts: each message of the instrument in the
segment left a record, and there are at least as many events as messages that are no
no-op, unless an event is invalid or the batch says Corrupt; flags of messages are remembered;
evidence is the adapter's own, over the segment and its stream. The four properties speak of
the state after `ProviderResponse` and the reduction, so each theorem follows the evidence
from the batch through clipping and scoping to the state of an instant.

**`ParquetStoreProofs`.** `StoreIInv`: every file lies under the path of its own metadata, has
the identity of a past write, and its rows are of its write (`FilesInv`); the running write
has the last identity (`WriterInv`); returned fragments name finished writes
(`ReturnedInv`); a reader that opened a file holds a prefix of its rows while the path has
the same file, and otherwise the path has a later one (`ReaderInv`). Identities that only
grow are what makes "while its path is not rewritten" a fact about states.

**`DataTypeProofs`, the types.** `ValidIffComplete` is the agreement of the rules of
validation and append, by cases on the action. The control word is taken apart bit by bit
(`BufferIInv` holds that every record is the packing of what was appended, so that it reads back);
the same lemmas serve the batches of other programs (`LoadedIsCanonical`) and the action property
`OwnBatchLoads`. `ReferenceInv` is inductive: a new version follows the last,
which is closed and, being ordered after all others, ends after them. In an ordered table the last
version that has begun is the only one that can be valid (`AtIsExact`), and an append adds
a candidate only from its own start on (`AppendKeepsAnswers`). For the decimals, division
by a positive divisor truncates within one divisor of the dividend (`TruncDivBounds`), so
a product fits the width exactly when the factor does not exceed the truncated limit, at
both signs; a remainder is zero exactly when the quotient times the divisor is the
dividend; scales compose because the powers do.

**`DatasetArtifactProofs`, the rows.** `ArchiveIInv` says that whatever was read or replayed is
what `Consume` makes of the file that is there (`ReadFits`), that a file the program wrote is the
encoding of the observations it remembers (`ExportedFits`), and that everything held can be
encoded: a value in every required column, a known side, a quantity and an id that their
constructors accept. The last part is what carries `ArchiveInv` through `Adopt`: the program may
hold what it read from another program's file, so the rows that the decoders accept must be ones
that the encoders keep (`ConsumedEvents`). A row and its observation determine each other
(`RowOfObservation`, `ObservationOfRow`), because the two codes of a side do (`SidesComeBack`), and
the schema of either kind accepts itself (`OwnSchemaIsValid`), for which its eight names must
differ. The replay projection finds its columns through the leaves of all fields before them:
`LeafColumns` flattens a sequence of sequences by a recursive function; that the recursion has a
solution, and what it is, comes from `UpTo`. For a flat schema `FlatLeaves` shows it to be the
identity, and then both projections see the same fields of every canonical name
(`ReplayOfFlat`), including none or two of one name. For any schema the positions of the
fields are positions of leaves (`LeavesAreOfFields`, since a field has a leaf or more), so a
replay that succeeds has read every canonical column, and no other has its name
(`ReplayedIsRead`).

**`DatasetArtifactProofs`, the metadata.** `MetadataIInv`: until another program changes a key the
texts are the encoding of valid metadata; what a reader returned is what the present texts
decode to; and the texts that are taken as they stand are texts. Decoding undoes encoding key by
key (`RequiredOfEncoding`, `CountOfEncoding`, `RangeOfEncoding`, `ReferencesOfEncoding`,
`ArtifactsOfEncoding`), so that own metadata decodes to itself and nothing else, or to nothing
when a list is too long (`OwnMetadataDecodes`). The other way, for any texts under any keys,
whatever is decoded stands there (`NumberIsThere`, `ReferencesAreThere`, `ArtifactsAreThere`,
`ReturnedIsThere`). Both directions rest on the keys being different: a field, a reference and
an artifact never share one, nor do two indices.

**Model-checked only.** `ReadsReturn` is liveness under fairness, which the prover does not
reach. The theorems about `dataset_artifact` and `data_types` are about the
specification of each component; that the runs put several side by side is a matter of the runs.

## 6. Not modelled

Listed with reasons in `PROJECT.json` under `components`. The recovery plan has no
effect, quotes and bars are structs that nothing ingests or stores, `FakeProvider` is a
test double, and the manual round trip is one fixed sequence of calls. Left
out of modelled parts: symbols and wording; provider batches and version texts in the
result, which are copied; event times and source flags of records, which
are copied; a dataset whose conditions change during one call; a day the dataset does
not list, about which no statement of the repository says anything; two concurrent
writers of one path, whose result is the file system's; loss of power after a write
(the code never syncs); the addresses that `at()` and `find()` return, which an append
may invalidate (no caller in the repository keeps one); what the smoke program prints.

## 7. Plan

What the project could still say:

1. The batches of an artifact and their rows are in two modules: `ParquetStore` has several
   batches and the faults, `ObservationArchive` the contents of one. A module that composes
   them would let a failing write leave rows behind, not only tokens.
2. The stream of observations written together (section 4), if the code settles it.
