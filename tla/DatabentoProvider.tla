------------------------- MODULE DatabentoProvider ------------------------
(***************************************************************************)
(* DatabentoProvider::fetch (quant/ingestion/databento_provider.hpp): one  *)
(* call for a planned segment.  It asks the client for the conditions of   *)
(* the dataset, then for the records, translates each record, and turns    *)
(* what it was told into evidence.  The client is the environment: every   *)
(* call of it may throw, and an exception discards the batch.              *)
(*                                                                         *)
(* The segment comes from a plan of QueryPlanner, and the batch goes where *)
(* ingest() takes it: Ingest is what its loop body makes of an answer, the *)
(* filters, validation and evidence that give the state of the stream.     *)
(***************************************************************************)
EXTENDS MappingRegistry, Sequences

CONSTANTS Queries, ProviderName, Registries,  \* as in Ingestor
          RawSymbol,      \* the provider_id of a mapping that has a symbol only
          BadIdentities,  \* provider ids that are absent with the symbol, or no number
          DayLength,      \* a UTC day
          DayConditions,  \* what the dataset may say of each day it lists
          Messages,       \* MboMsg values the client may return
          MaxMessages     \* bound: records of one answer

\* MboMsg.  The client or the checks of the loop throw on an unreadable one:
\* no MboMsg, a partial record, another publisher, a timestamp out of range,
\* no event time.  fields are the defined ones; zero says that the size is 0.
Message ==
  [unreadable : BOOLEAN, instrument : ProviderIds, time : Timestamp,
   receive : SUBSET Timestamp, fields : SUBSET {"order", "side", "price", "size"},
   zero : BOOLEAN, flags : SUBSET {"bad_book", "bad_receive"},
   action : {"Add", "Modify", "Cancel", "Clear", "Trade", "Fill", "None", "other"}]

Condition == {"available", "degraded", "pending", "missing"}

VARIABLES query, plan,  \* of the planner
          planned,      \* the planned segment this call is for
          days,         \* the conditions of the dataset, by day
          phase,        \* "called", "conditions", "range", "reading", "done", "failed"
          conditions,   \* conditions
          symbols,      \* which symbol lists of the metadata are not empty
          items,        \* the records and events of the batch
          quality,      \* its quality_observations
          flags,        \* bad_book, bad_source_receive_time
          read          \* auxiliary: the messages read

call == <<mappings, query, plan, planned, days>>
vars == <<call, phase, conditions, symbols, items, quality, flags, read>>

Planner == INSTANCE QueryPlanner WITH CacheAnswers <- {"miss"}

ASSUME DatabentoAssumption ==
  /\ Queries \subseteq Planner!Query
  /\ ProviderName \in Providers
  /\ \A registry \in Registries :
       /\ registry \subseteq Mapping
       /\ \A m, n \in registry : m # n /\ SameScope(m, n) => ~Overlaps(m.range, n.range)
  /\ DayLength \in Nat \ {0}
  /\ Messages \subseteq Message
  /\ MaxMessages \in Nat
  /\ RawSymbol \in ProviderIds
  /\ BadIdentities \subseteq ProviderIds \ {RawSymbol}
  /\ \A conditionsOf \in DayConditions : \A d \in DOMAIN conditionsOf :
       d \in Nat /\ conditionsOf[d] \in Condition

Ingest == INSTANCE ProviderResponse

Mbo == INSTANCE MboEvents WITH Streams <- {1}

-----------------------------------------------------------------------------
segment == planned.mapping

\* scope(): planned segments without a venue or a source are refused.
StreamScope == <<segment.venue, segment.source>>

MutDatesOf(range) == (range.start \div DayLength) .. ((range.end \div DayLength) - 1)

\* date_range(): the dates sent with the request for conditions.
DatesOf(range) ==
  LET last == range.end \div DayLength
  IN  (range.start \div DayLength) .. (IF range.end % DayLength = 0 THEN last ELSE last + 1)

\* The answer lists the dates that the dataset knows, both ends included.
MetadataGetDatasetCondition(dates) == {days[d] : d \in dates \intersect DOMAIN days}

MutConditionKind(answer) ==
  IF answer = {} THEN {}
  ELSE IF "available" \in answer THEN {"Complete"}
  ELSE IF "missing" \in answer THEN {"Missing"}
  ELSE IF "pending" \in answer THEN {"Pending"}
  ELSE {"Degraded"}

\* condition_kind(): nothing is concluded from an empty answer.
ConditionKind(answer) ==
  IF answer = {} THEN {}
  ELSE IF "missing" \in answer THEN {"Missing"}
  ELSE IF "pending" \in answer THEN {"Pending"}
  ELSE IF "degraded" \in answer THEN {"Degraded"}
  ELSE {"Complete"}

MutMatchesSegment(message) ==
  /\ query.venue # None => segment.venue = query.venue
  /\ \E r \in query.event : Contains(r, message.time)
  /\ \A r \in query.receive : \E t \in message.receive : Contains(r, t)

\* matches_segment(), with the event and receive range of the provider query:
\* those of the segment and of the query.  The instrument, venue and source of
\* the header are taken from the segment.
MatchesSegment(message) ==
  /\ query.venue # None => segment.venue = query.venue
  /\ Contains(segment.range, message.time)
  /\ \A r \in query.receive : \E t \in message.receive : Contains(r, t)

-----------------------------------------------------------------------------
\* The MboEvent that an Add, Modify, Cancel or Clear becomes.
EventFields(action) ==
  CASE action = "Clear" -> {}
    [] action = "Cancel" -> {"order", "size"}
    [] OTHER -> {"order", "side", "price", "size"}

MboEventOf(message) ==
  LET field(name) == {v \in {1} : name \in message.fields \intersect EventFields(message.action)}
      action == [Add |-> Mbo!Add, Modify |-> Mbo!Modify, Cancel |-> Mbo!Cancel, Clear |-> Mbo!Clear]
  IN  [action |-> action[message.action], stream |-> 1,
       receive |-> message.receive, sequence |-> {0}, channel |-> {0},
       order |-> field("order"), side |-> field("side"), price |-> field("price"),
       quantity |-> field("size")]

MutTranslation(message) ==
  CASE message.action \in {"Add", "Modify", "Cancel", "Clear"} -> "mbo"
    [] message.action = "Trade" /\ {"price", "size"} \subseteq message.fields -> "trade"
    [] message.action = "Fill" /\ {"order", "size"} \subseteq message.fields -> "execution"
    [] message.action = "other" -> "corrupt"
    [] OTHER -> "nothing"

\* What translate_mbo() makes of a message: the kind of its canonical event,
\* or corrupt evidence, or neither.
Translation(message) ==
  CASE message.action \in {"Add", "Modify", "Cancel", "Clear"} -> "mbo"
    [] message.action = "Trade" /\ {"price", "size"} \subseteq message.fields -> "trade"
    [] message.action = "Fill" /\ {"order", "size"} \subseteq message.fields -> "execution"
    [] message.action = "None" -> "nothing"
    [] OTHER -> "corrupt"

\* An item as the ingestor sees it, with the verdict of its validation.
Item(message, kind) ==
  [kind |-> kind, instrument |-> segment.instrument, venue |-> segment.venue, source |-> segment.source,
   time |-> message.time, receive |-> message.receive,
   valid |-> CASE kind = "record" -> TRUE
               [] kind = "mbo" -> Mbo!IsValid(MboEventOf(message))
               [] OTHER -> ~message.zero]

ItemsOf(message) ==
  IF Translation(message) \in {"mbo", "trade", "execution"}
  THEN <<Item(message, "record"), Item(message, Translation(message))>>
  ELSE <<Item(message, "record")>>

\* mark_corrupt(), and the evidence at the end, all over the mapped segment.
Evidence(kind) == [range |-> segment.range, kind |-> kind, scope |-> StreamScope]

\* What the metadata and the conditions say: the first of them that speaks.
ResponseKinds ==
  IF "not_found" \in symbols THEN {"Missing"}
  ELSE IF "partial" \in symbols THEN {"Degraded"}
  ELSE ConditionKind(conditions)

FlagKinds ==
  {kind \in {"SequenceGap", "Degraded"} :
     \/ kind = "SequenceGap" /\ "bad_book" \in flags
     \/ kind = "Degraded" /\ "bad_receive" \in flags}

-----------------------------------------------------------------------------
\* The planner and the ingestor are before this call: it is for any segment of
\* any plan they may have made.
Init ==
  /\ mappings \in Registries
  /\ query \in Queries
  /\ plan = Planner!PlanFor(query, "miss")
  /\ planned \in plan.segments
  /\ days \in DayConditions
  /\ phase = "called"
  /\ conditions = {} /\ symbols = {} /\ items = <<>> /\ quality = {} /\ flags = {} /\ read = <<>>

\* The provider query asks again for the fetch range of its segment; no time
\* before 1970 can be asked for.
Refuses ==
  \/ segment.provider_id \in BadIdentities
  \/ None \in {segment.venue, segment.source}
  \/ planned.fetch.start < 0

Accept ==
  /\ phase = "called"
  /\ ~Refuses
  /\ phase' = "conditions"
  /\ UNCHANGED <<call, conditions, symbols, items, quality, flags, read>>

AskConditions ==
  /\ phase = "conditions"
  /\ conditions' = MetadataGetDatasetCondition(DatesOf(planned.fetch))
  /\ phase' = "range"
  /\ UNCHANGED <<call, symbols, items, quality, flags, read>>

AskRange(lists) ==
  /\ phase = "range"
  /\ symbols' = lists
  /\ phase' = "reading"
  /\ UNCHANGED <<call, conditions, items, quality, flags, read>>

\* A record that the loop cannot use makes the whole call throw.
Throws(message) ==
  \/ message.unreadable
  \/ segment.provider_id # RawSymbol /\ message.instrument # segment.provider_id

ReadRecord(message) ==
  /\ phase = "reading"
  /\ Len(read) < MaxMessages
  /\ ~Throws(message)
  /\ read' = Append(read, message)
  /\ IF MatchesSegment(message)
     THEN /\ items' = items \o ItemsOf(message)
          /\ quality' = quality \union
                          {o \in {Evidence("Corrupt")} : Translation(message) = "corrupt"}
          /\ flags' = flags \union message.flags
     ELSE UNCHANGED <<items, quality, flags>>
  /\ UNCHANGED <<call, phase, conditions, symbols>>

\* The stream ends: NextRecord() returns null.
Return ==
  /\ phase = "reading"
  /\ quality' = quality \union {Evidence(kind) : kind \in ResponseKinds \union FlagKinds}
  /\ phase' = "done"
  /\ UNCHANGED <<call, conditions, symbols, items, flags, read>>

\* An exception, of the adapter or of the client: the batch is gone.
Fail ==
  /\ phase' = "failed"
  /\ conditions' = {} /\ symbols' = {} /\ items' = <<>> /\ quality' = {} /\ flags' = {} /\ read' = <<>>
  /\ UNCHANGED call

Refuse == phase = "called" /\ Refuses /\ Fail

ClientThrows == phase \in {"conditions", "range", "reading"} /\ Fail

RecordThrows(message) == phase = "reading" /\ Throws(message) /\ Fail

Next ==
  \/ Refuse
  \/ Accept
  \/ AskConditions
  \/ \E lists \in SUBSET {"partial", "not_found"} : AskRange(lists)
  \/ \E message \in Messages : ReadRecord(message) \/ RecordThrows(message)
  \/ Return
  \/ ClientThrows

Spec == Init /\ [][Next]_vars
-----------------------------------------------------------------------------
\* What ingest() makes of the batch.
Response ==
  [well_formed |-> TRUE, sources |-> {segment.source}, artifacts |-> {}, items |-> items,
   quality |-> quality]

State(time) ==
  Ingest!Quality!StateAt(time, StreamScope,
    Ingest!EvidenceOf(query, segment, Response))

Usable(time) == Ingest!Quality!IsUsable(State(time))

\* The messages the query asks for: their event time belongs to the segment,
\* and their receive time to the range of the query when it has one.
Asked == {i \in DOMAIN read :
            /\ Contains(segment.range, read[i].time)
            /\ \A r \in query.receive : \E t \in read[i].receive : Contains(r, t)}

TypeOK ==
  /\ mappings \in Registries
  /\ planned \in plan.segments
  /\ conditions \subseteq Condition
  /\ symbols \subseteq {"partial", "not_found"}
  /\ \A i \in DOMAIN items : items[i] \in Ingest!Item
  /\ quality \subseteq Ingest!Quality!QualityObservation
  /\ flags \subseteq {"bad_book", "bad_receive"}
  /\ Len(read) <= MaxMessages

\* The batch keeps the contract of the port: for any plan, ingest() throws on
\* none of it and its own filters, written a second time there, keep all of it.
ContractKept ==
  /\ ~Ingest!Rejects(query, segment, Response)
  /\ \A i \in DOMAIN items : Ingest!HeaderMatches(items[i], query, segment)

\* What holds of the batch at every record of fetch(): its types, and the contract
\* of the provider port.
BatchInv == TypeOK /\ ContractKept

\* Every message the query asks for is in the result as a record of the
\* provider, and as a valid event unless it is a no-op; where one is lost, be
\* it here or to validation, the whole segment of the stream is Corrupt.
LossIsVisible ==
  phase = "done" =>
    LET kept(kinds) == {i \in DOMAIN items : /\ items[i].kind \in kinds
                                             /\ Ingest!HeaderMatches(items[i], query, segment)
                                             /\ ~Ingest!IsInvalid(items[i])}
    IN  /\ Cardinality(kept({"record"})) = Cardinality(Asked)
        /\ Cardinality(kept({"mbo", "trade", "execution"}))
                < Cardinality({i \in Asked : read[i].action # "None"}) =>
              \A t \in Instants(segment.range) : State(t) = "Corrupt"

\* The days on which a record of the segment may have been received.
DaysOf(instants) == {t \div DayLength : t \in instants} \intersect DOMAIN days

FetchedDays == DaysOf(Instants(planned.fetch))

\* Those on which a record of one event time may have been received: any of the
\* receive range of the query, or those within the margin of the event time.
DaysBehind(time) ==
  DaysOf({t \in Instants(planned.fetch) :
            query.receive = {} => /\ time - query.margin.before <= t
                                  /\ t <= time + query.margin.after})

\* "available + successful request + validation passes + no known bad-book
\* evidence -> Complete" (phase1-databento-first-integration.md), and only so.
\* This is the rule for a response, hence all its days; that a condition should
\* speak of its own day only is ConditionsAreDayScoped.
CompleteIsVouched ==
  phase = "done" =>
    \A t \in Instants(segment.range) : State(t) = "Complete" =>
      /\ symbols = {}
      /\ \A d \in FetchedDays : days[d] = "available"
      /\ \A i \in Asked : read[i].flags = {}

\* Data the provider does not have is not usable, whatever records and flags
\* came with the answer: no instant is when the symbol was not found, and no
\* instant with a missing day behind it.  Partially resolved symbols are the
\* exception, see MissingIsNotUsable.
UnavailableIsNotUsable ==
  phase = "done" /\ symbols # {"partial"} =>
    \A t \in Instants(segment.range) :
      "not_found" \in symbols \/ (\E d \in DaysBehind(t) : days[d] = "missing") => ~Usable(t)

\* "missing -> Missing" (phase1-databento-first-integration.md): an instant of a
\* missing day is never usable.
MissingIsNotUsable ==
  phase = "done" =>
    \A t \in Instants(segment.range) :
      (\E d \in DaysOf({t}) \intersect FetchedDays : days[d] = "missing") => ~Usable(t)

\* "Each condition must affect only the applicable intersecting day/range"
\* (phase1-data-integrity-session-2026-10-03.md): where nothing but conditions
\* was reported, an instant with only available days behind it is Complete.
ConditionsAreDayScoped ==
  phase = "done" /\ symbols = {} /\ read = <<>> =>
    \A t \in Instants(segment.range) :
      DaysBehind(t) # {} /\ (\A d \in DaysBehind(t) : days[d] = "available")
        => State(t) = "Complete"
=============================================================================
