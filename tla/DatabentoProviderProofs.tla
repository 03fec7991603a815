----------------------- MODULE DatabentoProviderProofs ----------------------
(***************************************************************************)
(* DatabentoProvider::fetch(): what holds of its batch for every plan,     *)
(* every listing of days and every sequence of messages of any length.     *)
(***************************************************************************)
EXTENDS DatabentoProvider, FiniteSetTheorems, SequenceTheorems, TLAPS

\* The facts about ranges and states, for the stream scopes of ingest().
Facts == INSTANCE TimeRangeProofs WITH Scope <- Venues \X Sources, NoScope <- <<>>

USE DEF Timestamp

-----------------------------------------------------------------------------
\* The stream scopes are pairs, as the facts assume.
LEMMA NoScopeIsNoPair == <<>> \notin Venues \X Sources
PROOF OBVIOUS

\* The planner, the loop body of ingest() and the facts speak of the same
\* ranges, evidence and states.
LEMMA SameRanges ==
  /\ Planner!TimeRange = TimeRange /\ Facts!TimeRange = TimeRange
  /\ Planner!Mapping = Mapping /\ Planner!None = None
  /\ Ingest!NoScope = <<>> /\ Ingest!None = None
  /\ Ingest!Quality!QualityObservation = Facts!QualityObservation
  /\ \A r, t : Facts!Contains(r, t) = Contains(r, t) /\ Ingest!Contains(r, t) = Contains(r, t)
  /\ \A l, r : Ingest!Overlaps(l, r) = Overlaps(l, r)
  /\ \A l, r : Facts!Intersection(l, r) = Intersection(l, r)
             /\ Planner!Intersection(l, r) = Intersection(l, r)
             /\ Ingest!Intersection(l, r) = Intersection(l, r)
PROOF BY DEF TimeRange, Planner!TimeRange, Facts!TimeRange, Ingest!Quality!TimeRange,
             Planner!Timestamp, Facts!Timestamp, Ingest!Quality!Timestamp,
             Planner!Mapping, Mapping, Planner!None, None, Ingest!NoScope, Ingest!None,
             Ingest!Quality!QualityObservation, Facts!QualityObservation,
             Ingest!Quality!QualityKind, Facts!QualityKind,
             Contains, Facts!Contains, Ingest!Contains, Overlaps, Ingest!Overlaps,
             Intersection, Facts!Intersection, Planner!Intersection, Ingest!Intersection

LEMMA SameStates ==
  /\ \A t, scope, o : Ingest!Quality!StateAt(t, scope, o) = Facts!StateAt(t, scope, o)
  /\ \A state : Ingest!Quality!IsUsable(state) = Facts!IsUsable(state)
PROOF BY DEF Ingest!Quality!StateAt, Facts!StateAt, Ingest!Quality!Contains, Facts!Contains,
             Ingest!Quality!Worst, Facts!Worst, Ingest!Quality!Severity, Facts!Severity,
             Ingest!Quality!StateForQuality, Facts!StateForQuality,
             Ingest!Quality!IsUsable, Facts!IsUsable

\* The lemmas of the same names, for the ranges of fetch().
LEMMA RangeEnds ==
  ASSUME NEW r \in TimeRange
  PROVE  r.start \in Int /\ r.end \in Int /\ r.start < r.end
PROOF BY TimeBounds DEF TimeRange

LEMMA IntersectionShares ==
  ASSUME NEW l \in TimeRange, NEW r \in TimeRange, NEW c \in Intersection(l, r)
  PROVE  c \in TimeRange
PROOF BY SameRanges, Facts!IntersectionShares, TimeBounds, NoScopeIsNoPair

-----------------------------------------------------------------------------
\* Every segment of a plan maps the instrument, and the venue if the query
\* names one, and has a range to fetch.
LEMMA PlannedSegments ==
  ASSUME NEW q \in Queries, mappings \in Registries, NEW answer,
         NEW s \in Planner!PlanFor(q, answer).segments
  PROVE  /\ s.mapping \in Mapping /\ s.mapping.instrument = q.instrument
         /\ q.venue # None => s.mapping.venue = q.venue
         /\ s.fetch.start \in Int /\ s.fetch.end \in Int
  <1> DEFINE resolved == IF q.event = {} THEN {}
                         ELSE Planner!Resolve(q.instrument, ProviderName, q.venue, Planner!EventRange(q))
             error == Planner!PlanError(q, answer, resolved)
             p == Planner!PlanFor(q, answer)
  <1>1. p = IF error = "none" THEN Planner!Planned(q, resolved) ELSE Planner!Failed(error)
    BY DEF Planner!PlanFor
  <1>2. PICK m \in resolved : s = [mapping |-> m, fetch |-> Planner!FetchRange(q, m.range)]
    <2> HIDE DEF resolved, error
    <2> QED BY <1>1 DEF Planner!Planned, Planner!Failed, Planner!PlanSegment
  <1>3. q.event # {} /\ m \in Planner!Resolve(q.instrument, ProviderName, q.venue, Planner!EventRange(q))
    OBVIOUS
  <1>4. PICK k \in mappings :
          /\ k.instrument = q.instrument /\ (q.venue # None => k.venue = q.venue)
          /\ \E c \in Intersection(k.range, Planner!EventRange(q)) : m = [k EXCEPT !.range = c]
    <2> HIDE DEF resolved, error, p
    <2> DEFINE range == Planner!EventRange(q)
    <2>1. m \in UNION { {[k EXCEPT !.range = c] : c \in Planner!Intersection(k.range, range)} :
                        k \in {k \in mappings : /\ k.instrument = q.instrument
                                                /\ k.provider = ProviderName
                                                /\ q.venue # Planner!None => k.venue = q.venue} }
      BY <1>3 DEF Planner!Resolve
    <2> HIDE DEF range
    <2>2. PICK k \in mappings :
            /\ k.instrument = q.instrument /\ (q.venue # Planner!None => k.venue = q.venue)
            /\ \E c \in Planner!Intersection(k.range, range) : m = [k EXCEPT !.range = c]
      BY <2>1
    <2>3. Planner!None = None /\ Planner!Intersection(k.range, range) = Intersection(k.range, range)
      BY SameRanges
    <2> QED BY <2>2, <2>3 DEF range
  <1>5. PICK c \in Intersection(k.range, Planner!EventRange(q)) : m = [k EXCEPT !.range = c]
    BY <1>4
  <1>6. /\ q.event \subseteq TimeRange /\ q.receive \subseteq TimeRange
        /\ q.margin.before \in Int /\ q.margin.after \in Int
    <2>1. q \in Planner!Query
      BY DatabentoAssumption
    <2> QED BY <2>1, SameRanges, TimeBounds DEF Planner!Query, Planner!TimeMargin
  <1>7. k \in Mapping /\ c \in TimeRange
    <2>1. k \in Mapping /\ Planner!EventRange(q) \in TimeRange
      BY <1>3, <1>6, DatabentoAssumption DEF Planner!EventRange
    <2> QED BY <1>5, <2>1, IntersectionShares DEF Mapping
  <1>8. m \in Mapping /\ m.instrument = k.instrument /\ m.venue = k.venue /\ m.range = c
    BY <1>5, <1>7 DEF Mapping
  <1>9. s.fetch.start \in Int /\ s.fetch.end \in Int
    <2>1. c.start \in Int /\ c.end \in Int
      BY <1>7, RangeEnds
    <2>2. CASE q.receive # {}
      <3>1. s.fetch \in TimeRange
        BY <1>2, <1>6, <2>2 DEF Planner!FetchRange
      <3> QED BY <3>1, RangeEnds
    <2>3. CASE q.receive = {}
      BY <1>2, <1>6, <1>8, <2>1, <2>3 DEF Planner!FetchRange, Planner!Expand
    <2> QED BY <2>2, <2>3
  <1> QED BY <1>2, <1>4, <1>8, <1>9

-----------------------------------------------------------------------------
\* The invariant.  The segment is one that the planner makes for the query.
SegmentFits ==
  /\ segment \in Mapping /\ segment.instrument = query.instrument
  /\ query.venue # None => segment.venue = query.venue
  /\ planned.fetch.start \in Int /\ planned.fetch.end \in Int

\* What the client was told to answer, and nothing before it was asked.
ConditionsAreAnswered ==
  conditions = IF phase \in {"range", "reading", "done"}
               THEN MetadataGetDatasetCondition(DatesOf(planned.fetch)) ELSE {}

NothingRead ==
  /\ read = <<>> /\ items = <<>> /\ quality = {} /\ flags = {}

ItemsFit ==
  \A i \in DOMAIN items : /\ items[i] \in Ingest!Item
                          /\ Ingest!HeaderMatches(items[i], query, segment)

\* The evidence so far; the rest is added with the return.
QualityIsOurs ==
  \E corrupt \in SUBSET {Evidence("Corrupt")} :
    quality = corrupt \union
                {Evidence(kind) : kind \in IF phase = "done" THEN ResponseKinds \union FlagKinds ELSE {}}

\* One record per message that was asked for.
Records(seq) == {i \in DOMAIN seq : seq[i].kind = "record"}

\* The events that validation lets through, and the messages that should be one.
Events(seq) == {i \in DOMAIN seq : /\ seq[i].kind \in {"mbo", "trade", "execution"}
                                   /\ ~Ingest!IsInvalid(seq[i])}

Expected == {i \in Asked : read[i].action # "None"}

MessagesAreKept ==
  /\ Cardinality(Records(items)) = Cardinality(Asked)
  /\ \/ Evidence("Corrupt") \in quality
     \/ \E i \in DOMAIN items : Ingest!IsInvalid(items[i])
     \/ Cardinality(Events(items)) >= Cardinality(Expected)

FlagsAreKept == \A i \in Asked : read[i].flags \subseteq flags

BatchFits ==
  /\ flags \subseteq {"bad_book", "bad_receive"}
  /\ read \in Seq(Messages) /\ Len(read) <= MaxMessages
  /\ items \in Seq(Ingest!Item) /\ ItemsFit
  /\ FlagsAreKept /\ MessagesAreKept

ProviderIInv ==
  /\ mappings \in Registries /\ query \in Queries /\ days \in DayConditions
  /\ phase \in {"called", "conditions", "range", "reading", "done", "failed"}
  /\ planned \in plan.segments /\ SegmentFits
  /\ phase \notin {"called", "failed"} => ~Refuses
  /\ phase \notin {"reading", "done"} => NothingRead
  /\ ConditionsAreAnswered
  /\ symbols \subseteq {"partial", "not_found"}
  /\ BatchFits /\ QualityIsOurs

-----------------------------------------------------------------------------
\* What one more item adds to the counts.
Appended(seq, x, more) ==
  /\ more \in Seq(Ingest!Item)
  /\ \A i \in DOMAIN more : more[i] = x \/ (i \in DOMAIN seq /\ more[i] = seq[i])
  /\ \A i \in DOMAIN seq : i \in DOMAIN more /\ more[i] = seq[i]
  /\ \E i \in DOMAIN more : more[i] = x
  /\ Cardinality(Records(more)) = Cardinality(Records(seq)) + (IF x.kind = "record" THEN 1 ELSE 0)
  /\ Cardinality(Events(more)) =
       Cardinality(Events(seq)) +
         (IF x.kind \in {"mbo", "trade", "execution"} /\ ~Ingest!IsInvalid(x) THEN 1 ELSE 0)
  /\ Cardinality(Records(seq)) \in Nat /\ Cardinality(Events(seq)) \in Nat

LEMMA CountAppended ==
  ASSUME NEW seq \in Seq(Ingest!Item), NEW x \in Ingest!Item
  PROVE  \A more : more = seq \o <<x>> => Appended(seq, x, more)
  <1> SUFFICES ASSUME NEW more, more = seq \o <<x>> PROVE Appended(seq, x, more)
    OBVIOUS
  <1> DEFINE n == Len(seq) + 1
             Valid(e) == e.kind \in {"mbo", "trade", "execution"} /\ ~Ingest!IsInvalid(e)
  <1>1. /\ more \in Seq(Ingest!Item) /\ DOMAIN more = 1..n /\ DOMAIN seq = 1..Len(seq) /\ Len(seq) \in Nat
        /\ more[n] = x /\ \A i \in 1..Len(seq) : more[i] = seq[i]
    OBVIOUS
  <1>2. IsFiniteSet(1..Len(seq)) /\ n \notin 1..Len(seq)
    BY <1>1, FS_Interval
  <1>3. IsFiniteSet(Records(seq)) /\ IsFiniteSet(Events(seq))
        /\ n \notin Records(seq) /\ n \notin Events(seq)
    <2>1. Records(seq) \in SUBSET (1..Len(seq)) /\ Events(seq) \in SUBSET (1..Len(seq))
      BY <1>1 DEF Records, Events
    <2> QED BY <1>2, <2>1, FS_Subset
  <1>4. /\ x.kind = "record" => Records(more) = Records(seq) \union {n}
        /\ x.kind # "record" => Records(more) = Records(seq)
    BY <1>1 DEF Records
  <1>5. /\ Valid(x) => Events(more) = Events(seq) \union {n}
        /\ ~Valid(x) => Events(more) = Events(seq)
    <2>1. /\ Events(more) = {i \in DOMAIN more : Valid(more[i])}
          /\ Events(seq) = {i \in DOMAIN seq : Valid(seq[i])}
      BY DEF Events
    <2> HIDE DEF Valid
    <2> QED BY <1>1, <2>1
  <1>6. Cardinality(Records(seq)) \in Nat /\ Cardinality(Events(seq)) \in Nat
    BY <1>3, FS_CardinalityType
  <1> HIDE DEF Valid, n
  <1>7. Cardinality(Records(more)) = Cardinality(Records(seq)) + (IF x.kind = "record" THEN 1 ELSE 0)
    <2>1. Cardinality(Records(seq) \union {n}) = Cardinality(Records(seq)) + 1
      BY <1>3, FS_AddElement
    <2>2. CASE x.kind = "record"
      BY <1>4, <2>1, <2>2
    <2>3. CASE x.kind # "record"
      BY <1>4, <1>6, <2>3
    <2> QED BY <2>2, <2>3
  <1>8. Cardinality(Events(more)) = Cardinality(Events(seq)) + (IF Valid(x) THEN 1 ELSE 0)
    <2>1. Cardinality(Events(seq) \union {n}) = Cardinality(Events(seq)) + 1
      BY <1>3, FS_AddElement
    <2>2. CASE Valid(x)
      BY <1>5, <2>1, <2>2
    <2>3. CASE ~Valid(x)
      BY <1>5, <1>6, <2>3
    <2> QED BY <2>2, <2>3
  <1>9. /\ \A i \in DOMAIN more : more[i] = x \/ (i \in DOMAIN seq /\ more[i] = seq[i])
        /\ \A i \in DOMAIN seq : i \in DOMAIN more /\ more[i] = seq[i]
        /\ \E i \in DOMAIN more : more[i] = x
    BY <1>1
  <1> QED BY <1>1, <1>6, <1>7, <1>8, <1>9 DEF Appended, Valid

\* The query of the message is the one of Asked.
IsAsked(message) ==
  /\ Contains(segment.range, message.time)
  /\ \A r \in query.receive : \E t \in message.receive : Contains(r, t)

LEMMA AskedFacts ==
  /\ Asked = {i \in DOMAIN read : IsAsked(read[i])}
  /\ Expected = {i \in DOMAIN read : IsAsked(read[i]) /\ read[i].action # "None"}
PROOF BY DEF Asked, Expected, IsAsked

LEMMA MatchesIsAsked ==
  ASSUME SegmentFits, NEW message
  PROVE  MatchesSegment(message) <=> IsAsked(message)
PROOF BY DEF SegmentFits, MatchesSegment, IsAsked

\* An accepted segment has a stream.
LEMMA StreamFacts ==
  ASSUME SegmentFits, ~Refuses
  PROVE  /\ segment.range \in TimeRange /\ segment.venue \in Venues /\ segment.source \in Sources
         /\ segment.venue # None /\ segment.source # None
         /\ StreamScope \in Venues \X Sources /\ StreamScope # <<>>
         /\ \A kind \in {"Complete", "Degraded", "Pending", "Missing", "Corrupt", "SequenceGap"} :
              Evidence(kind) \in Facts!QualityObservation
  <1>1. segment.range \in TimeRange /\ segment.venue \in Venues /\ segment.source \in Sources
        /\ segment.venue # None /\ segment.source # None
    BY DEF SegmentFits, Refuses, Mapping
  <1>2. StreamScope \in Venues \X Sources /\ StreamScope # <<>>
    BY <1>1 DEF StreamScope
  <1>3. \A kind \in {"Complete", "Degraded", "Pending", "Missing", "Corrupt", "SequenceGap"} :
          Evidence(kind) \in Facts!QualityObservation
    BY <1>1, <1>2, SameRanges DEF Evidence, Facts!QualityObservation, Facts!QualityKind
  <1> QED BY <1>1, <1>2, <1>3

\* What the translation of a message that was asked for adds to the batch.
LEMMA ItemFacts ==
  ASSUME SegmentFits, ~Refuses, query \in Queries, NEW message \in Messages, IsAsked(message),
         NEW kind \in {"record", "mbo", "trade", "execution"}
  PROVE  /\ Item(message, kind) \in Ingest!Item /\ Item(message, kind).kind = kind
         /\ Ingest!HeaderMatches(Item(message, kind), query, segment)
  <1>1. message.time \in Timestamp /\ message.receive \subseteq Timestamp
    BY DatabentoAssumption DEF Message
  <1>2. segment.venue \in Venues /\ segment.source \in Sources /\ segment.instrument \in Instruments
    BY StreamFacts DEF SegmentFits, Mapping
  <1>3. Item(message, kind).valid \in BOOLEAN
    <2>1. Mbo!IsValid(MboEventOf(message)) \in BOOLEAN /\ (~message.zero) \in BOOLEAN
      BY DEF Mbo!IsValid
    <2> HIDE DEF Mbo!IsValid
    <2> QED BY <2>1 DEF Item
  <1>4. /\ Item(message, kind).kind = kind /\ Item(message, kind).instrument = segment.instrument
        /\ Item(message, kind).venue = segment.venue /\ Item(message, kind).source = segment.source
        /\ Item(message, kind).time = message.time /\ Item(message, kind).receive = message.receive
    BY DEF Item
  <1>5. Item(message, kind) \in Ingest!Item
    <2> DEFINE v == Item(message, kind).valid
    <2>1. Item(message, kind) =
            [kind |-> kind, instrument |-> segment.instrument, venue |-> segment.venue,
             source |-> segment.source, time |-> message.time, receive |-> message.receive, valid |-> v]
      BY DEF Item
    <2>2. v \in BOOLEAN
      BY <1>3
    <2> HIDE DEF v
    <2> QED BY <1>1, <1>2, <2>1, <2>2 DEF Ingest!Item, Ingest!Kinds, Ingest!Timestamp
  <1>6. Ingest!HeaderMatches(Item(message, kind), query, segment)
    BY <1>4, SameRanges DEF Ingest!HeaderMatches, IsAsked, SegmentFits, Ingest!None
  <1> QED BY <1>4, <1>5, <1>6

-----------------------------------------------------------------------------
\* A batch in which nothing was read, before the records and after an exception.
LEMMA EmptyBatch == NothingRead => BatchFits
  <1> SUFFICES ASSUME NothingRead PROVE BatchFits
    OBVIOUS
  <1>1. items = <<>> /\ read = <<>> /\ flags = {}
    BY DEF NothingRead
  <1>2. DOMAIN items = {} /\ DOMAIN read = {}
    BY <1>1
  <1>3. Asked = {} /\ Expected = {} /\ Records(items) = {} /\ Events(items) = {}
    BY <1>2, AskedFacts DEF Records, Events
  <1>4. MessagesAreKept
    BY <1>3, FS_EmptySet DEF MessagesAreKept
  <1>5. ItemsFit /\ FlagsAreKept
    BY <1>2, <1>3 DEF ItemsFit, FlagsAreKept
  <1> QED BY <1>1, <1>4, <1>5, DatabentoAssumption DEF BatchFits

LEMMA InitProvider == Init => ProviderIInv
  <1> SUFFICES ASSUME Init PROVE ProviderIInv
    OBVIOUS
  <1>1. /\ mappings \in Registries /\ query \in Queries /\ days \in DayConditions
        /\ planned \in plan.segments /\ plan = Planner!PlanFor(query, "miss")
        /\ phase = "called" /\ conditions = {} /\ symbols = {} /\ NothingRead
    BY DEF Init, NothingRead
  <1>2. SegmentFits
    BY <1>1, PlannedSegments DEF SegmentFits, segment
  <1>3. QualityIsOurs
    <2>1. quality = {} \union {Evidence(kind) : kind \in {}}
      BY <1>1 DEF NothingRead
    <2> QED BY <1>1, <2>1 DEF QualityIsOurs
  <1> QED BY <1>1, <1>2, <1>3, EmptyBatch DEF ProviderIInv, ConditionsAreAnswered

\* What a step leaves alone when it does not touch the arguments of the call.
LEMMA CallKeeps ==
  ASSUME ProviderIInv, UNCHANGED call
  PROVE  /\ mappings' \in Registries /\ query' \in Queries /\ days' \in DayConditions
         /\ planned' \in plan'.segments /\ SegmentFits'
         /\ query' = query /\ planned' = planned /\ days' = days
         /\ (Refuses' <=> Refuses)
  <1>1. mappings' = mappings /\ query' = query /\ days' = days /\ plan' = plan /\ planned' = planned
    BY DEF call
  <1>2. SegmentFits' /\ (Refuses' <=> Refuses)
    BY <1>1 DEF ProviderIInv, SegmentFits, segment, Refuses
  <1> QED BY <1>1, <1>2 DEF ProviderIInv

\* The steps that read nothing keep what was read.
LEMMA BatchKeeps ==
  ASSUME ProviderIInv, UNCHANGED call, UNCHANGED <<items, flags, read>>, quality \subseteq quality'
  PROVE  BatchFits'
  <1>1. /\ items' = items /\ flags' = flags /\ read' = read /\ query' = query /\ planned' = planned
        /\ \A kind : Evidence(kind)' = Evidence(kind)
    BY CallKeeps DEF Evidence, StreamScope, segment
  <1>2. Asked' = Asked /\ Expected' = Expected
    BY <1>1 DEF Asked, Expected, segment
  <1>3. ItemsFit'
    BY <1>1 DEF ProviderIInv, BatchFits, ItemsFit, segment
  <1>4. FlagsAreKept'
    BY <1>1, <1>2 DEF ProviderIInv, BatchFits, FlagsAreKept
  <1>5. MessagesAreKept'
    <2>1. Evidence("Corrupt")' = Evidence("Corrupt")
      BY <1>1
    <2> QED BY <1>1, <1>2, <2>1 DEF ProviderIInv, BatchFits, MessagesAreKept
  <1> QED BY <1>1, <1>3, <1>4, <1>5 DEF ProviderIInv, BatchFits

\* An exception leaves nothing of the batch.
LEMMA FailPreserves ==
  ASSUME ProviderIInv, Fail
  PROVE  ProviderIInv'
  <1>1. phase' = "failed" /\ conditions' = {} /\ symbols' = {} /\ NothingRead' /\ UNCHANGED call
    BY DEF Fail, NothingRead
  <1>2. BatchFits'
    BY <1>1, EmptyBatch, PTL
  <1>3. QualityIsOurs'
    <2>1. quality' = {} \union {Evidence(kind)' : kind \in {}}
      BY <1>1 DEF NothingRead
    <2> QED BY <1>1, <2>1 DEF QualityIsOurs
  <1> QED BY <1>1, <1>2, <1>3, CallKeeps DEF ProviderIInv, ConditionsAreAnswered

\* The requests before the records.
LEMMA RequestPreserves ==
  ASSUME ProviderIInv, Accept \/ AskConditions \/ \E lists \in SUBSET {"partial", "not_found"} : AskRange(lists)
  PROVE  ProviderIInv'
  <1>1. /\ UNCHANGED call /\ UNCHANGED <<items, flags, read, quality>>
        /\ phase \in {"called", "conditions", "range"} /\ phase' \in {"conditions", "range", "reading"}
        /\ ~Refuses /\ symbols' \subseteq {"partial", "not_found"} /\ NothingRead
    BY DEF Accept, AskConditions, AskRange, ProviderIInv
  <1>2. NothingRead'
    BY <1>1 DEF NothingRead
  <1>3. QualityIsOurs'
    <2>1. quality' = {} \union {Evidence(kind)' : kind \in {}}
      BY <1>2 DEF NothingRead
    <2> QED BY <1>1, <2>1 DEF QualityIsOurs
  <1>4. ConditionsAreAnswered'
    <2>1. MetadataGetDatasetCondition(DatesOf(planned.fetch))' = MetadataGetDatasetCondition(DatesOf(planned.fetch))
      BY <1>1, CallKeeps DEF MetadataGetDatasetCondition, DatesOf
    <2> QED BY <2>1 DEF Accept, AskConditions, AskRange, ProviderIInv, ConditionsAreAnswered
  <1> QED BY <1>1, <1>2, <1>3, <1>4, CallKeeps, BatchKeeps DEF ProviderIInv

\* The end of the stream adds the evidence of the answer and of the flags.
LEMMA ReturnPreserves ==
  ASSUME ProviderIInv, Return
  PROVE  ProviderIInv'
  <1> DEFINE kinds == ResponseKinds \union FlagKinds
  <1>1. /\ UNCHANGED call /\ UNCHANGED <<conditions, symbols, items, flags, read>>
        /\ phase = "reading" /\ phase' = "done" /\ ~Refuses
        /\ quality' = quality \union {Evidence(kind) : kind \in kinds}
        /\ symbols \subseteq {"partial", "not_found"}
    BY DEF Return, ProviderIInv
  <1>2. query' = query /\ planned' = planned /\ days' = days /\ \A kind : Evidence(kind)' = Evidence(kind)
    BY <1>1, CallKeeps DEF Evidence, StreamScope, segment
  <1>3. QualityIsOurs'
    <2>1. (ResponseKinds \union FlagKinds)' = kinds
      BY <1>1 DEF ResponseKinds, FlagKinds, ConditionKind
    <2>2. PICK corrupt \in SUBSET {Evidence("Corrupt")} :
            quality = corrupt \union {Evidence(kind) : kind \in {}}
      BY <1>1 DEF ProviderIInv, QualityIsOurs
    <2> HIDE DEF kinds
    <2>3. quality' = corrupt \union {Evidence(kind) : kind \in kinds}
      BY <1>1, <2>2
    <2>4. quality' = corrupt \union {Evidence(kind)' : kind \in kinds}
      BY <1>2, <2>3
    <2>5. corrupt \in SUBSET {Evidence("Corrupt")'}
      BY <1>2
    <2>6. phase' = "done"
      BY <1>1
    <2> QED BY <2>1, <2>4, <2>5, <2>6 DEF QualityIsOurs
  <1>4. ConditionsAreAnswered'
    <2>1. MetadataGetDatasetCondition(DatesOf(planned.fetch))' = MetadataGetDatasetCondition(DatesOf(planned.fetch))
      BY <1>2 DEF MetadataGetDatasetCondition, DatesOf
    <2> QED BY <1>1, <2>1 DEF ProviderIInv, ConditionsAreAnswered
  <1> QED BY <1>1, <1>3, <1>4, CallKeeps, BatchKeeps DEF ProviderIInv

\* The messages that were asked for, after one more.
LEMMA AskedAppended ==
  ASSUME ProviderIInv, NEW message \in Messages, ReadRecord(message)
  PROVE  /\ read' \in Seq(Messages) /\ Len(read') <= MaxMessages
         /\ \A i \in Asked' : \/ (i \in Asked /\ read'[i] = read[i])
                             \/ (IsAsked(message) /\ read'[i] = message)
         /\ Cardinality(Asked') = Cardinality(Asked) + (IF IsAsked(message) THEN 1 ELSE 0)
         /\ Cardinality(Expected') =
              Cardinality(Expected) + (IF IsAsked(message) /\ message.action # "None" THEN 1 ELSE 0)
         /\ Cardinality(Asked) \in Nat /\ Cardinality(Expected) \in Nat
  <1> DEFINE n == Len(read) + 1
             new(m) == IsAsked(m) /\ m.action # "None"
  <1>1. /\ read \in Seq(Messages) /\ Len(read) < MaxMessages /\ read' = Append(read, message)
        /\ query' = query /\ planned' = planned
    BY DEF ReadRecord, ProviderIInv, BatchFits, call
  <1>2. /\ read' \in Seq(Messages) /\ DOMAIN read' = 1..n /\ DOMAIN read = 1..Len(read) /\ Len(read) \in Nat
        /\ Len(read') = n /\ read'[n] = message /\ \A i \in 1..Len(read) : read'[i] = read[i]
    BY <1>1
  <1>3. Len(read') <= MaxMessages
    BY <1>1, <1>2, DatabentoAssumption
  <1>4. /\ Asked' = {i \in DOMAIN read' : IsAsked(read'[i])}
        /\ Expected' = {i \in DOMAIN read' : new(read'[i])}
        /\ Asked = {i \in DOMAIN read : IsAsked(read[i])}
        /\ Expected = {i \in DOMAIN read : new(read[i])}
    BY <1>1 DEF Asked, Expected, IsAsked, segment
  <1> HIDE DEF new
  <1>5. IsFiniteSet(1..Len(read)) /\ n \notin 1..Len(read)
    BY <1>2, FS_Interval
  <1>6. IsFiniteSet(Asked) /\ IsFiniteSet(Expected) /\ n \notin Asked /\ n \notin Expected
    <2>1. Asked \in SUBSET (1..Len(read)) /\ Expected \in SUBSET (1..Len(read))
      BY <1>2, <1>4
    <2> QED BY <1>5, <2>1, FS_Subset
  <1>7. Cardinality(Asked) \in Nat /\ Cardinality(Expected) \in Nat
    BY <1>6, FS_CardinalityType
  <1>8. /\ IsAsked(message) => Asked' = Asked \union {n}
        /\ ~IsAsked(message) => Asked' = Asked
        /\ new(message) => Expected' = Expected \union {n}
        /\ ~new(message) => Expected' = Expected
    BY <1>2, <1>4
  <1>9. \A i \in Asked' : \/ (i \in Asked /\ read'[i] = read[i])
                        \/ (IsAsked(message) /\ read'[i] = message)
    BY <1>2, <1>4
  <1> HIDE DEF n
  <1>10. /\ Cardinality(Asked \union {n}) = Cardinality(Asked) + 1
         /\ Cardinality(Expected \union {n}) = Cardinality(Expected) + 1
    BY <1>6, FS_AddElement
  <1>11. Cardinality(Asked') = Cardinality(Asked) + (IF IsAsked(message) THEN 1 ELSE 0)
    <2>1. CASE IsAsked(message)
      BY <1>8, <1>10, <2>1
    <2>2. CASE ~IsAsked(message)
      BY <1>7, <1>8, <2>2
    <2> QED BY <2>1, <2>2
  <1>12. Cardinality(Expected') = Cardinality(Expected) + (IF new(message) THEN 1 ELSE 0)
    <2>1. CASE new(message)
      BY <1>8, <1>10, <2>1
    <2>2. CASE ~new(message)
      BY <1>7, <1>8, <2>2
    <2> QED BY <2>1, <2>2
  <1> QED BY <1>2, <1>3, <1>7, <1>9, <1>11, <1>12 DEF new

\* A message that is not a no-op becomes an event or corrupt evidence.
LEMMA TranslationFacts ==
  ASSUME NEW message \in Messages
  PROVE  /\ Translation(message) \in {"mbo", "trade", "execution", "nothing", "corrupt"}
         /\ message.action # "None" => Translation(message) # "nothing"
         /\ message.action = "None" => Translation(message) = "nothing"
  <1>1. message.action \in {"Add", "Modify", "Cancel", "Clear", "Trade", "Fill", "None", "other"}
    BY DatabentoAssumption DEF Message
  <1>2. CASE message.action \in {"Add", "Modify", "Cancel", "Clear"}
    BY <1>2 DEF Translation
  <1>3. CASE message.action = "Trade"
    BY <1>3 DEF Translation
  <1>4. CASE message.action = "Fill"
    BY <1>4 DEF Translation
  <1>5. CASE message.action \in {"None", "other"}
    BY <1>5 DEF Translation
  <1> QED BY <1>1, <1>2, <1>3, <1>4, <1>5

\* Two items are appended one after the other.
LEMMA OneByOne ==
  ASSUME NEW T, NEW seq \in Seq(T), NEW x \in T, NEW y \in T
  PROVE  seq \o <<x, y>> = (seq \o <<x>>) \o <<y>>
  <1> DEFINE lhs == seq \o <<x, y>>
             one == seq \o <<x>>
             rhs == one \o <<y>>
  <1>1. /\ one \in Seq(T) /\ Len(one) = Len(seq) + 1 /\ one[Len(seq) + 1] = x
        /\ \A i \in 1..Len(seq) : one[i] = seq[i]
    OBVIOUS
  <1>2. /\ lhs \in Seq(T) /\ Len(lhs) = Len(seq) + 2
        /\ lhs[Len(seq) + 1] = x /\ lhs[Len(seq) + 2] = y
        /\ \A i \in 1..Len(seq) : lhs[i] = seq[i]
    OBVIOUS
  <1> HIDE DEF one
  <1>3. /\ rhs \in Seq(T) /\ Len(rhs) = Len(one) + 1 /\ rhs[Len(one) + 1] = y
        /\ \A i \in 1..Len(one) : rhs[i] = one[i]
    BY <1>1
  <1> HIDE DEF lhs, rhs
  <1>4. Len(lhs) = Len(rhs) /\ \A i \in 1..Len(lhs) : lhs[i] = rhs[i]
    BY <1>1, <1>2, <1>3
  <1>5. lhs = rhs
    BY <1>2, <1>3, <1>4, SeqEqual
  <1> QED BY <1>5 DEF lhs, rhs, one

\* The items after a message that was asked for: it is counted as a record, and
\* as an event, or a loss is on the record.
LEMMA ItemsAppended ==
  ASSUME ProviderIInv, NEW message \in Messages, ReadRecord(message), IsAsked(message)
  PROVE  /\ items' \in Seq(Ingest!Item)
         /\ \A i \in DOMAIN items' : /\ items'[i] \in Ingest!Item
                                     /\ Ingest!HeaderMatches(items'[i], query, segment)
         /\ Cardinality(Records(items')) = Cardinality(Records(items)) + 1
         /\ \E k \in {0, 1} :
              /\ Cardinality(Events(items')) = Cardinality(Events(items)) + k
              /\ k = 0 => \/ message.action = "None" \/ Evidence("Corrupt") \in quality'
                          \/ \E i \in DOMAIN items' : Ingest!IsInvalid(items'[i])
         /\ (\E i \in DOMAIN items : Ingest!IsInvalid(items[i]))
              => \E i \in DOMAIN items' : Ingest!IsInvalid(items'[i])
         /\ Cardinality(Records(items)) \in Nat /\ Cardinality(Events(items)) \in Nat
  <1> DEFINE kind == Translation(message)
             a == Item(message, "record")
             b == Item(message, kind)
             first == items \o <<a>>
             Fits(e) == e \in Ingest!Item /\ Ingest!HeaderMatches(e, query, segment)
  <1>1. /\ items \in Seq(Ingest!Item) /\ SegmentFits /\ ~Refuses /\ query \in Queries
        /\ \A i \in DOMAIN items : Fits(items[i])
    BY DEF ReadRecord, ProviderIInv, BatchFits, ItemsFit
  <1>2. /\ items' = items \o ItemsOf(message)
        /\ kind = "corrupt" => Evidence("Corrupt") \in quality'
    <2>1. MatchesSegment(message)
      BY <1>1, MatchesIsAsked
    <2> QED BY <2>1 DEF ReadRecord
  <1>3. a \in Ingest!Item /\ Fits(a) /\ a.kind = "record"
    BY <1>1, ItemFacts
  <1>4. kind \in {"mbo", "trade", "execution"} => b \in Ingest!Item /\ Fits(b) /\ b.kind = kind
    BY <1>1, ItemFacts
  <1>5. kind \in {"mbo", "trade", "execution", "nothing", "corrupt"}
        /\ (kind = "nothing" => message.action = "None")
    BY TranslationFacts
  <1>6. ItemsOf(message) = IF kind \in {"mbo", "trade", "execution"} THEN <<a, b>> ELSE <<a>>
    BY DEF ItemsOf
  <1> HIDE DEF a, b, kind, Fits
  <1>0. first = items \o <<a>>
    OBVIOUS
  <1> HIDE DEF first
  <1>7. /\ first \in Seq(Ingest!Item)
        /\ \A i \in DOMAIN first : first[i] = a \/ (i \in DOMAIN items /\ first[i] = items[i])
        /\ \A i \in DOMAIN items : i \in DOMAIN first /\ first[i] = items[i]
        /\ Cardinality(Records(first)) = Cardinality(Records(items)) + 1
        /\ Cardinality(Events(first)) = Cardinality(Events(items))
        /\ Cardinality(Records(items)) \in Nat /\ Cardinality(Events(items)) \in Nat
    <2>1. Appended(items, a, first)
      BY <1>0, <1>1, <1>3, CountAppended
    <2> QED BY <1>3, <2>1 DEF Appended
  <1>8. CASE kind \in {"mbo", "trade", "execution"}
    <2>1. items' = first \o <<b>>
      <3>1. items' = items \o <<a, b>>
        BY <1>2, <1>6, <1>8
      <3>2. b \in Ingest!Item
        BY <1>4, <1>8
      <3>3. items \o <<a, b>> = (items \o <<a>>) \o <<b>>
        BY <1>1, <1>3, <3>2, OneByOne
      <3> QED BY <1>0, <3>1, <3>3
    <2>2. /\ items' \in Seq(Ingest!Item)
          /\ \A i \in DOMAIN items' : items'[i] = b \/ (i \in DOMAIN first /\ items'[i] = first[i])
          /\ \A i \in DOMAIN first : i \in DOMAIN items' /\ items'[i] = first[i]
          /\ \E i \in DOMAIN items' : items'[i] = b
          /\ Cardinality(Records(items')) = Cardinality(Records(first)) + (IF b.kind = "record" THEN 1 ELSE 0)
          /\ Cardinality(Events(items')) =
               Cardinality(Events(first)) +
                 (IF b.kind \in {"mbo", "trade", "execution"} /\ ~Ingest!IsInvalid(b) THEN 1 ELSE 0)
      <3>1. Appended(first, b, items')
        BY <1>4, <1>7, <1>8, <2>1, CountAppended
      <3> QED BY <3>1 DEF Appended
    <2>3. \A i \in DOMAIN items' : Fits(items'[i])
      BY <1>1, <1>3, <1>4, <1>7, <1>8, <2>2
    <2>4. Cardinality(Records(items')) = Cardinality(Records(items)) + 1
      BY <1>4, <1>7, <1>8, <2>2
    <2>5. \E k \in {0, 1} :
            /\ Cardinality(Events(items')) = Cardinality(Events(items)) + k
            /\ k = 0 => \E i \in DOMAIN items' : Ingest!IsInvalid(items'[i])
      <3>1. CASE Ingest!IsInvalid(b)
        <4>1. Cardinality(Events(items')) = Cardinality(Events(items)) + 0
          BY <1>7, <2>2, <3>1
        <4> QED BY <2>2, <3>1, <4>1
      <3>2. CASE ~Ingest!IsInvalid(b)
        <4>1. Cardinality(Events(items')) = Cardinality(Events(items)) + 1
          BY <1>4, <1>7, <1>8, <2>2, <3>2
        <4> QED BY <4>1
      <3> QED BY <3>1, <3>2
    <2>6. (\E i \in DOMAIN items : Ingest!IsInvalid(items[i]))
            => \E i \in DOMAIN items' : Ingest!IsInvalid(items'[i])
      BY <1>7, <2>2
    <2> QED BY <1>7, <2>2, <2>3, <2>4, <2>5, <2>6 DEF Fits
  <1>9. CASE kind \in {"nothing", "corrupt"}
    <2>1. items' = first
      BY <1>0, <1>2, <1>6, <1>9
    <2>2. \A i \in DOMAIN items' : Fits(items'[i])
      BY <1>1, <1>3, <1>7, <2>1
    <2>3. Cardinality(Events(items')) = Cardinality(Events(items)) + 0
          /\ (message.action = "None" \/ Evidence("Corrupt") \in quality')
      BY <1>2, <1>5, <1>7, <1>9, <2>1
    <2> QED BY <1>7, <2>1, <2>2, <2>3 DEF Fits
  <1> QED BY <1>5, <1>8, <1>9

LEMMA ReadPreserves ==
  ASSUME ProviderIInv, NEW message \in Messages, ReadRecord(message)
  PROVE  ProviderIInv'
  <1>1. /\ UNCHANGED call /\ UNCHANGED <<phase, conditions, symbols>> /\ phase = "reading" /\ ~Refuses
        /\ SegmentFits /\ BatchFits
    BY DEF ReadRecord, ProviderIInv
  <1>2. query' = query /\ planned' = planned /\ days' = days /\ \A kind : Evidence(kind)' = Evidence(kind)
    BY <1>1, CallKeeps DEF Evidence, StreamScope, segment
  <1>3. ConditionsAreAnswered'
    <2>1. MetadataGetDatasetCondition(DatesOf(planned.fetch))' = MetadataGetDatasetCondition(DatesOf(planned.fetch))
      BY <1>2 DEF MetadataGetDatasetCondition, DatesOf
    <2> QED BY <1>1, <2>1 DEF ProviderIInv, ConditionsAreAnswered
  <1>4. QualityIsOurs'
    <2>1. PICK corrupt \in SUBSET {Evidence("Corrupt")} :
            quality = corrupt \union {Evidence(kind) : kind \in {}}
      BY <1>1 DEF ProviderIInv, QualityIsOurs
    <2>2. quality' \in SUBSET {Evidence("Corrupt")}
      BY <2>1 DEF ReadRecord
    <2>3. quality' = quality' \union {Evidence(kind)' : kind \in {}}
      OBVIOUS
    <2> QED BY <1>1, <1>2, <2>2, <2>3 DEF QualityIsOurs
  <1>5. BatchFits'
    <2>1. CASE IsAsked(message)
      <3>1. flags' = flags \union message.flags /\ message.flags \subseteq {"bad_book", "bad_receive"}
            /\ quality \subseteq quality'
        <4>1. MatchesSegment(message) /\ message \in Message
          BY <1>1, <2>1, MatchesIsAsked, DatabentoAssumption
        <4> QED BY <4>1 DEF ReadRecord, Message
      <3>2. ItemsFit'
        BY <1>2, <2>1, ItemsAppended DEF ItemsFit, segment
      <3>3. FlagsAreKept'
        BY <1>1, <3>1, AskedAppended DEF BatchFits, FlagsAreKept
      <3>4. MessagesAreKept'
        <4>1. Cardinality(Records(items')) = Cardinality(Asked')
          BY <1>1, <2>1, ItemsAppended, AskedAppended DEF BatchFits, MessagesAreKept
        <4>2. \/ Evidence("Corrupt") \in quality'
              \/ \E i \in DOMAIN items' : Ingest!IsInvalid(items'[i])
              \/ Cardinality(Events(items')) >= Cardinality(Expected')
          <5>1. PICK k \in {0, 1} :
                  /\ Cardinality(Events(items')) = Cardinality(Events(items)) + k
                  /\ k = 0 => \/ message.action = "None" \/ Evidence("Corrupt") \in quality'
                              \/ \E i \in DOMAIN items' : Ingest!IsInvalid(items'[i])
            BY <2>1, ItemsAppended
          <5>2. Cardinality(Expected') <= Cardinality(Expected) + 1
                /\ (message.action = "None" => Cardinality(Expected') = Cardinality(Expected))
                /\ Cardinality(Expected) \in Nat /\ Cardinality(Events(items)) \in Nat
                /\ Cardinality(Expected') \in Nat
            BY <2>1, AskedAppended, ItemsAppended
          <5>3. \/ Evidence("Corrupt") \in quality
                \/ \E i \in DOMAIN items : Ingest!IsInvalid(items[i])
                \/ Cardinality(Events(items)) >= Cardinality(Expected)
            BY <1>1 DEF BatchFits, MessagesAreKept
          <5>4. CASE Evidence("Corrupt") \in quality
            BY <3>1, <5>4
          <5>5. CASE \E i \in DOMAIN items : Ingest!IsInvalid(items[i])
            BY <2>1, <5>5, ItemsAppended
          <5>6. CASE Cardinality(Events(items)) >= Cardinality(Expected)
            BY <5>1, <5>2, <5>6
          <5> QED BY <5>3, <5>4, <5>5, <5>6
        <4> QED BY <1>2, <4>1, <4>2 DEF MessagesAreKept
      <3>5. flags' \subseteq {"bad_book", "bad_receive"}
        BY <1>1, <3>1 DEF BatchFits
      <3> QED BY <2>1, <3>2, <3>3, <3>4, <3>5, AskedAppended, ItemsAppended DEF BatchFits
    <2>2. CASE ~IsAsked(message)
      <3>1. UNCHANGED <<items, quality, flags>>
        <4>1. ~MatchesSegment(message)
          BY <1>1, <2>2, MatchesIsAsked
        <4> QED BY <4>1 DEF ReadRecord
      <3>2. ItemsFit'
        BY <1>1, <1>2, <3>1 DEF BatchFits, ItemsFit, segment
      <3>3. FlagsAreKept'
        BY <1>1, <2>2, <3>1, AskedAppended DEF BatchFits, FlagsAreKept
      <3>4. MessagesAreKept'
        <4>1. Cardinality(Asked') = Cardinality(Asked) /\ Cardinality(Expected') = Cardinality(Expected)
          BY <2>2, AskedAppended
        <4> QED BY <1>1, <1>2, <3>1, <4>1 DEF BatchFits, MessagesAreKept
      <3> QED BY <1>1, <3>1, <3>2, <3>3, <3>4, AskedAppended DEF BatchFits
    <2> QED BY <2>1, <2>2
  <1> QED BY <1>1, <1>3, <1>4, <1>5, CallKeeps DEF ProviderIInv

LEMMA StepProvider == ProviderIInv /\ [Next]_vars => ProviderIInv'
  <1> SUFFICES ASSUME ProviderIInv, [Next]_vars PROVE ProviderIInv'
    OBVIOUS
  <1>1. CASE Refuse \/ ClientThrows \/ \E message \in Messages : RecordThrows(message)
    <2>1. Fail
      BY <1>1 DEF Refuse, ClientThrows, RecordThrows
    <2> QED BY <2>1, FailPreserves
  <1>2. CASE Accept \/ AskConditions \/ \E lists \in SUBSET {"partial", "not_found"} : AskRange(lists)
    BY <1>2, RequestPreserves
  <1>3. ASSUME NEW message \in Messages, ReadRecord(message) PROVE ProviderIInv'
    BY <1>3, ReadPreserves
  <1>4. CASE Return
    BY <1>4, ReturnPreserves
  <1>5. CASE UNCHANGED vars
    <2>1. UNCHANGED call /\ UNCHANGED <<phase, conditions, symbols, items, quality, flags, read>>
      BY <1>5 DEF vars
    <2>2. query' = query /\ planned' = planned /\ days' = days /\ \A kind : Evidence(kind)' = Evidence(kind)
      BY <2>1, CallKeeps DEF Evidence, StreamScope, segment
    <2>3. ConditionsAreAnswered' /\ (phase' \notin {"reading", "done"} => NothingRead')
      <3>1. MetadataGetDatasetCondition(DatesOf(planned.fetch))' = MetadataGetDatasetCondition(DatesOf(planned.fetch))
        BY <2>2 DEF MetadataGetDatasetCondition, DatesOf
      <3> QED BY <2>1, <3>1 DEF ProviderIInv, ConditionsAreAnswered, NothingRead
    <2>4. QualityIsOurs'
      <3>1. (ResponseKinds \union FlagKinds)' = ResponseKinds \union FlagKinds
        BY <2>1 DEF ResponseKinds, FlagKinds, ConditionKind
      <3> QED BY <2>1, <2>2, <3>1 DEF ProviderIInv, QualityIsOurs
    <2> QED BY <2>1, <2>3, <2>4, CallKeeps, BatchKeeps DEF ProviderIInv
  <1> QED BY <1>1, <1>2, <1>3, <1>4, <1>5 DEF Next

\* The invariant holds of the call from its arguments to its result, whatever
\* the client answers and wherever it throws.
THEOREM SafeProvider == Spec => []ProviderIInv
  <1> QED BY InitProvider, StepProvider, PTL DEF Spec

-----------------------------------------------------------------------------
\* The evidence of the batch, and when it is all there.
Kinds == {"Complete", "Degraded", "Pending", "Missing", "Corrupt", "SequenceGap"}

LEMMA KindFacts ==
  /\ ResponseKinds \subseteq {"Complete", "Degraded", "Pending", "Missing"}
  /\ FlagKinds \subseteq {"Degraded", "SequenceGap"}
PROOF BY DEF ResponseKinds, ConditionKind, FlagKinds

LEMMA QualityFacts ==
  ASSUME ProviderIInv
  PROVE  /\ \A o \in quality : \E kind \in Kinds : o = Evidence(kind)
         /\ phase = "done" => \A kind \in ResponseKinds \union FlagKinds : Evidence(kind) \in quality
         /\ phase = "done" => \A o \in quality : \/ o = Evidence("Corrupt")
                                              \/ \E kind \in ResponseKinds \union FlagKinds : o = Evidence(kind)
         /\ phase \in {"called", "failed"} => quality = {} /\ items = <<>>
         /\ phase \notin {"called", "failed"} => SegmentFits /\ ~Refuses
  <1> DEFINE kinds == IF phase = "done" THEN ResponseKinds \union FlagKinds ELSE {}
  <1>1. PICK corrupt \in SUBSET {Evidence("Corrupt")} :
          quality = corrupt \union {Evidence(kind) : kind \in kinds}
    BY DEF ProviderIInv, QualityIsOurs
  <1>2. kinds \subseteq Kinds
    BY KindFacts DEF Kinds
  <1>3. "Corrupt" \in Kinds
    BY DEF Kinds
  <1>4. \A o \in quality : o = Evidence("Corrupt") \/ \E kind \in kinds : o = Evidence(kind)
    BY <1>1
  <1>5. \A kind \in kinds : Evidence(kind) \in quality
    BY <1>1
  <1>6. /\ phase \in {"called", "failed"} => quality = {} /\ items = <<>>
        /\ phase \notin {"called", "failed"} => SegmentFits /\ ~Refuses
    BY DEF ProviderIInv, NothingRead
  <1> QED BY <1>2, <1>3, <1>4, <1>5, <1>6

\* The batch keeps the contract of the port at every record.
LEMMA BatchIsKept == ProviderIInv => BatchInv
  <1> SUFFICES ASSUME ProviderIInv PROVE BatchInv
    OBVIOUS
  <1>1. quality \subseteq Facts!QualityObservation
    <2>1. CASE phase \in {"called", "failed"}
      BY <2>1, QualityFacts
    <2>2. CASE phase \notin {"called", "failed"}
      BY <2>2, QualityFacts, StreamFacts DEF Kinds
    <2> QED BY <2>1, <2>2
  <1>2. conditions \subseteq Condition
    BY DatabentoAssumption DEF ProviderIInv, ConditionsAreAnswered, MetadataGetDatasetCondition
  <1>3. TypeOK
    BY <1>1, <1>2, SameRanges DEF ProviderIInv, BatchFits, ItemsFit, TypeOK
  <1>4. \A o \in quality : /\ Ingest!Overlaps(segment.range, o.range)
                           /\ Ingest!QualityScopeMatches(o.scope, query, segment)
    <2> SUFFICES ASSUME NEW o \in quality
                 PROVE  /\ Ingest!Overlaps(segment.range, o.range)
                        /\ Ingest!QualityScopeMatches(o.scope, query, segment)
      OBVIOUS
    <2>1. SegmentFits /\ ~Refuses
      BY QualityFacts
    <2>2. o.range = segment.range /\ o.scope = StreamScope
      BY QualityFacts DEF Evidence
    <2>3. segment.range.start < segment.range.end
      BY <2>1, StreamFacts, RangeEnds
    <2>4. Overlaps(segment.range, o.range)
      BY <2>2, <2>3 DEF Overlaps
    <2>5. Ingest!QualityScopeMatches(o.scope, query, segment)
      BY <2>1, <2>2, SameRanges DEF SegmentFits, StreamScope, Ingest!QualityScopeMatches
    <2> QED BY <2>4, <2>5, SameRanges
  <1>5. ~Ingest!Rejects(query, segment, Response)
    BY <1>4 DEF Response, Ingest!Rejects
  <1> QED BY <1>3, <1>5 DEF ProviderIInv, BatchFits, ItemsFit, BatchInv, ContractKept

\* The types and the contract of the provider port, at every record of fetch(),
\* for every plan and every message (databento_provider.hpp, ingest()).
THEOREM BatchesKeepTheContract == Spec => []BatchInv
  <1> QED BY SafeProvider, BatchIsKept, PTL

-----------------------------------------------------------------------------
\* The evidence ingest() takes from the batch: that of the batch as it is, and
\* its own of a record that fails validation.
LEMMA EvidenceFacts ==
  ASSUME ProviderIInv, phase = "done"
  PROVE  LET E == Ingest!EvidenceOf(query, segment, Response)
         IN  /\ quality \subseteq E
             /\ E \subseteq quality \union {Evidence("Corrupt")}
             /\ (\E i \in DOMAIN items : Ingest!IsInvalid(items[i])) => Evidence("Corrupt") \in E
             /\ E \subseteq Facts!QualityObservation
  <1> DEFINE E == Ingest!EvidenceOf(query, segment, Response)
  <1>1. SegmentFits /\ ~Refuses
    BY QualityFacts
  <1>2. Response.quality = quality /\ Response.items = items
    BY DEF Response
  <1>3. \A o \in quality : o.range = segment.range /\ o.scope = StreamScope /\ o = Evidence(o.kind)
    BY QualityFacts DEF Evidence
  <1>4. Intersection(segment.range, segment.range) = {segment.range}
    <2>1. segment.range \in TimeRange
      BY <1>1, StreamFacts
    <2>2. segment.range.start < segment.range.end
      BY <2>1, RangeEnds
    <2>3. segment.range.start \in Int /\ segment.range.end \in Int
          /\ segment.range = [start |-> segment.range.start, end |-> segment.range.end]
      BY <2>1, RangeEnds DEF TimeRange
    <2> QED BY <2>2, <2>3 DEF Intersection
  <1>5. Ingest!ResponseEvidence(query, segment, Response) = quality
    <2>1. \A o \in quality : Ingest!EvidenceScopes(o, query, segment, Response) = {StreamScope}
      BY <1>1, <1>3, StreamFacts, SameRanges DEF Ingest!EvidenceScopes
    <2>2. \A o \in quality : {[range |-> c, kind |-> o.kind, scope |-> s] :
            c \in Ingest!Intersection(segment.range, o.range),
            s \in Ingest!EvidenceScopes(o, query, segment, Response)} = {o}
      <3> SUFFICES ASSUME NEW o \in quality
                   PROVE  {[range |-> c, kind |-> o.kind, scope |-> s] :
                             c \in Ingest!Intersection(segment.range, o.range),
                             s \in Ingest!EvidenceScopes(o, query, segment, Response)} = {o}
        OBVIOUS
      <3>1. Ingest!Intersection(segment.range, o.range) = {segment.range}
        BY <1>3, <1>4, SameRanges
      <3>2. o = [range |-> segment.range, kind |-> o.kind, scope |-> StreamScope]
        BY <1>3 DEF Evidence
      <3> QED BY <2>1, <3>1, <3>2
    <2> QED BY <1>2, <2>2 DEF Ingest!ResponseEvidence
  <1>6. /\ \A scope \in Ingest!InvalidScopes(query, segment, Response) : scope = StreamScope
        /\ (\E i \in DOMAIN items : Ingest!IsInvalid(items[i]))
             => StreamScope \in Ingest!InvalidScopes(query, segment, Response)
    <2>1. \A i \in DOMAIN items : /\ Ingest!HeaderMatches(items[i], query, segment)
                                  /\ Ingest!ScopeOf(items[i]) = StreamScope
      BY <1>1, StreamFacts, SameRanges
      DEF ProviderIInv, BatchFits, ItemsFit, Ingest!HeaderMatches, Ingest!ScopeOf, StreamScope
    <2>2. Ingest!Matching(query, segment, Response) = {items[i] : i \in DOMAIN items}
      BY <1>2, <2>1 DEF Ingest!Matching, Ingest!Elements
    <2> QED BY <2>1, <2>2 DEF Ingest!InvalidScopes
  <1>7. /\ \A o \in Ingest!CorruptEvidence(query, segment, Response) : o = Evidence("Corrupt")
        /\ (\E i \in DOMAIN items : Ingest!IsInvalid(items[i]))
             => Evidence("Corrupt") \in Ingest!CorruptEvidence(query, segment, Response)
    BY <1>6 DEF Ingest!CorruptEvidence, Evidence
  <1>8. E = quality \union Ingest!CorruptEvidence(query, segment, Response)
    BY <1>5 DEF Ingest!EvidenceOf
  <1>9. quality \subseteq Facts!QualityObservation /\ Evidence("Corrupt") \in Facts!QualityObservation
    BY <1>1, BatchIsKept, StreamFacts, SameRanges DEF BatchInv, TypeOK
  <1> QED BY <1>7, <1>8, <1>9

\* The state of the stream, from the evidence of the batch.
LEMMA StateOfTheStream ==
  ASSUME ProviderIInv, phase = "done", NEW t \in Instants(segment.range)
  PROVE  /\ Evidence("Corrupt") \in quality \/ (\E i \in DOMAIN items : Ingest!IsInvalid(items[i]))
              => State(t) = "Corrupt"
         /\ State(t) = "Complete" => "Complete" \in ResponseKinds /\ FlagKinds = {}
         /\ "Missing" \in ResponseKinds => ~Usable(t)
  <1> DEFINE E == Ingest!EvidenceOf(query, segment, Response)
             there == Facts!EvidenceAt(t, StreamScope, E)
  <1>1. /\ quality \subseteq E /\ E \subseteq quality \union {Evidence("Corrupt")}
        /\ (\E i \in DOMAIN items : Ingest!IsInvalid(items[i])) => Evidence("Corrupt") \in E
        /\ E \in SUBSET Facts!QualityObservation
    BY EvidenceFacts
  <1>2. State(t) = Facts!StateAt(t, StreamScope, E) /\ (Usable(t) <=> Facts!IsUsable(State(t)))
    BY SameStates DEF State, Usable
  <1> HIDE DEF E
  <1>3. \A kind : Evidence(kind) \in E => Evidence(kind) \in there
    <2>1. Contains(segment.range, t)
      <3>1. segment.range.start \in Int /\ segment.range.end \in Int
        BY QualityFacts, StreamFacts, RangeEnds
      <3> QED BY <3>1 DEF Instants, Contains
    <2>2. \A kind : Evidence(kind).range = segment.range /\ Evidence(kind).scope = StreamScope
      BY DEF Evidence
    <2> QED BY <2>1, <2>2, SameRanges DEF Facts!EvidenceAt
  <1>4. \A kind : Evidence(kind).kind = kind
    BY DEF Evidence
  <1>5. /\ State(t) \in Facts!DataState
        /\ State(t) # "Unknown" => \E o \in there : Facts!StateForQuality(o.kind) = State(t)
        /\ \A o \in there :
             Facts!Severity[Facts!StateForQuality(o.kind)] <= Facts!Severity[State(t)]
    BY <1>1, <1>2, Facts!StateAtFacts, TimeBounds, NoScopeIsNoPair
  <1>6. there \subseteq E
    BY DEF Facts!EvidenceAt
  <1> HIDE DEF there
  <1>7. \A kind : Evidence(kind) \in E
          => Facts!Severity[Facts!StateForQuality(kind)] <= Facts!Severity[State(t)]
    BY <1>3, <1>4, <1>5
  <1>8. Evidence("Corrupt") \in E => State(t) = "Corrupt"
    <2>1. Facts!StateForQuality("Corrupt") = "Corrupt"
      BY DEF Facts!StateForQuality
    <2> QED BY <1>5, <1>7, <2>1 DEF Facts!DataState, Facts!Severity
  <1>9. \A kind \in ResponseKinds \union FlagKinds : Evidence(kind) \in E
    BY <1>1, QualityFacts
  <1>10. "Missing" \in ResponseKinds => ~Usable(t)
    <2>1. Facts!StateForQuality("Missing") = "Missing"
      BY DEF Facts!StateForQuality
    <2>2. "Missing" \in ResponseKinds => Facts!Severity["Missing"] <= Facts!Severity[State(t)]
      BY <1>7, <1>9, <2>1
    <2>3. Facts!Severity["Missing"] <= Facts!Severity[State(t)] => ~Facts!IsUsable(State(t))
      BY <1>5 DEF Facts!DataState, Facts!Severity, Facts!IsUsable
    <2> QED BY <1>2, <2>2, <2>3
  <1>11. State(t) = "Complete" => "Complete" \in ResponseKinds /\ FlagKinds = {}
    <2> SUFFICES ASSUME State(t) = "Complete" PROVE "Complete" \in ResponseKinds /\ FlagKinds = {}
      OBVIOUS
    <2>1. PICK o \in there : Facts!StateForQuality(o.kind) = "Complete"
      BY <1>5
    <2>2. o # Evidence("Corrupt")
      BY <1>4, <2>1 DEF Facts!StateForQuality
    <2>3. PICK kind \in ResponseKinds \union FlagKinds : o = Evidence(kind)
      BY <1>1, <1>6, <2>2, QualityFacts
    <2>4. kind \in {"Complete", "Degraded", "Pending", "Missing", "SequenceGap"}
          /\ Facts!StateForQuality(kind) = "Complete"
      BY <1>4, <2>1, <2>3, KindFacts
    <2>5. kind = "Complete"
      BY <2>4 DEF Facts!StateForQuality
    <2>6. "Complete" \in ResponseKinds
      BY <2>3, <2>5, KindFacts
    <2>7. FlagKinds = {}
      <3>1. \A k \in {"Degraded", "SequenceGap"} :
              ~(Facts!Severity[Facts!StateForQuality(k)] <= Facts!Severity[State(t)])
        <4>1. \A k \in {"Degraded", "SequenceGap"} : Facts!StateForQuality(k) = "Degraded"
          BY DEF Facts!StateForQuality
        <4> QED BY <4>1 DEF Facts!Severity
      <3>2. \A k \in FlagKinds : Evidence(k) \in E
        BY <1>9
      <3> QED BY <1>7, <3>1, <3>2, KindFacts
    <2> QED BY <2>6, <2>7
  <1> QED BY <1>1, <1>8, <1>10, <1>11

LEMMA CountsAreFinite ==
  ASSUME ProviderIInv
  PROVE  Cardinality(Events(items)) \in Nat /\ Cardinality(Expected) \in Nat
  <1>1. IsFiniteSet(1..Len(items)) /\ IsFiniteSet(1..Len(read))
    <2>1. Len(items) \in Nat /\ Len(read) \in Nat
      BY DEF ProviderIInv, BatchFits
    <2> QED BY <2>1, FS_Interval
  <1>2. Events(items) \in SUBSET (1..Len(items)) /\ Expected \in SUBSET (1..Len(read))
    BY DEF ProviderIInv, BatchFits, Events, Expected, Asked
  <1> QED BY <1>1, <1>2, FS_Subset, FS_CardinalityType

\* Every message the query asks for is a record of the result, and an event
\* unless it is a no-op, or its stream is Corrupt throughout.
LEMMA LossShows == ProviderIInv => LossIsVisible
  <1> SUFFICES ASSUME ProviderIInv, phase = "done" PROVE LossIsVisible
    BY DEF LossIsVisible
  <1> DEFINE kept(kinds) == {i \in DOMAIN items : /\ items[i].kind \in kinds
                                                  /\ Ingest!HeaderMatches(items[i], query, segment)
                                                  /\ ~Ingest!IsInvalid(items[i])}
  <1>1. \A i \in DOMAIN items : Ingest!HeaderMatches(items[i], query, segment)
    BY DEF ProviderIInv, BatchFits, ItemsFit
  <1>2. kept({"record"}) = Records(items) /\ kept({"mbo", "trade", "execution"}) = Events(items)
    BY <1>1 DEF Records, Events, Ingest!IsInvalid
  <1>3. {i \in Asked : read[i].action # "None"} = Expected
    BY DEF Expected
  <1>4. MessagesAreKept
    BY DEF ProviderIInv, BatchFits
  <1>5. Cardinality(Events(items)) < Cardinality(Expected) =>
          \A t \in Instants(segment.range) : State(t) = "Corrupt"
    <2>1. Cardinality(Events(items)) \in Nat /\ Cardinality(Expected) \in Nat
      BY CountsAreFinite
    <2>2. Cardinality(Events(items)) < Cardinality(Expected) =>
            \/ Evidence("Corrupt") \in quality
            \/ \E i \in DOMAIN items : Ingest!IsInvalid(items[i])
      BY <1>4, <2>1 DEF MessagesAreKept
    <2> QED BY <2>2, StateOfTheStream
  <1> QED BY <1>2, <1>3, <1>4, <1>5 DEF LossIsVisible, MessagesAreKept

\* No message that was asked for is lost in silence (translate_mbo(), validation).
THEOREM LossesAreVisible == Spec => []LossIsVisible
  <1> QED BY SafeProvider, LossShows, PTL

-----------------------------------------------------------------------------
\* A later instant is on no earlier day.
LEMMA DaysAreMonotone ==
  ASSUME NEW a \in Nat, NEW b \in Nat, a <= b, NEW D \in Nat \ {0}
  PROVE  a \div D \in Nat /\ b \div D \in Nat /\ a \div D <= b \div D
  <1> DEFINE p == a \div D
             q == b \div D
  <1>1. p \in Nat /\ q \in Nat /\ p * D <= a /\ b < (q + 1) * D
    OBVIOUS
  <1> HIDE DEF p, q
  <1>2. p <= q
    <2> SUFFICES ASSUME q + 1 <= p PROVE FALSE
      BY <1>1
    <2>1. (q + 1) * D <= p * D
      <3>1. PICK k \in Nat : p = q + 1 + k
        <4>1. p - (q + 1) \in Nat /\ p = q + 1 + (p - (q + 1))
          BY <1>1
        <4> QED BY <4>1
      <3>2. p * D = (q + 1) * D + k * D /\ k * D \in Nat /\ (q + 1) * D \in Nat
        BY <1>1, <3>1
      <3> QED BY <3>2
    <2>2. p * D \in Nat /\ (q + 1) * D \in Nat
      BY <1>1
    <2> QED BY <1>1, <2>1, <2>2
  <1> QED BY <1>1, <1>2 DEF p, q

\* The days of the fetch range are among the dates of the request for conditions.
LEMMA FetchedDaysAreAsked ==
  ASSUME ProviderIInv, phase = "done"
  PROVE  \A d \in FetchedDays : d \in DOMAIN days /\ days[d] \in conditions
  <1>1. /\ planned.fetch.start \in Nat /\ planned.fetch.end \in Int /\ DayLength \in Nat \ {0}
        /\ conditions = MetadataGetDatasetCondition(DatesOf(planned.fetch))
    BY QualityFacts, DatabentoAssumption DEF ProviderIInv, SegmentFits, Refuses, ConditionsAreAnswered
  <1>2. \A t \in Instants(planned.fetch) : t \div DayLength \in DatesOf(planned.fetch)
    <2> SUFFICES ASSUME NEW t \in Instants(planned.fetch) PROVE t \div DayLength \in DatesOf(planned.fetch)
      OBVIOUS
    <2>1. t \in Nat /\ planned.fetch.start <= t /\ t <= planned.fetch.end /\ planned.fetch.end \in Nat
      BY <1>1 DEF Instants
    <2>2. /\ planned.fetch.start \div DayLength \in Int /\ t \div DayLength \in Int
          /\ planned.fetch.end \div DayLength \in Int
          /\ planned.fetch.start \div DayLength <= t \div DayLength
          /\ t \div DayLength <= planned.fetch.end \div DayLength
      BY <1>1, <2>1, DaysAreMonotone
    <2> QED BY <2>2 DEF DatesOf
  <1> QED BY <1>1, <1>2 DEF FetchedDays, DaysOf, MetadataGetDatasetCondition

\* Only a vouched-for answer gives a Complete state.
LEMMA CompleteIsTold == ProviderIInv => CompleteIsVouched
  <1> SUFFICES ASSUME ProviderIInv, phase = "done", NEW t \in Instants(segment.range), State(t) = "Complete"
               PROVE  /\ symbols = {}
                      /\ \A d \in FetchedDays : days[d] = "available"
                      /\ \A i \in Asked : read[i].flags = {}
    BY DEF CompleteIsVouched
  <1>1. "Complete" \in ResponseKinds /\ FlagKinds = {}
    BY StateOfTheStream
  <1>2. symbols = {} /\ "Complete" \in ConditionKind(conditions)
    BY <1>1 DEF ResponseKinds, ProviderIInv
  <1>3. conditions \subseteq {"available"}
    <2>1. conditions \subseteq {"available", "degraded", "pending", "missing"}
      BY BatchIsKept DEF BatchInv, TypeOK, Condition
    <2> QED BY <1>2, <2>1 DEF ConditionKind
  <1>4. flags = {}
    BY <1>1 DEF FlagKinds, ProviderIInv, BatchFits
  <1>5. \A i \in Asked : read[i].flags \subseteq flags
    BY DEF ProviderIInv, BatchFits, FlagsAreKept
  <1> QED BY <1>2, <1>3, <1>4, <1>5, FetchedDaysAreAsked

\* Complete needs resolved symbols, only available days and no flagged record
\* (condition_kind(), fetch()).
THEOREM CompleteNeedsAVoucher == Spec => []CompleteIsVouched
  <1> QED BY SafeProvider, CompleteIsTold, PTL

LEMMA UnavailableIsTold == ProviderIInv => UnavailableIsNotUsable
  <1> SUFFICES ASSUME ProviderIInv, phase = "done", symbols # {"partial"},
                      NEW t \in Instants(segment.range),
                      "not_found" \in symbols \/ \E d \in DaysBehind(t) : days[d] = "missing"
               PROVE  ~Usable(t)
    BY DEF UnavailableIsNotUsable
  <1>1. "Missing" \in ResponseKinds
    <2>1. CASE "not_found" \in symbols
      BY <2>1 DEF ResponseKinds
    <2>2. CASE "not_found" \notin symbols
      <3>1. symbols = {}
        BY <2>2 DEF ProviderIInv
      <3>2. DaysBehind(t) \subseteq FetchedDays
        BY DEF DaysBehind, FetchedDays, DaysOf
      <3>3. "missing" \in conditions
        BY <2>2, <3>2, FetchedDaysAreAsked
      <3> QED BY <3>1, <3>3 DEF ResponseKinds, ConditionKind
    <2> QED BY <2>1, <2>2
  <1> QED BY <1>1, StateOfTheStream

\* Where the symbol was not found, or a day behind an instant is missing, the
\* instant is not usable, partly resolved symbols excepted (condition_kind(),
\* fetch()).
THEOREM UnavailableIsNeverUsed == Spec => []UnavailableIsNotUsable
  <1> QED BY SafeProvider, UnavailableIsTold, PTL
=============================================================================
