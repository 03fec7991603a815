--------------------------- MODULE IngestorProofs --------------------------
(***************************************************************************)
(* ingest(): what holds of it for every registry, query and provider       *)
(* answer, and for any number of segments.                                 *)
(***************************************************************************)
EXTENDS IngestorRefinement, SequenceTheorems, FiniteSetTheorems, TLAPS

\* The facts about the reduction, for the stream scopes of ingest().
Facts == INSTANCE TimeRangeProofs WITH Scope <- Venues \X Sources, NoScope <- NoScope

USE DEF Timestamp

-----------------------------------------------------------------------------
\* The assumption of the facts: NoScope is no pair of a venue and a source.
LEMMA NoScopeIsNoPair == NoScope \notin Venues \X Sources
PROOF BY DEF NoScope

\* Every non-empty set of naturals has a least element.
LEMMA LeastNatural ==
  ASSUME NEW S \in SUBSET Nat, S # {}
  PROVE  \E x \in S : \A y \in S : x <= y
PROOF BY Facts!LeastNatural, TimeBounds, NoScopeIsNoPair

\* One step of the recursion of Select.
TakeStep(seq, S, taken, n) ==
  IF n = 0 THEN <<>>
  ELSE IF seq[n] \in S THEN Append(taken[n - 1], seq[n])
  ELSE taken[n - 1]

\* The recursion has a solution, whatever the length of the sequence.
LEMMA SelectIsDefined ==
  ASSUME NEW seq, NEW S, NEW N \in Nat
  PROVE  \E g : g = [n \in 0..N |-> TakeStep(seq, S, g, n)]
  <1> DEFINE Bad == {n \in Nat : ~\E g : g = [k \in 0..n |-> TakeStep(seq, S, g, k)]}
  <1>1. Bad = {}
    <2> SUFFICES ASSUME Bad # {} PROVE FALSE
      OBVIOUS
    <2>1. PICK m \in Bad : \A k \in Bad : m <= k
      <3>1. Bad \in SUBSET Nat
        OBVIOUS
      <3> HIDE DEF Bad
      <3> QED BY <3>1, LeastNatural
    <2>2. m \in Nat /\ ~\E g : g = [k \in 0..m |-> TakeStep(seq, S, g, k)]
      OBVIOUS
    <2>3. m # 0
      <3> DEFINE g == [k \in 0..0 |-> <<>>]
      <3>1. g = [k \in 0..0 |-> TakeStep(seq, S, g, k)]
        BY DEF TakeStep
      <3> QED BY <2>2, <3>1
    <2>4. (m - 1) \in Nat /\ (m - 1) \notin Bad
      <3>1. m \in Nat /\ m # 0 /\ (m - 1) \in Nat /\ ~(m <= m - 1)
        BY <2>2, <2>3
      <3> HIDE DEF Bad
      <3> QED BY <2>1, <3>1
    <2>5. PICK g : g = [k \in 0..(m - 1) |-> TakeStep(seq, S, g, k)]
      BY <2>4
    <2> DEFINE h == [k \in 0..m |-> IF k = m THEN TakeStep(seq, S, g, m) ELSE g[k]]
    <2>6. \A k \in 0..m : h[k] = TakeStep(seq, S, h, k)
      <3> SUFFICES ASSUME NEW k \in 0..m PROVE h[k] = TakeStep(seq, S, h, k)
        OBVIOUS
      <3>1. k # 0 => h[k - 1] = g[k - 1]
        BY <2>4
      <3>2. CASE k = m
        BY <3>1, <3>2, <2>3 DEF TakeStep
      <3>3. CASE k # m
        <4>1. k \in 0..(m - 1) /\ h[k] = g[k]
          BY <2>4, <3>3
        <4>2. g[k] = TakeStep(seq, S, g, k)
          BY <2>5, <4>1
        <4> QED BY <3>1, <4>1, <4>2 DEF TakeStep
      <3> QED BY <3>2, <3>3
    <2>7. h = [k \in 0..m |-> TakeStep(seq, S, h, k)]
      <3>1. h = [k \in 0..m |-> h[k]]
        OBVIOUS
      <3> HIDE DEF h
      <3> QED BY <2>6, <3>1
    <2> QED BY <2>2, <2>7
  <1> QED BY <1>1

\* Select keeps elements of the sequence that are in the set, and no others.
LEMMA SelectFacts ==
  ASSUME NEW T, NEW seq \in Seq(T), NEW S
  PROVE  /\ Select(seq, S) \in Seq(T)
         /\ Elements(Select(seq, S)) \subseteq Elements(seq) \intersect S
  <1> DEFINE f == CHOOSE g : g = [n \in 0..Len(seq) |-> TakeStep(seq, S, g, n)]
             Good(s) == s \in Seq(T) /\ Elements(s) \subseteq Elements(seq) \intersect S
             Bad == {n \in Nat : n <= Len(seq) /\ ~Good(f[n])}
  <1>1. Select(seq, S) = f[Len(seq)] /\ Len(seq) \in Nat
    BY DEF Select, TakeStep
  <1>2. f = [n \in 0..Len(seq) |-> TakeStep(seq, S, f, n)]
    <2>1. \E g : g = [n \in 0..Len(seq) |-> TakeStep(seq, S, g, n)]
      BY <1>1, SelectIsDefined
    <2> QED BY <2>1
  <1> HIDE DEF f
  <1>3. \A n \in 0..Len(seq) : f[n] = TakeStep(seq, S, f, n)
    <2> QED BY <1>2
  <1>4. Good(<<>>)
    BY DEF Elements
  <1>5. ASSUME NEW s, Good(s), NEW x \in Elements(seq) \intersect S
        PROVE  Good(Append(s, x))
    <2>1. x \in T /\ s \in Seq(T)
      BY <1>5 DEF Elements
    <2>2. Append(s, x) \in Seq(T) /\ DOMAIN Append(s, x) = 1..(Len(s) + 1) /\ DOMAIN s = 1..Len(s)
          /\ Append(s, x)[Len(s) + 1] = x /\ \A i \in 1..Len(s) : Append(s, x)[i] = s[i]
          /\ Len(s) \in Nat
      BY <2>1
    <2>3. Elements(Append(s, x)) \subseteq Elements(s) \union {x}
      BY <2>2 DEF Elements
    <2> QED BY <1>5, <2>2, <2>3
  <1>6. Bad = {}
    <2> SUFFICES ASSUME Bad # {} PROVE FALSE
      OBVIOUS
    <2>1. PICK m \in Bad : \A k \in Bad : m <= k
      <3>1. Bad \in SUBSET Nat
        OBVIOUS
      <3> HIDE DEF Bad
      <3> QED BY <3>1, LeastNatural
    <2>2. m \in Nat /\ m <= Len(seq) /\ ~Good(f[m]) /\ m \in 0..Len(seq)
      BY <1>1
    <2>3. m # 0
      BY <1>3, <1>4, <2>2 DEF TakeStep
    <2>4. (m - 1) \in Nat /\ Good(f[m - 1])
      <3>1. m \in Nat /\ m # 0 /\ (m - 1) \in Nat /\ ~(m <= m - 1) /\ m - 1 <= Len(seq)
        BY <1>1, <2>2, <2>3
      <3>2. (m - 1) \notin Bad
        <4> HIDE DEF Bad
        <4> QED BY <2>1, <3>1
      <3> HIDE DEF Good
      <3> QED BY <3>1, <3>2
    <2>5. m \in 1..Len(seq) /\ seq[m] \in Elements(seq)
      BY <1>1, <2>2, <2>3 DEF Elements
    <2> HIDE DEF Good
    <2>6. CASE seq[m] \in S
      BY <1>3, <1>5, <2>2, <2>3, <2>4, <2>5, <2>6 DEF TakeStep
    <2>7. CASE seq[m] \notin S
      BY <1>3, <2>2, <2>3, <2>4, <2>7 DEF TakeStep
    <2> QED BY <2>6, <2>7
  <1>7. Good(f[Len(seq)])
    <2> HIDE DEF Good
    <2> QED BY <1>1, <1>6
  <1> QED BY <1>1, <1>7

-----------------------------------------------------------------------------
\* The planner, the reducer and ingest() speak of the same ranges.
LEMMA SameRanges ==
  /\ Quality!TimeRange = TimeRange /\ Planner!TimeRange = TimeRange /\ Facts!TimeRange = TimeRange
  /\ Planner!Mapping = Mapping
  /\ Quality!QualityObservation = Facts!QualityObservation
  /\ Quality!DataState = Facts!DataState
  /\ \A r, t : Facts!Contains(r, t) = Contains(r, t) /\ Planner!Contains(r, t) = Contains(r, t)
  /\ \A r : Facts!Instants(r) = Instants(r)
  /\ \A r, s : Quality!Overlaps(r, s) = Overlaps(r, s)
PROOF BY DEF TimeRange, Quality!TimeRange, Planner!TimeRange, Facts!TimeRange,
             Quality!Timestamp, Planner!Timestamp, Facts!Timestamp,
             Planner!Mapping, Mapping, Planner!None, None,
             Quality!QualityObservation, Facts!QualityObservation, Quality!QualityKind,
             Facts!QualityKind, Quality!DataState, Facts!DataState,
             Contains, Facts!Contains, Planner!Contains, Instants, Facts!Instants,
             Overlaps, Quality!Overlaps

\* The lemmas of the same names, for the ranges of ingest().
LEMMA RangeEnds ==
  ASSUME NEW r \in TimeRange
  PROVE  /\ r = [start |-> r.start, end |-> r.end]
         /\ r.start \in Int /\ r.end \in Int /\ r.start < r.end
PROOF BY TimeBounds DEF TimeRange

LEMMA IntersectionShares ==
  ASSUME NEW l \in TimeRange, NEW r \in TimeRange
  PROVE  /\ \A c \in Intersection(l, r) :
              /\ c \in TimeRange
              /\ l.start <= c.start /\ c.end <= l.end
              /\ r.start <= c.start /\ c.end <= r.end
         /\ \A t \in Int : Contains(l, t) /\ Contains(r, t) =>
              \E c \in Intersection(l, r) : Contains(c, t)
  <1>1. \A x, y : Facts!Intersection(x, y) = Intersection(x, y)
    BY DEF Facts!Intersection, Intersection
  <1>2. l \in Facts!TimeRange /\ r \in Facts!TimeRange
    BY SameRanges
  <1>3. /\ \A c \in Facts!Intersection(l, r) :
             /\ c \in Facts!TimeRange
             /\ l.start <= c.start /\ c.end <= l.end
             /\ r.start <= c.start /\ c.end <= r.end
        /\ \A t \in Int : Facts!Contains(l, t) /\ Facts!Contains(r, t) =>
             \E c \in Facts!Intersection(l, r) : Facts!Contains(c, t)
    BY <1>2, Facts!IntersectionShares, TimeBounds, NoScopeIsNoPair
  <1> QED BY <1>1, <1>3, SameRanges

LEMMA SameSegments ==
  /\ \A q, o, e : Quality!ScopesOf(q, o, e) = Facts!ScopesOf(q, o, e)
  /\ \A q, o, e : Quality!StateSegments(q, o, e) = Facts!StateSegments(q, o, e)
  /\ \A segments : Quality!Summarize(segments) = Facts!Summarize(segments)
PROOF BY DEF Quality!StateSegments, Facts!StateSegments, Quality!ScopesOf, Facts!ScopesOf,
             Quality!Overlaps, Facts!Overlaps,
             Quality!SegmentsOfScope, Facts!SegmentsOfScope, Quality!MaximalRun, Facts!MaximalRun,
             Quality!Instants, Facts!Instants, Quality!TimeRange, Facts!TimeRange,
             Quality!Timestamp, Facts!Timestamp, Quality!StateAt, Facts!StateAt,
             Quality!Contains, Facts!Contains, Quality!Worst, Facts!Worst,
             Quality!Severity, Facts!Severity, Quality!StateForQuality, Facts!StateForQuality,
             Quality!Summarize, Facts!Summarize, Quality!SummarySeverity, Facts!SummarySeverity

-----------------------------------------------------------------------------
LEMMA QueryFields ==
  ASSUME NEW q \in Queries
  PROVE  /\ q.venue \in Venues \union {None} /\ q.instrument \in Instruments
         /\ q.event # {} => Planner!EventRange(q) \in TimeRange
  <1>1. q \in Planner!Query
    BY IngestorAssumption
  <1>2. q.event \subseteq TimeRange /\ q.venue \in Venues \union {None} /\ q.instrument \in Instruments
    BY <1>1, SameRanges DEF Planner!Query, Planner!None, None
  <1> QED BY <1>2 DEF Planner!EventRange

LEMMA MappingFields ==
  ASSUME NEW m \in Mapping
  PROVE  /\ m.venue \in Venues \union {None} /\ m.source \in Sources \union {None}
         /\ m.range \in TimeRange
PROOF BY DEF Mapping

LEMMA ResponseFields ==
  ASSUME NEW r \in Responses
  PROVE  /\ r.sources \subseteq Sources /\ r.artifacts \subseteq TimeRange
         /\ r.items \in Seq(Item) /\ r.quality \subseteq Quality!QualityObservation
PROOF BY IngestorAssumption DEF ResponseShape

\* What the planner resolves: mappings of the instrument, and of the venue if
\* the query names one, clipped to the range.
LEMMA ResolvedMappings ==
  ASSUME NEW i, NEW p, NEW v, NEW range \in TimeRange, mappings \subseteq Mapping,
         NEW r \in Planner!Resolve(i, p, v, range)
  PROVE  /\ r \in Mapping /\ r.instrument = i /\ (v # None => r.venue = v)
         /\ range.start <= r.range.start /\ r.range.end <= range.end
  <1>1. PICK m \in mappings :
          /\ m.instrument = i /\ m.provider = p /\ (v # None => m.venue = v)
          /\ \E c \in Intersection(m.range, range) : r = [m EXCEPT !.range = c]
    BY DEF Planner!Resolve, Planner!Intersection, Intersection, Planner!None, None
  <1>2. PICK c \in Intersection(m.range, range) : r = [m EXCEPT !.range = c]
    BY <1>1
  <1>3. m \in Mapping /\ m.range \in TimeRange
    BY DEF Mapping
  <1>4. c \in TimeRange /\ range.start <= c.start /\ c.end <= range.end
    BY <1>2, <1>3, IntersectionShares
  <1>5. r.range = c /\ r.instrument = m.instrument /\ r.venue = m.venue /\ r \in Mapping
    BY <1>2, <1>3, <1>4 DEF Mapping
  <1> QED BY <1>1, <1>4, <1>5

\* A plan, as ingest() uses it: its segments map the instrument and the venue
\* of the query inside the requested range.
PlanFits(q, p) ==
  /\ \A s \in p.segments :
       /\ s.mapping \in Mapping /\ s.mapping.instrument = q.instrument
       /\ q.venue # None => s.mapping.venue = q.venue
       /\ q.event # {}
       /\ Planner!EventRange(q).start <= s.mapping.range.start
       /\ s.mapping.range.end <= Planner!EventRange(q).end
  /\ p.unmapped \subseteq TimeRange
  /\ p.outcome = "planned" => q.event # {}

LEMMA PlansFit ==
  ASSUME mappings \subseteq Mapping, NEW q \in Queries, NEW answer
  PROVE  PlanFits(q, Planner!PlanFor(q, answer))
  <1> DEFINE resolved == IF q.event = {} THEN {}
                         ELSE Planner!Resolve(q.instrument, ProviderName, q.venue, Planner!EventRange(q))
             error == Planner!PlanError(q, answer, resolved)
             p == Planner!PlanFor(q, answer)
  <1> SUFFICES PlanFits(q, p)
    OBVIOUS
  <1>1. p = IF error = "none" THEN Planner!Planned(q, resolved) ELSE Planner!Failed(error)
    BY DEF Planner!PlanFor
  <1>2. error # "planned"
    <2>1. \A m \in resolved :
            Planner!FetchRangeError(q, m.range) \in {"none", "ExplicitRangeRequired", "RangeOverflow"}
      BY DEF Planner!FetchRangeError
    <2> HIDE DEF resolved
    <2> QED BY <2>1 DEF Planner!PlanError
  <1>3. error = "none" => q.event # {}
    BY DEF Planner!PlanError
  <1>4. CASE error # "none"
    <2> HIDE DEF error
    <2>1. p.segments = {} /\ p.unmapped = {} /\ p.outcome # "planned"
      BY <1>1, <1>2, <1>4 DEF Planner!Failed
    <2> HIDE DEF p
    <2> QED BY <2>1 DEF PlanFits
  <1>5. CASE error = "none"
    <2>1. q.event # {} /\ Planner!EventRange(q) \in TimeRange
      BY <1>3, <1>5, QueryFields
    <2>2. \A m \in resolved :
            /\ m \in Mapping /\ m.instrument = q.instrument
            /\ q.venue # None => m.venue = q.venue
            /\ Planner!EventRange(q).start <= m.range.start
            /\ m.range.end <= Planner!EventRange(q).end
      BY <2>1, ResolvedMappings
    <2> HIDE DEF error, resolved
    <2>3. p = Planner!Planned(q, resolved)
      BY <1>1, <1>5
    <2>4. \A s \in p.segments : s.mapping \in resolved
      BY <2>3 DEF Planner!Planned, Planner!PlanSegment
    <2>5. p.unmapped \subseteq TimeRange
      BY <2>3, SameRanges DEF Planner!Planned, Planner!Gaps
    <2> HIDE DEF p
    <2> QED BY <2>1, <2>2, <2>4, <2>5 DEF PlanFits
  <1> QED BY <1>4, <1>5

-----------------------------------------------------------------------------
\* What one accepted answer adds, for a query, a mapping and an answer.
LEMMA MatchingFacts ==
  ASSUME NEW q, NEW m, NEW r \in Responses, NEW item \in Matching(q, m, r)
  PROVE  /\ item \in Item /\ HeaderMatches(item, q, m)
         /\ ScopeOf(item) \in Venues \X Sources
         /\ item.source \in SourcesOf(q, m, r) /\ ScopeOf(item) \in ExpectedScopes(q, m, r)
  <1>1. item \in Item /\ HeaderMatches(item, q, m)
    BY ResponseFields DEF Matching, Elements
  <1>2. ScopeOf(item) \in Venues \X Sources
    BY <1>1 DEF ScopeOf, Item
  <1> QED BY <1>1, <1>2 DEF SourcesOf, ExpectedScopes, ResponseScopes

LEMMA KeptFacts ==
  ASSUME NEW q, NEW m, NEW r \in Responses, NEW kind
  PROVE  /\ Kept(q, m, r, kind) \in Seq(Item)
         /\ Elements(Kept(q, m, r, kind)) \subseteq Matching(q, m, r)
PROOF BY ResponseFields, SelectFacts DEF Kept

\* The scopes that an answer's own evidence is spread over.
LEMMA ScopesTyped ==
  ASSUME NEW q \in Queries, NEW m \in Mapping, NEW r \in Responses
  PROVE  /\ ResponseScopes(q, m, r) \subseteq Venues \X Sources
         /\ InvalidScopes(q, m, r) \subseteq ResponseScopes(q, m, r)
         /\ KnownMappingScope(m) \subseteq Venues \X Sources
         /\ SourceScopes(q, m, r) \subseteq Venues \X Sources
         /\ ObservationScopes(q, m, r) \subseteq Venues \X Sources
  <1>1. /\ ResponseScopes(q, m, r) \subseteq Venues \X Sources
        /\ InvalidScopes(q, m, r) \subseteq ResponseScopes(q, m, r)
    BY MatchingFacts DEF ResponseScopes, InvalidScopes
  <1>2. KnownMappingScope(m) \subseteq Venues \X Sources
    BY MappingFields DEF KnownMappingScope
  <1>3. SourceScopes(q, m, r) \subseteq Venues \X Sources
    <2>1. EffectiveVenue(q, m) \in Venues \union {None}
      BY QueryFields, MappingFields DEF EffectiveVenue
    <2> QED BY <2>1, ResponseFields DEF SourceScopes
  <1> QED BY <1>1, <1>2, <1>3 DEF ObservationScopes

\* The evidence taken from an answer lies in the segment.  What is not corrupt
\* of it comes from a piece of the answer's evidence of that kind, which covers
\* it and belongs to the same scope or to none.
LEMMA EvidenceFacts ==
  ASSUME NEW q \in Queries, NEW m \in Mapping, NEW r \in Responses,
         NEW o \in EvidenceOf(q, m, r)
  PROVE  /\ o \in Quality!QualityObservation
         /\ m.range.start <= o.range.start /\ o.range.end <= m.range.end
         /\ o.kind # "Corrupt" =>
              \E e \in r.quality :
                /\ e.kind = o.kind /\ e.scope \in {NoScope, o.scope}
                /\ e.range.start <= o.range.start /\ o.range.end <= e.range.end
  <1>1. m.range \in TimeRange
    BY MappingFields
  <1>2. CASE o \in ResponseEvidence(q, m, r)
    <2>0. PICK e \in r.quality :
            \E c \in Intersection(m.range, e.range), s \in EvidenceScopes(e, q, m, r) :
              o = [range |-> c, kind |-> e.kind, scope |-> s]
      BY <1>2 DEF ResponseEvidence
    <2>1. PICK c \in Intersection(m.range, e.range), s \in EvidenceScopes(e, q, m, r) :
            o = [range |-> c, kind |-> e.kind, scope |-> s]
      BY <2>0
    <2>2. e \in Quality!QualityObservation /\ e.range \in TimeRange
      BY ResponseFields, SameRanges DEF Quality!QualityObservation
    <2>3. /\ c \in TimeRange
          /\ m.range.start <= c.start /\ c.end <= m.range.end
          /\ e.range.start <= c.start /\ c.end <= e.range.end
      BY <1>1, <2>1, <2>2, IntersectionShares
    <2>4. s \in (Venues \X Sources) \union {NoScope} /\ e.scope \in {NoScope, s}
      BY <2>1, <2>2, ScopesTyped DEF EvidenceScopes, Quality!QualityObservation
    <2> QED BY <2>1, <2>2, <2>3, <2>4, SameRanges DEF Quality!QualityObservation
  <1>3. CASE o \in CorruptEvidence(q, m, r)
    <2>1. PICK s \in InvalidScopes(q, m, r) : o = [range |-> m.range, kind |-> "Corrupt", scope |-> s]
      BY <1>3 DEF CorruptEvidence
    <2>2. s \in Venues \X Sources
      BY ScopesTyped
    <2>3. m.range.start <= m.range.start /\ m.range.end <= m.range.end
      BY <1>1, RangeEnds
    <2> QED BY <1>1, <2>1, <2>2, <2>3, SameRanges DEF Quality!QualityObservation, Quality!QualityKind
  <1> QED BY <1>2, <1>3 DEF EvidenceOf

LEMMA ExpectedTyped ==
  ASSUME NEW q \in Queries, NEW m \in Mapping, NEW r \in Responses
  PROVE  ExpectedScopes(q, m, r) \subseteq (Venues \X Sources) \union {NoScope}
  <1>1. {o.scope : o \in EvidenceOf(q, m, r)} \subseteq (Venues \X Sources) \union {NoScope}
    BY EvidenceFacts DEF Quality!QualityObservation
  <1> QED BY <1>1, ScopesTyped DEF ExpectedScopes

LEMMA SourcesTyped ==
  ASSUME NEW q \in Queries, NEW m \in Mapping, NEW r \in Responses
  PROVE  SourcesOf(q, m, r) \subseteq Sources /\ ArtifactsOf(m, r) \subseteq TimeRange
  <1>1. \A i \in Matching(q, m, r) : i.source \in Sources
    BY MatchingFacts DEF Item
  <1>2. \A a \in r.artifacts : Intersection(m.range, a) \subseteq TimeRange
    BY MappingFields, ResponseFields, IntersectionShares
  <1> QED BY <1>1, <1>2, MappingFields, ResponseFields DEF SourcesOf, ArtifactsOf

\* The buffers after the events of an answer hold what they held and the events.
LEMMA AppendFacts ==
  ASSUME DOMAIN buffers \subseteq Venues \X Sources,
         \A s \in DOMAIN buffers : buffers[s] \in Seq(Item),
         NEW events \in Seq(Item), NEW new, new = AppendEvents(events)
  PROVE  /\ DOMAIN new \subseteq Venues \X Sources
         /\ \A s \in DOMAIN new :
              /\ new[s] \in Seq(Item)
              /\ Elements(new[s]) \subseteq
                   (UNION {Elements(buffers[t]) : t \in DOMAIN buffers}) \union Elements(events)
  <1> DEFINE old(s) == IF s \in DOMAIN buffers THEN buffers[s] ELSE <<>>
             more(s) == Select(events, {e \in Elements(events) : ScopeOf(e) = s})
             scopes == {ScopeOf(e) : e \in Elements(events)}
  <1>1. new = [s \in DOMAIN buffers \union scopes |-> old(s) \o more(s)]
    BY DEF AppendEvents
  <1>2. scopes \subseteq Venues \X Sources
    <2>1. \A e \in Elements(events) : e \in Item
      BY DEF Elements
    <2> QED BY <2>1 DEF ScopeOf, Item
  <1>3. \A s : more(s) \in Seq(Item) /\ Elements(more(s)) \subseteq Elements(events)
    BY SelectFacts
  <1>4. \A s : old(s) \in Seq(Item)
               /\ Elements(old(s)) \subseteq (UNION {Elements(buffers[t]) : t \in DOMAIN buffers})
    BY DEF Elements
  <1>5. \A x \in Seq(Item), y \in Seq(Item) :
          x \o y \in Seq(Item) /\ Elements(x \o y) \subseteq Elements(x) \union Elements(y)
    BY DEF Elements
  <1> HIDE DEF old, more, scopes
  <1>6. DOMAIN new = DOMAIN buffers \union scopes
    BY <1>1
  <1>7. ASSUME NEW s \in DOMAIN new
        PROVE  /\ new[s] \in Seq(Item)
               /\ Elements(new[s]) \subseteq
                    (UNION {Elements(buffers[t]) : t \in DOMAIN buffers}) \union Elements(events)
    <2>1. new[s] = old(s) \o more(s)
      BY <1>1
    <2>2. new[s] \in Seq(Item) /\ Elements(new[s]) \subseteq Elements(old(s)) \union Elements(more(s))
      BY <1>3, <1>4, <1>5, <2>1
    <2> QED BY <1>3, <1>4, <2>2
  <1> QED BY <1>2, <1>6, <1>7

-----------------------------------------------------------------------------
\* The invariant.  Beside the types and the order of the calls: what the result
\* carries comes from the calls made, all they name is in the result, and the
\* outcome is the reduction of the evidence.
CallMatching(q, call) == Matching(q, call.segment.mapping, call.response)
CallEvidence(q, call) == EvidenceOf(q, call.segment.mapping, call.response)
CallScopes(q, call)   == ExpectedScopes(q, call.segment.mapping, call.response)
CallSources(q, call)  == SourcesOf(q, call.segment.mapping, call.response)

ItemsComeFromCalls ==
  \A item \in ResultItems : \E i \in DOMAIN calls : item \in CallMatching(query, calls[i])

CallsAreInTheResult ==
  \A i \in DOMAIN calls : /\ CallEvidence(query, calls[i]) \subseteq quality
                         /\ CallScopes(query, calls[i]) \subseteq expected
                         /\ CallSources(query, calls[i]) \subseteq sources

EvidenceComesFromCalls ==
  \A o \in quality :
    o.kind = "Missing" \/ \E i \in DOMAIN calls : o \in CallEvidence(query, calls[i])

Reduced == Quality!StateSegments(Planner!EventRange(query), quality, expected)

OutcomeIsReduced ==
  IF phase = "done"
  THEN outcome = [segments   |-> Reduced,
                  state      |-> Quality!Summarize(Reduced),
                  coverage   |-> {s \in Reduced : Quality!IsUsable(s.state)},
                  unresolved |-> Reduced \ {s \in Reduced : Quality!IsUsable(s.state)}]
  ELSE outcome = NoOutcome

\* Before the call starts and after an exception nothing has been collected.
Empty ==
  /\ todo = {} /\ calls = <<>> /\ expected = {}
  /\ buffers = <<>> /\ kept = NothingKept
  /\ quality = {} /\ sources = {} /\ artifacts = {}

IngestIInv ==
  /\ TypeOK
  /\ CallsFollowThePlan
  /\ PlanFits(query, plan)
  /\ phase \in {"fetching", "done"} => plan.outcome = "planned"
  /\ phase \in {"idle", "failed"} => Empty
  /\ ItemsComeFromCalls /\ CallsAreInTheResult /\ EvidenceComesFromCalls
  /\ OutcomeIsReduced

\* NothingKept holds no items.
LEMMA EmptyFacts ==
  ASSUME Empty
  PROVE  /\ DOMAIN calls = {} /\ ResultItems = {} /\ todo = {}
         /\ ItemsComeFromCalls /\ CallsAreInTheResult /\ EvidenceComesFromCalls
         /\ calls \in Seq([segment : plan.segments, response : Responses])
         /\ DOMAIN buffers = {} /\ kept \in [Kinds \ {"mbo"} -> Seq(Item)]
  <1>1. DOMAIN calls = {} /\ DOMAIN buffers = {} /\ calls \in Seq([segment : plan.segments, response : Responses])
    BY DEF Empty
  <1>2. kept \in [Kinds \ {"mbo"} -> Seq(Item)] /\ \A k \in DOMAIN kept : kept[k] = <<>>
    BY DEF Empty, NothingKept
  <1>3. Elements(<<>>) = {}
    BY DEF Elements
  <1>4. ResultItems = {}
    BY <1>1, <1>2, <1>3 DEF ResultItems
  <1> QED BY <1>1, <1>2, <1>4 DEF Empty, ItemsComeFromCalls, CallsAreInTheResult, EvidenceComesFromCalls

LEMMA NoOutcomeTyped ==
  /\ NoOutcome.segments \subseteq Quality!DataStateSegment /\ NoOutcome.state \in Quality!DataState
PROOF BY DEF NoOutcome, Quality!DataState

\* A state in which nothing is collected satisfies the invariant.
EmptyState ==
  /\ Empty
  /\ mappings \in Registries /\ query \in Queries
  /\ phase \in {"idle", "failed"}
  /\ PlanFits(query, plan) /\ outcome = NoOutcome

LEMMA EmptySuffices == EmptyState => IngestIInv
  <1> SUFFICES ASSUME EmptyState PROVE IngestIInv
    OBVIOUS
  <1> USE DEF EmptyState
  <1>1. TypeOK
    <2>1. /\ quality = {} /\ expected = {} /\ sources = {} /\ artifacts = {} /\ todo = {}
      BY DEF Empty
    <2> QED BY <2>1, EmptyFacts, NoOutcomeTyped DEF TypeOK
  <1>2. CallsFollowThePlan
    BY EmptyFacts DEF CallsFollowThePlan
  <1> QED BY <1>1, <1>2, EmptyFacts DEF IngestIInv, OutcomeIsReduced

LEMMA InitIngest == Init => IngestIInv
  <1> SUFFICES ASSUME Init PROVE IngestIInv
    OBVIOUS
  <1>1. Empty /\ phase = "idle" /\ outcome = NoOutcome /\ mappings \in Registries /\ query \in Queries
    BY DEF Init, Empty
  <1>2. PlanFits(query, plan)
    BY DEF Init, PlanFits, Planner!Failed
  <1> QED BY <1>1, <1>2, EmptySuffices DEF EmptyState

\* An exception leaves nothing behind.
LEMMA FailPreserves ==
  ASSUME IngestIInv, Fail, phase \in {"idle", "fetching"}, PlanFits(query, plan')
  PROVE  IngestIInv'
  <1>1. Empty' /\ phase' = "failed" /\ mappings' = mappings /\ query' = query /\ outcome' = outcome
    BY DEF Fail, Empty, NothingKept
  <1>2. outcome = NoOutcome /\ mappings \in Registries /\ query \in Queries
    BY DEF IngestIInv, OutcomeIsReduced, TypeOK
  <1>3. PlanFits(query, plan)'
    BY <1>1 DEF PlanFits
  <1>4. EmptyState'
    BY <1>1, <1>2, <1>3 DEF EmptyState
  <1> QED BY <1>4, EmptySuffices, PTL

\* The call starts with the plan and its unmapped ranges.
LEMMA BeginPreserves ==
  ASSUME IngestIInv, NEW answer \in CacheAnswers, Begin(answer)
  PROVE  IngestIInv'
  <1>1. /\ phase = "idle" /\ plan' = Planner!PlanFor(query, answer) /\ Empty
        /\ mappings \in Registries /\ query \in Queries /\ outcome = NoOutcome
    BY DEF Begin, IngestIInv, TypeOK, OutcomeIsReduced
  <1>2. PlanFits(query, plan')
    BY <1>1, PlansFit, IngestorAssumption
  <1>3. CASE Fail
    BY <1>1, <1>2, <1>3, FailPreserves
  <1>4. CASE ~Fail
    <2>1. /\ plan'.outcome = "planned" /\ phase' = "fetching" /\ todo' = plan'.segments
          /\ quality' = {[range |-> r, kind |-> "Missing", scope |-> NoScope] : r \in plan'.unmapped}
          /\ mappings' = mappings /\ query' = query /\ outcome' = outcome /\ calls' = calls
          /\ expected' = expected /\ buffers' = buffers /\ kept' = kept /\ sources' = sources
          /\ artifacts' = artifacts
      BY <1>4 DEF Begin
    <2>2. /\ DOMAIN calls = {} /\ ResultItems = {} /\ DOMAIN buffers = {}
          /\ kept \in [Kinds \ {"mbo"} -> Seq(Item)]
          /\ expected = {} /\ sources = {} /\ artifacts = {} /\ calls = <<>>
      BY <1>1, EmptyFacts DEF Empty
    <2>3. ResultItems' = ResultItems
      BY <2>1 DEF ResultItems
    <2>4. quality' \subseteq Quality!QualityObservation
      BY <1>2, <2>1, SameRanges DEF PlanFits, Quality!QualityObservation, Quality!QualityKind
    <2>5. calls' \in Seq([segment : plan'.segments, response : Responses])
      BY <2>1, <2>2
    <2>6. TypeOK'
      BY <1>1, <2>1, <2>2, <2>4, <2>5, NoOutcomeTyped DEF TypeOK
    <2>7. CallsFollowThePlan'
      BY <2>1, <2>2 DEF CallsFollowThePlan
    <2>8. PlanFits(query, plan)'
      BY <1>2, <2>1 DEF PlanFits
    <2>9. ItemsComeFromCalls' /\ CallsAreInTheResult'
      BY <2>1, <2>2, <2>3 DEF ItemsComeFromCalls, CallsAreInTheResult
    <2>10. EvidenceComesFromCalls'
      BY <2>1 DEF EvidenceComesFromCalls
    <2>11. OutcomeIsReduced'
      BY <1>1, <2>1 DEF OutcomeIsReduced
    <2> QED BY <2>1, <2>6, <2>7, <2>8, <2>9, <2>10, <2>11 DEF IngestIInv
  <1> QED BY <1>3, <1>4

\* An accepted answer: its call becomes the last, and all of it comes in.
LEMMA FetchPreserves ==
  ASSUME IngestIInv, NEW segment \in todo, NEW response \in Responses,
         FetchAccepted(segment, response)
  PROVE  IngestIInv'
  <1> DEFINE m == segment.mapping
             call == [segment |-> segment, response |-> response]
  <1>1. /\ phase = "fetching" /\ phase' = phase /\ todo' = todo \ {segment} /\ IsNext(segment)
        /\ calls' = Append(calls, call)
        /\ mappings' = mappings /\ query' = query /\ plan' = plan /\ outcome' = outcome
    BY DEF FetchAccepted
  <1>2. /\ quality' = quality \union EvidenceOf(query, m, response)
        /\ expected' = expected \union ExpectedScopes(query, m, response)
        /\ buffers' = AppendEvents(Kept(query, m, response, "mbo"))
        /\ kept' = [k \in DOMAIN kept |-> kept[k] \o Kept(query, m, response, k)]
        /\ sources' = sources \union SourcesOf(query, m, response)
        /\ artifacts' = artifacts \union ArtifactsOf(m, response)
    BY DEF FetchAccepted
  <1>3. /\ TypeOK /\ CallsFollowThePlan /\ PlanFits(query, plan) /\ plan.outcome = "planned"
        /\ ItemsComeFromCalls /\ CallsAreInTheResult /\ EvidenceComesFromCalls
        /\ outcome = NoOutcome
    BY <1>1 DEF IngestIInv, OutcomeIsReduced
  <1>4. segment \in plan.segments /\ m \in Mapping /\ query \in Queries
    BY <1>3 DEF TypeOK, PlanFits
  <1>5. /\ calls \in Seq([segment : plan.segments, response : Responses])
        /\ call \in [segment : plan.segments, response : Responses]
    BY <1>3, <1>4 DEF TypeOK
  <1> DEFINE n == Len(calls) + 1
  <1>6. /\ calls' \in Seq([segment : plan.segments, response : Responses])
        /\ DOMAIN calls = 1..Len(calls) /\ DOMAIN calls' = DOMAIN calls \union {n}
        /\ Len(calls) \in Nat /\ n \notin DOMAIN calls /\ calls'[n] = call
        /\ \A i \in DOMAIN calls : calls'[i] = calls[i] /\ i < n
    <2> HIDE DEF call
    <2> QED BY <1>1, <1>5
  <1> HIDE DEF n
  <1>7. call.segment = segment /\ call.response = response
    OBVIOUS
  <1> HIDE DEF call
  <1>8. TypeOK'
    <2>1. quality' \subseteq Quality!QualityObservation
      BY <1>2, <1>3, <1>4, EvidenceFacts DEF TypeOK
    <2>2. expected' \subseteq (Venues \X Sources) \union {NoScope}
      BY <1>2, <1>3, <1>4, ExpectedTyped DEF TypeOK
    <2>3. sources' \subseteq Sources /\ artifacts' \subseteq TimeRange
      BY <1>2, <1>3, <1>4, SourcesTyped DEF TypeOK
    <2>4. DOMAIN buffers' \subseteq Venues \X Sources /\ \A s \in DOMAIN buffers' : buffers'[s] \in Seq(Item)
      <3>1. Kept(query, m, response, "mbo") \in Seq(Item)
        BY KeptFacts
      <3> QED BY <1>2, <1>3, <3>1, AppendFacts DEF TypeOK
    <2>5. kept' \in [Kinds \ {"mbo"} -> Seq(Item)]
      <3>1. \A k : Kept(query, m, response, k) \in Seq(Item)
        BY KeptFacts
      <3>2. \A x \in Seq(Item), y \in Seq(Item) : x \o y \in Seq(Item)
        OBVIOUS
      <3> QED BY <1>2, <1>3, <3>1, <3>2 DEF TypeOK
    <2>6. todo' \subseteq plan.segments
      BY <1>1, <1>3 DEF TypeOK
    <2>7. outcome'.segments \subseteq Quality!DataStateSegment /\ outcome'.state \in Quality!DataState
      BY <1>1, <1>3, NoOutcomeTyped
    <2> QED BY <1>1, <1>3, <1>6, <2>1, <2>2, <2>3, <2>4, <2>5, <2>6, <2>7 DEF TypeOK
  <1>9. CallsFollowThePlan'
    <2>1. \A i \in DOMAIN calls : Planner!MappingLess(calls[i].segment.mapping, m)
      BY <1>3 DEF CallsFollowThePlan
    <2>2. \A s \in todo' : Planner!MappingLess(m, s.mapping)
      BY <1>1 DEF IsNext
    <2>3. ASSUME NEW i \in DOMAIN calls', NEW j \in DOMAIN calls', i < j
          PROVE  Planner!MappingLess(calls'[i].segment.mapping, calls'[j].segment.mapping)
      <3>1. i \in DOMAIN calls
        BY <1>6, <2>3
      <3>2. CASE j = n
        BY <1>6, <1>7, <2>1, <3>1, <3>2
      <3>3. CASE j # n
        BY <1>3, <1>6, <2>3, <3>1, <3>3 DEF CallsFollowThePlan
      <3> QED BY <3>2, <3>3
    <2>4. ASSUME NEW i \in DOMAIN calls', NEW s \in todo'
          PROVE  Planner!MappingLess(calls'[i].segment.mapping, s.mapping)
      <3>1. CASE i = n
        BY <1>6, <1>7, <2>2, <3>1
      <3>2. CASE i # n
        BY <1>1, <1>3, <1>6, <3>2 DEF CallsFollowThePlan
      <3> QED BY <3>1, <3>2
    <2>5. {calls'[i].segment : i \in DOMAIN calls'} = {calls[i].segment : i \in DOMAIN calls} \union {segment}
      BY <1>6, <1>7
    <2>6. plan'.segments = todo' \union {calls'[i].segment : i \in DOMAIN calls'}
      <3>1. plan.segments = todo \union {calls[i].segment : i \in DOMAIN calls}
        BY <1>1, <1>3 DEF CallsFollowThePlan
      <3> QED BY <1>1, <2>5, <3>1
    <2> QED BY <1>1, <2>3, <2>4, <2>6 DEF CallsFollowThePlan
  <1>10. /\ CallMatching(query, call) = Matching(query, m, response)
         /\ CallEvidence(query, call) = EvidenceOf(query, m, response)
         /\ CallScopes(query, call) = ExpectedScopes(query, m, response)
         /\ CallSources(query, call) = SourcesOf(query, m, response)
    BY <1>7 DEF CallMatching, CallEvidence, CallScopes, CallSources
  <1>11. ItemsComeFromCalls'
    <2>1. \A k : Elements(Kept(query, m, response, k)) \subseteq Matching(query, m, response)
                /\ Kept(query, m, response, k) \in Seq(Item)
      BY KeptFacts
    <2>2. ASSUME NEW s \in DOMAIN buffers', NEW item \in Elements(buffers'[s])
          PROVE  item \in ResultItems \union Matching(query, m, response)
      <3>1. Elements(buffers'[s]) \subseteq
              (UNION {Elements(buffers[t]) : t \in DOMAIN buffers})
                \union Elements(Kept(query, m, response, "mbo"))
        BY <1>2, <1>3, <2>1, AppendFacts DEF TypeOK
      <3> QED BY <2>1, <2>2, <3>1 DEF ResultItems
    <2>3. ASSUME NEW k \in DOMAIN kept', NEW item \in Elements(kept'[k])
          PROVE  item \in ResultItems \union Matching(query, m, response)
      <3>1. k \in DOMAIN kept /\ kept'[k] = kept[k] \o Kept(query, m, response, k) /\ kept[k] \in Seq(Item)
        BY <1>2, <1>3 DEF TypeOK
      <3>2. \A x \in Seq(Item), y \in Seq(Item) : Elements(x \o y) \subseteq Elements(x) \union Elements(y)
        BY DEF Elements
      <3>3. item \in Elements(kept[k]) \union Elements(Kept(query, m, response, k))
        BY <2>1, <2>3, <3>1, <3>2
      <3> QED BY <2>1, <3>1, <3>3 DEF ResultItems
    <2>4. \A item \in ResultItems' : item \in ResultItems \union Matching(query, m, response)
      BY <2>2, <2>3 DEF ResultItems
    <2>5. ASSUME NEW item \in ResultItems' PROVE \E i \in DOMAIN calls' : item \in CallMatching(query', calls'[i])
      <3>1. CASE item \in ResultItems
        BY <1>1, <1>3, <1>6, <3>1 DEF ItemsComeFromCalls
      <3>2. CASE item \in Matching(query, m, response)
        BY <1>1, <1>6, <1>10, <3>2
      <3> QED BY <2>4, <3>1, <3>2
    <2> QED BY <2>5 DEF ItemsComeFromCalls
  <1>12. CallsAreInTheResult'
    <2>1. ASSUME NEW i \in DOMAIN calls'
          PROVE  /\ CallEvidence(query', calls'[i]) \subseteq quality'
                 /\ CallScopes(query', calls'[i]) \subseteq expected'
                 /\ CallSources(query', calls'[i]) \subseteq sources'
      <3>1. CASE i = n
        BY <1>1, <1>2, <1>6, <1>10, <3>1
      <3>2. CASE i # n
        BY <1>1, <1>2, <1>3, <1>6, <3>2 DEF CallsAreInTheResult
      <3> QED BY <3>1, <3>2
    <2> QED BY <2>1 DEF CallsAreInTheResult
  <1>13. EvidenceComesFromCalls'
    <2>1. ASSUME NEW o \in quality', o.kind # "Missing"
          PROVE  \E i \in DOMAIN calls' : o \in CallEvidence(query', calls'[i])
      <3>1. CASE o \in quality
        BY <1>1, <1>3, <1>6, <2>1, <3>1 DEF EvidenceComesFromCalls
      <3>2. CASE o \in EvidenceOf(query, m, response)
        BY <1>1, <1>6, <1>10, <3>2
      <3> QED BY <1>2, <3>1, <3>2
    <2> QED BY <2>1 DEF EvidenceComesFromCalls
  <1>14. OutcomeIsReduced' /\ PlanFits(query, plan)'
    BY <1>1, <1>3 DEF OutcomeIsReduced, PlanFits
  <1> QED BY <1>1, <1>3, <1>8, <1>9, <1>11, <1>12, <1>13, <1>14 DEF IngestIInv

\* The reduction of typed evidence is typed.
LEMMA ReducedFacts ==
  ASSUME TypeOK, query.event # {}
  PROVE  /\ Planner!EventRange(query) \in TimeRange /\ quality \in SUBSET Facts!QualityObservation
         /\ Reduced = Facts!StateSegments(Planner!EventRange(query), quality, expected)
         /\ \A g \in Reduced :
              /\ g \in Quality!DataStateSegment
              /\ g.range \in TimeRange /\ g.state \in Quality!DataState
              /\ \A t \in Instants(g.range) : Facts!StateAt(t, g.scope, quality) = g.state
  <1> DEFINE q == Planner!EventRange(query)
  <1>1. q \in TimeRange /\ quality \in SUBSET Facts!QualityObservation
    BY QueryFields, SameRanges DEF TypeOK
  <1>2. Reduced = Facts!StateSegments(q, quality, expected)
    BY SameSegments DEF Reduced
  <1> HIDE DEF q
  <1>3. Facts!ScopesOf(q, quality, expected) \subseteq (Venues \X Sources) \union {NoScope}
    <2>1. \A o \in quality : o.scope \in (Venues \X Sources) \union {NoScope}
      BY DEF TypeOK, Quality!QualityObservation
    <2> QED BY <2>1 DEF Facts!ScopesOf, TypeOK
  <1>4. ASSUME NEW g \in Reduced
        PROVE  /\ g.scope \in (Venues \X Sources) \union {NoScope}
               /\ g = [range |-> g.range, state |-> g.state, scope |-> g.scope]
               /\ g.range \in TimeRange /\ g.state \in Quality!DataState
               /\ \A t \in Instants(g.range) : Facts!StateAt(t, g.scope, quality) = g.state
    <2>1. q \in Facts!TimeRange /\ g \in Facts!StateSegments(q, quality, expected)
      BY <1>1, <1>2, SameRanges
    <2>2. /\ g.scope \in Facts!ScopesOf(q, quality, expected)
          /\ g = [range |-> g.range, state |-> g.state, scope |-> g.scope]
          /\ g.range \in Facts!TimeRange /\ g.state \in Facts!DataState
          /\ \A t \in Facts!Instants(g.range) : Facts!StateAt(t, g.scope, quality) = g.state
      BY <1>1, <2>1, TimeBounds, NoScopeIsNoPair, Facts!SegmentFacts
    <2> QED BY <1>3, <2>2, SameRanges
  <1>5. \A g \in Reduced : g \in Quality!DataStateSegment
    BY <1>4, SameRanges DEF Quality!DataStateSegment
  <1> QED BY <1>1, <1>2, <1>4, <1>5 DEF q

\* The call returns: what it returns is the reduction of what was collected.
LEMMA FinishPreserves ==
  ASSUME IngestIInv, Finish
  PROVE  IngestIInv'
  <1>1. /\ phase = "fetching" /\ phase' = "done" /\ todo = {}
        /\ mappings' = mappings /\ query' = query /\ plan' = plan
        /\ todo' = todo /\ calls' = calls /\ expected' = expected /\ buffers' = buffers
        /\ kept' = kept /\ quality' = quality /\ sources' = sources /\ artifacts' = artifacts
    BY DEF Finish, locals
  <1>2. outcome' = [segments   |-> Reduced,
                    state      |-> Quality!Summarize(Reduced),
                    coverage   |-> {s \in Reduced : Quality!IsUsable(s.state)},
                    unresolved |-> Reduced \ {s \in Reduced : Quality!IsUsable(s.state)}]
    BY DEF Finish, Reduced
  <1>3. /\ TypeOK /\ CallsFollowThePlan /\ PlanFits(query, plan) /\ plan.outcome = "planned"
        /\ ItemsComeFromCalls /\ CallsAreInTheResult /\ EvidenceComesFromCalls
    BY <1>1 DEF IngestIInv
  <1>4. query.event # {}
    BY <1>3 DEF PlanFits
  <1>5. outcome'.segments \subseteq Quality!DataStateSegment /\ outcome'.state \in Quality!DataState
    <2>1. \A g \in Reduced : g \in Quality!DataStateSegment /\ g.state \in Facts!DataState
      BY <1>3, <1>4, ReducedFacts, SameRanges
    <2>2. Facts!Summarize(Reduced) \in Facts!DataState
      BY <2>1, TimeBounds, NoScopeIsNoPair, Facts!SummaryFacts
    <2> QED BY <1>2, <2>1, <2>2, SameRanges, SameSegments
  <1>6. TypeOK'
    BY <1>1, <1>3, <1>5 DEF TypeOK
  <1>7. CallsFollowThePlan'
    BY <1>1, <1>3 DEF CallsFollowThePlan
  <1>8. ResultItems' = ResultItems
    BY <1>1 DEF ResultItems
  <1>9. ItemsComeFromCalls' /\ CallsAreInTheResult' /\ EvidenceComesFromCalls' /\ PlanFits(query, plan)'
    BY <1>1, <1>3, <1>8 DEF ItemsComeFromCalls, CallsAreInTheResult, EvidenceComesFromCalls, PlanFits
  <1>10. Reduced' = Reduced
    BY <1>1 DEF Reduced
  <1>11. OutcomeIsReduced'
    BY <1>1, <1>2, <1>10 DEF OutcomeIsReduced
  <1> QED BY <1>1, <1>3, <1>6, <1>7, <1>9, <1>11 DEF IngestIInv

LEMMA StepPreserves ==
  ASSUME IngestIInv, [Next]_vars
  PROVE  IngestIInv'
  <1>1. CASE \E answer \in CacheAnswers : Begin(answer)
    BY <1>1, BeginPreserves
  <1>2. ASSUME NEW segment \in todo, FetchThrows(segment)
        PROVE  IngestIInv'
    BY <1>2, FailPreserves DEF FetchThrows, IngestIInv
  <1>3. ASSUME NEW segment \in todo, NEW response \in Responses, FetchRejected(segment, response)
        PROVE  IngestIInv'
    BY <1>3, FailPreserves DEF FetchRejected, IngestIInv
  <1>4. ASSUME NEW segment \in todo, NEW response \in Responses, FetchAccepted(segment, response)
        PROVE  IngestIInv'
    BY <1>4, FetchPreserves
  <1>5. CASE Finish
    BY <1>5, FinishPreserves
  <1>6. CASE UNCHANGED vars
    <2>1. /\ phase' = phase /\ todo' = todo /\ outcome' = outcome
          /\ mappings' = mappings /\ query' = query /\ plan' = plan
          /\ calls' = calls /\ expected' = expected /\ buffers' = buffers
          /\ kept' = kept /\ quality' = quality /\ sources' = sources /\ artifacts' = artifacts
      BY <1>6 DEF vars, locals
    <2>2. ResultItems' = ResultItems /\ Reduced' = Reduced
      BY <2>1 DEF ResultItems, Reduced
    <2> QED BY <2>1, <2>2 DEF IngestIInv, TypeOK, CallsFollowThePlan, PlanFits, Empty,
                ItemsComeFromCalls, CallsAreInTheResult, EvidenceComesFromCalls, OutcomeIsReduced
  <1> QED BY <1>1, <1>2, <1>3, <1>4, <1>5, <1>6 DEF Next

LEMMA IngestInductive == Spec => []IngestIInv
  <1>1. IngestIInv /\ [Next]_vars => IngestIInv'
    BY StepPreserves
  <1> QED BY <1>1, InitIngest, PTL DEF Spec

-----------------------------------------------------------------------------
\* A recorded call: a segment of the plan, inside the request, and an answer.
LEMMA CallFields ==
  ASSUME IngestIInv, NEW i \in DOMAIN calls
  PROVE  /\ calls[i].segment \in plan.segments /\ calls[i].response \in Responses
         /\ calls[i].segment.mapping \in Mapping /\ query \in Queries /\ query.event # {}
         /\ Planner!EventRange(query) \in TimeRange
         /\ Planner!EventRange(query).start <= calls[i].segment.mapping.range.start
         /\ calls[i].segment.mapping.range.end <= Planner!EventRange(query).end
  <1>1. calls \in Seq([segment : plan.segments, response : Responses])
    BY DEF IngestIInv, TypeOK
  <1> DEFINE Call == [segment : plan.segments, response : Responses]
  <1>2. calls[i].segment \in plan.segments /\ calls[i].response \in Responses
    <2>1. calls \in Seq(Call)
      BY <1>1
    <2> HIDE DEF Call
    <2>2. calls[i] \in Call
      BY <2>1
    <2> QED BY <2>2 DEF Call
  <1>3. query \in Queries /\ PlanFits(query, plan)
    BY DEF IngestIInv, TypeOK
  <1> QED BY <1>2, <1>3, QueryFields DEF PlanFits

LEMMA InvariantMapsResult ==
  ASSUME IngestIInv
  PROVE  ResultIsMapped
  <1> SUFFICES ASSUME NEW item \in ResultItems
               PROVE  \E s \in plan.segments : Planner!Accepts(s, item.venue, item.source, item.time)
    BY DEF ResultIsMapped
  <1>1. PICK i \in DOMAIN calls : item \in CallMatching(query, calls[i])
    BY DEF IngestIInv, ItemsComeFromCalls
  <1> DEFINE s == calls[i].segment
  <1>2. s \in plan.segments /\ HeaderMatches(item, query, s.mapping)
    BY <1>1, CallFields, MatchingFacts DEF CallMatching
  <1> HIDE DEF s
  <1>3. Planner!Accepts(s, item.venue, item.source, item.time)
    BY <1>2, SameRanges DEF Planner!Accepts, HeaderMatches, Planner!None, None
  <1> QED BY <1>2, <1>3

\* At every step of ingest(), an exception included: its locals have their
\* types, the calls follow the plan, and every record it keeps is mapped.
THEOREM IngestKeepsThePlan == Spec => []IngestInv
  <1>1. IngestIInv => IngestInv
    BY InvariantMapsResult DEF IngestIInv, IngestInv
  <1> QED BY <1>1, IngestInductive, PTL

-----------------------------------------------------------------------------
\* What the outcome is once the call has returned.
LEMMA DoneFacts ==
  ASSUME IngestIInv, phase = "done"
  PROVE  /\ TypeOK /\ query.event # {} /\ query \in Queries
         /\ outcome.segments = Reduced /\ outcome.state = Quality!Summarize(Reduced)
         /\ outcome.coverage = {s \in Reduced : Quality!IsUsable(s.state)}
         /\ outcome.unresolved = Reduced \ outcome.coverage
  <1>1. plan.outcome = "planned" /\ PlanFits(query, plan) /\ TypeOK /\ OutcomeIsReduced
    BY DEF IngestIInv
  <1> QED BY <1>1 DEF PlanFits, TypeOK, OutcomeIsReduced

LEMMA InvariantGivesState ==
  ASSUME IngestIInv
  PROVE  ResultHasState
  <1> SUFFICES ASSUME phase = "done", NEW item \in ResultItems
               PROVE  /\ item.source \in sources
                      /\ \E g \in outcome.segments :
                           g.scope = ScopeOf(item) /\ Contains(g.range, item.time)
    BY DEF ResultHasState
  <1>1. PICK i \in DOMAIN calls : item \in CallMatching(query, calls[i])
    BY DEF IngestIInv, ItemsComeFromCalls
  <1> DEFINE m == calls[i].segment.mapping
             q == Planner!EventRange(query)
  <1>2. /\ m \in Mapping /\ m.range \in TimeRange /\ q \in TimeRange
        /\ q.start <= m.range.start /\ m.range.end <= q.end
    BY CallFields, MappingFields
  <1>3. /\ HeaderMatches(item, query, m) /\ item.source \in CallSources(query, calls[i])
        /\ ScopeOf(item) \in CallScopes(query, calls[i]) /\ item \in Item
    BY <1>1, CallFields, MatchingFacts DEF CallMatching, CallSources, CallScopes
  <1>4. item.source \in sources /\ ScopeOf(item) \in expected
    BY <1>3 DEF IngestIInv, CallsAreInTheResult
  <1>5. Reduced = Facts!StateSegments(q, quality, expected)
    BY DoneFacts, ReducedFacts
  <1>6. ScopeOf(item) \in Facts!ScopesOf(q, quality, expected)
    BY <1>4 DEF Facts!ScopesOf
  <1> HIDE DEF m, q
  <1>7. item.time \in Instants(q)
    <2>1. item.time \in Int /\ Contains(m.range, item.time)
      BY <1>3, TimeBounds DEF HeaderMatches, Item
    <2> QED BY <1>2, <2>1, RangeEnds DEF Contains, Instants
  <1>8. q \in Facts!TimeRange /\ item.time \in Facts!Instants(q)
    BY <1>2, <1>7, SameRanges
  <1>9. PICK g \in Facts!StateSegments(q, quality, expected) :
          g.scope = ScopeOf(item) /\ item.time \in Facts!Instants(g.range)
    BY <1>6, <1>8, TimeBounds, NoScopeIsNoPair, Facts!SegmentExists
  <1>10. g \in Reduced /\ g.range \in TimeRange /\ item.time \in Instants(g.range)
    BY <1>5, <1>9, DoneFacts, ReducedFacts, SameRanges
  <1>11. Contains(g.range, item.time)
    BY <1>10, RangeEnds DEF Contains, Instants
  <1> QED BY <1>4, <1>9, <1>10, <1>11, DoneFacts

\* Every record of a result has a state at its event time in its own stream,
\* and its source is listed.
THEOREM ReturnedRecordsHaveState == Spec => []ResultHasState
  <1>1. IngestIInv => ResultHasState
    BY InvariantGivesState
  <1> QED BY <1>1, IngestInductive, PTL

-----------------------------------------------------------------------------
LEMMA InvariantCorrupts ==
  ASSUME IngestIInv
  PROVE  InvalidIsCorrupt
  <1> SUFFICES ASSUME phase = "done", NEW i \in DOMAIN calls, NEW g \in outcome.segments,
                      g.scope \in InvalidScopes(query, calls[i].segment.mapping, calls[i].response),
                      Overlaps(g.range, calls[i].segment.mapping.range)
               PROVE  g.state = "Corrupt" /\ g \notin outcome.coverage
    BY DEF InvalidIsCorrupt
  <1> DEFINE m == calls[i].segment.mapping
             o == [range |-> m.range, kind |-> "Corrupt", scope |-> g.scope]
  <1>1. o \in quality
    <2>1. o \in EvidenceOf(query, m, calls[i].response)
      BY DEF EvidenceOf, CorruptEvidence
    <2>2. o \in CallEvidence(query, calls[i])
      BY <2>1 DEF CallEvidence
    <2> QED BY <2>2 DEF IngestIInv, CallsAreInTheResult
  <1>2. /\ g \in Reduced /\ g.range \in TimeRange /\ quality \in SUBSET Facts!QualityObservation
        /\ \A t \in Instants(g.range) : Facts!StateAt(t, g.scope, quality) = g.state
    BY DoneFacts, ReducedFacts
  <1>3. m.range \in TimeRange /\ Overlaps(g.range, m.range)
    BY CallFields, MappingFields
  <1>4. o.scope = g.scope /\ o.kind = "Corrupt" /\ o.range = m.range
    OBVIOUS
  <1> HIDE DEF m, o
  <1>5. PICK t \in Int : t \in Instants(g.range) /\ Contains(m.range, t)
    <2> DEFINE t == IF g.range.start < m.range.start THEN m.range.start ELSE g.range.start
    <2>1. t \in Instants(g.range) /\ Contains(m.range, t) /\ t \in Int
      BY <1>2, <1>3, RangeEnds DEF Overlaps, Instants, Contains
    <2> QED BY <2>1
  <1>6. o \in Facts!EvidenceAt(t, g.scope, quality)
    BY <1>1, <1>4, <1>5, SameRanges DEF Facts!EvidenceAt
  <1>7. Facts!StateAt(t, g.scope, quality) = "Corrupt"
    BY <1>2, <1>4, <1>6, TimeBounds, NoScopeIsNoPair, Facts!CorruptWins
  <1>8. g.state = "Corrupt"
    BY <1>2, <1>5, <1>7
  <1> QED BY <1>8, DoneFacts DEF Quality!IsUsable

\* A stream that lost a record to validation is corrupt over the whole segment
\* that brought the record, and never counts as covered there.
THEOREM LostRecordsAreNotCoverage == Spec => []InvalidIsCorrupt
  <1>1. IngestIInv => InvalidIsCorrupt
    BY InvariantCorrupts
  <1> QED BY <1>1, IngestInductive, PTL

-----------------------------------------------------------------------------
\* A usable state comes from evidence of one of three kinds.
LEMMA UsableKinds ==
  \A kind \in Quality!QualityKind :
    Facts!StateForQuality(kind) \in {"Complete", "Degraded"}
      => kind \in {"Complete", "Degraded", "SequenceGap"}
PROOF BY DEF Quality!QualityKind, Facts!StateForQuality

LEMMA InvariantVouches ==
  ASSUME IngestIInv
  PROVE  CoverageHasEvidence
  <1>1. ASSUME NEW g \in outcome.coverage, NEW t \in Instants(g.range)
        PROVE  \E i \in DOMAIN calls :
                 /\ Contains(calls[i].segment.mapping.range, t)
                 /\ \E o \in calls[i].response.quality :
                      /\ o.kind \in {"Complete", "Degraded", "SequenceGap"}
                      /\ o.scope \in {NoScope, g.scope}
                      /\ Contains(o.range, t)
    <2>1. phase = "done"
      <3>1. phase # "done" => outcome.coverage = {}
        BY DEF IngestIInv, OutcomeIsReduced, NoOutcome
      <3> QED BY <1>1, <3>1
    <2>2. g \in Reduced /\ g.state \in {"Complete", "Degraded"}
      BY <1>1, <2>1, DoneFacts DEF Quality!IsUsable
    <2>3. /\ g.range \in TimeRange /\ quality \in SUBSET Facts!QualityObservation
          /\ Facts!StateAt(t, g.scope, quality) = g.state
      BY <1>1, <2>1, <2>2, DoneFacts, ReducedFacts
    <2>4. PICK o \in Facts!EvidenceAt(t, g.scope, quality) : Facts!StateForQuality(o.kind) = g.state
      BY <2>2, <2>3, TimeBounds, NoScopeIsNoPair, Facts!StateAtFacts
    <2>5. o \in quality /\ o.scope = g.scope /\ Contains(o.range, t)
      BY <2>4, SameRanges DEF Facts!EvidenceAt
    <2>6. o.kind \in {"Complete", "Degraded", "SequenceGap"} /\ o.range \in TimeRange
      <3>1. o.kind \in Quality!QualityKind /\ o.range \in TimeRange
        BY <2>3, <2>5, SameRanges DEF Facts!QualityObservation, Facts!QualityKind, Quality!QualityKind
      <3> QED BY <2>2, <2>4, <3>1, UsableKinds
    <2>7. PICK i \in DOMAIN calls : o \in CallEvidence(query, calls[i])
      BY <2>5, <2>6 DEF IngestIInv, EvidenceComesFromCalls
    <2> DEFINE m == calls[i].segment.mapping
    <2>8. /\ m \in Mapping /\ m.range \in TimeRange
          /\ calls[i].response \in Responses /\ query \in Queries
          /\ o \in EvidenceOf(query, m, calls[i].response)
      BY <2>7, CallFields, MappingFields DEF CallEvidence
    <2> HIDE DEF m
    <2>9. m.range.start <= o.range.start /\ o.range.end <= m.range.end
      BY <2>8, EvidenceFacts
    <2>10. PICK e \in calls[i].response.quality :
             /\ e.kind = o.kind /\ e.scope \in {NoScope, o.scope}
             /\ e.range.start <= o.range.start /\ o.range.end <= e.range.end
      BY <2>6, <2>8, EvidenceFacts
    <2>11. e.range \in TimeRange
      BY <2>8, ResponseFields, SameRanges DEF Quality!QualityObservation
    <2>12. Contains(m.range, t) /\ Contains(e.range, t)
      <3>1. t \in Int /\ o.range.start <= t /\ t < o.range.end
        BY <1>1, <2>3, <2>5, RangeEnds DEF Instants, Contains
      <3> QED BY <2>6, <2>8, <2>9, <2>10, <2>11, <3>1, RangeEnds DEF Contains
    <2> QED BY <2>5, <2>6, <2>10, <2>12 DEF m
  <1>2. ASSUME phase = "done", outcome.state = "Complete"
        PROVE  outcome.unresolved = {}
    <2>1. \A g \in Reduced : g.state \in Facts!DataState
      BY <1>2, DoneFacts, ReducedFacts, SameRanges
    <2>2. Facts!Summarize(Reduced) = "Complete"
      BY <1>2, DoneFacts, SameSegments
    <2>3. \A g \in Reduced : g.state = "Complete"
      BY <2>1, <2>2, TimeBounds, NoScopeIsNoPair, Facts!SummaryFacts
    <2> QED BY <1>2, <2>3, DoneFacts DEF Quality!IsUsable
  <1> QED BY <1>1, <1>2 DEF CoverageHasEvidence

\* What a result counts as covered was vouched for, instant by instant, by the
\* provider's answer to a segment that maps the instant.
THEOREM CoverageIsVouchedFor == Spec => []CoverageHasEvidence
  <1>1. IngestIInv => CoverageHasEvidence
    BY InvariantVouches
  <1> QED BY <1>1, IngestInductive, PTL

-----------------------------------------------------------------------------
\* Induction up to N, as a fact about sets.
LEMMA UpTo ==
  ASSUME NEW N \in Nat, NEW G, 0 \in G, \A n \in 1..N : (n - 1) \in G => n \in G
  PROVE  0..N \subseteq G
PROOF BY Facts!UpTo, TimeBounds, NoScopeIsNoPair

\* The prefixes that Select goes through, and what it gives at the end.
SelectSteps(seq, S, f) ==
  /\ f[0] = <<>>
  /\ \A n \in 1..Len(seq) : f[n] = IF seq[n] \in S THEN Append(f[n - 1], seq[n]) ELSE f[n - 1]

LEMMA SelectHasSteps ==
  ASSUME NEW T, NEW seq \in Seq(T), NEW S
  PROVE  \E f : /\ Select(seq, S) = f[Len(seq)] /\ SelectSteps(seq, S, f)
                /\ \A n \in 0..Len(seq) : f[n] \in Seq(T)
  <1> DEFINE f == CHOOSE g : g = [n \in 0..Len(seq) |-> TakeStep(seq, S, g, n)]
             Good(n) == f[n] \in Seq(T)
             G == {n \in 0..Len(seq) : Good(n)}
  <1>1. Select(seq, S) = f[Len(seq)] /\ Len(seq) \in Nat
    BY DEF Select, TakeStep
  <1>2. f = [n \in 0..Len(seq) |-> TakeStep(seq, S, f, n)]
    <2>1. \E g : g = [n \in 0..Len(seq) |-> TakeStep(seq, S, g, n)]
      BY <1>1, SelectIsDefined
    <2> QED BY <2>1
  <1> HIDE DEF f
  <1>3. \A n \in 0..Len(seq) : f[n] = TakeStep(seq, S, f, n)
    <2> QED BY <1>2
  <1>4. SelectSteps(seq, S, f)
    BY <1>1, <1>3 DEF TakeStep, SelectSteps
  <1>5. 0..Len(seq) \subseteq G
    <2>1. Good(0)
      <3>1. <<>> \in Seq(T)
        OBVIOUS
      <3> QED BY <1>4, <3>1 DEF SelectSteps
    <2>2. ASSUME NEW n \in 1..Len(seq), Good(n - 1) PROVE Good(n)
      <3>1. seq[n] \in T /\ f[n - 1] \in Seq(T)
        BY <1>1, <2>2
      <3>2. Append(f[n - 1], seq[n]) \in Seq(T)
        BY <3>1
      <3> QED BY <1>4, <3>1, <3>2 DEF SelectSteps
    <2> HIDE DEF Good
    <2>3. 0 \in G /\ \A n \in 1..Len(seq) : (n - 1) \in G => n \in G
      BY <1>1, <2>1, <2>2
    <2> HIDE DEF G
    <2> QED BY <1>1, <2>3, UpTo
  <1> QED BY <1>1, <1>4, <1>5

\* What Select takes of a sequence depends on the elements it has.
LEMMA SelectSame ==
  ASSUME NEW T, NEW seq \in Seq(T), NEW R, NEW S, \A x \in Elements(seq) : x \in R <=> x \in S
  PROVE  Select(seq, R) = Select(seq, S)
  <1>1. PICK f : Select(seq, R) = f[Len(seq)] /\ SelectSteps(seq, R, f)
    BY SelectHasSteps
  <1>2. PICK g : Select(seq, S) = g[Len(seq)] /\ SelectSteps(seq, S, g)
    BY SelectHasSteps
  <1> DEFINE G == {n \in 0..Len(seq) : f[n] = g[n]}
  <1>3. Len(seq) \in Nat /\ \A n \in 1..Len(seq) : seq[n] \in R <=> seq[n] \in S
    BY DEF Elements
  <1>4. f[0] = g[0] /\ \A n \in 1..Len(seq) : f[n - 1] = g[n - 1] => f[n] = g[n]
    BY <1>1, <1>2, <1>3 DEF SelectSteps
  <1>5. 0..Len(seq) \subseteq G
    <2>1. 0 \in G /\ \A n \in 1..Len(seq) : (n - 1) \in G => n \in G
      BY <1>3, <1>4
    <2> HIDE DEF G
    <2> QED BY <1>3, <2>1, UpTo
  <1>6. Len(seq) \in G
    BY <1>3, <1>5
  <1> QED BY <1>1, <1>2, <1>6

LEMMA SelectNothing ==
  ASSUME NEW T, NEW seq \in Seq(T), NEW S, \A x \in Elements(seq) : x \notin S
  PROVE  Select(seq, S) = <<>>
  <1>1. PICK f : Select(seq, S) = f[Len(seq)] /\ SelectSteps(seq, S, f)
    BY SelectHasSteps
  <1> DEFINE G == {n \in 0..Len(seq) : f[n] = <<>>}
  <1>2. Len(seq) \in Nat /\ \A n \in 1..Len(seq) : seq[n] \notin S
    BY DEF Elements
  <1>3. f[0] = <<>> /\ \A n \in 1..Len(seq) : f[n - 1] = <<>> => f[n] = <<>>
    BY <1>1, <1>2 DEF SelectSteps
  <1>4. 0..Len(seq) \subseteq G
    <2>1. 0 \in G /\ \A n \in 1..Len(seq) : (n - 1) \in G => n \in G
      BY <1>2, <1>3
    <2> HIDE DEF G
    <2> QED BY <1>2, <2>1, UpTo
  <1>5. Len(seq) \in G
    BY <1>2, <1>4
  <1> QED BY <1>1, <1>5

\* Select goes through one sequence after the other.
LEMMA SelectOfConcat ==
  ASSUME NEW T, NEW a \in Seq(T), NEW b \in Seq(T), NEW S
  PROVE  Select(a \o b, S) = Select(a, S) \o Select(b, S)
  <1> DEFINE N == Len(a)
             M == Len(b)
             ab == a \o b
  <1>1. /\ N \in Nat /\ M \in Nat /\ ab \in Seq(T) /\ Len(ab) = N + M
        /\ \A n \in 1..N : ab[n] = a[n]
        /\ \A n \in 1..M : ab[N + n] = b[n]
        /\ \A n \in 1..M : b[n] \in T
    OBVIOUS
  <1>2. PICK f : Select(ab, S) = f[N + M] /\ SelectSteps(ab, S, f)
    <2> HIDE DEF ab, N, M
    <2>1. PICK f : Select(ab, S) = f[Len(ab)] /\ SelectSteps(ab, S, f)
      BY <1>1, SelectHasSteps
    <2> QED BY <1>1, <2>1
  <1>3. PICK g : Select(a, S) = g[N] /\ SelectSteps(a, S, g) /\ \A n \in 0..N : g[n] \in Seq(T)
    BY SelectHasSteps
  <1>4. PICK h : Select(b, S) = h[M] /\ SelectSteps(b, S, h) /\ \A n \in 0..M : h[n] \in Seq(T)
    BY SelectHasSteps
  <1>5. /\ g[0] = <<>> /\ \A n \in 1..N : g[n] = IF a[n] \in S THEN Append(g[n - 1], a[n]) ELSE g[n - 1]
        /\ h[0] = <<>> /\ \A n \in 1..M : h[n] = IF b[n] \in S THEN Append(h[n - 1], b[n]) ELSE h[n - 1]
    BY <1>3, <1>4 DEF SelectSteps
  <1> HIDE DEF N, M, ab
  <1>6. f[0] = <<>> /\ \A n \in 1..(N + M) : f[n] = IF ab[n] \in S THEN Append(f[n - 1], ab[n]) ELSE f[n - 1]
    BY <1>1, <1>2 DEF SelectSteps
  <1>7. f[N] = g[N] /\ g[N] \in Seq(T)
    <2> DEFINE G == {n \in 0..N : f[n] = g[n]}
    <2>1. ASSUME NEW n \in 1..N, f[n - 1] = g[n - 1] PROVE f[n] = g[n]
      <3>1. n \in 1..(N + M) /\ ab[n] = a[n]
        BY <1>1
      <3> QED BY <1>5, <1>6, <2>1, <3>1
    <2>2. 0 \in G /\ \A n \in 1..N : (n - 1) \in G => n \in G
      BY <1>1, <1>5, <1>6, <2>1
    <2>3. 0..N \subseteq G
      <3> HIDE DEF G
      <3> QED BY <1>1, <2>2, UpTo
    <2>4. N \in 0..N
      BY <1>1
    <2> QED BY <1>3, <2>3, <2>4
  <1>8. f[N + M] = g[N] \o h[M]
    <2> DEFINE Good(n) == f[N + n] = g[N] \o h[n]
               G == {n \in 0..M : Good(n)}
    <2>1. Good(0)
      <3>1. N + 0 = N
        BY <1>1
      <3>2. g[N] \o <<>> = g[N]
        BY <1>7, ConcatEmptySeq
      <3> QED BY <1>5, <1>7, <3>1, <3>2
    <2>2. ASSUME NEW n \in 1..M, Good(n - 1) PROVE Good(n)
      <3>1. N + n \in 1..(N + M) /\ (N + n) - 1 = N + (n - 1) /\ (n - 1) \in 0..M
        BY <1>1
      <3>2. ab[N + n] = b[n] /\ h[n - 1] \in Seq(T) /\ b[n] \in T
        BY <1>1, <1>4, <3>1
      <3>3. f[(N + n) - 1] = g[N] \o h[n - 1]
        BY <2>2, <3>1
      <3>4. f[N + n] = IF b[n] \in S THEN Append(g[N] \o h[n - 1], b[n]) ELSE g[N] \o h[n - 1]
        BY <1>6, <3>1, <3>2, <3>3
      <3>5. Append(g[N] \o h[n - 1], b[n]) = g[N] \o Append(h[n - 1], b[n])
        <4> DEFINE p == g[N]
                   q == h[n - 1]
                   r == b[n]
        <4>1. p \in Seq(T) /\ q \in Seq(T) /\ r \in T
          BY <1>7, <3>2
        <4> HIDE DEF p, q, r
        <4>2. <<r>> \in Seq(T) /\ p \o q \in Seq(T)
          BY <4>1
        <4>3. Append(p \o q, r) = (p \o q) \o <<r>> /\ Append(q, r) = q \o <<r>>
          BY <4>1, <4>2, AppendIsConcat
        <4>4. (p \o q) \o <<r>> = p \o (q \o <<r>>)
          BY <4>1, <4>2, ConcatAssociative
        <4>5. Append(p \o q, r) = p \o Append(q, r)
          BY <4>3, <4>4, Zenon
        <4> QED BY <4>5 DEF p, q, r
      <3>6. h[n] = IF b[n] \in S THEN Append(h[n - 1], b[n]) ELSE h[n - 1]
        BY <1>5
      <3>7. CASE b[n] \in S
        BY <3>4, <3>5, <3>6, <3>7, Zenon
      <3>8. CASE b[n] \notin S
        BY <3>4, <3>6, <3>8, Zenon
      <3> QED BY <3>7, <3>8
    <2> HIDE DEF Good
    <2>3. 0 \in G /\ \A n \in 1..M : (n - 1) \in G => n \in G
      BY <1>1, <2>1, <2>2
    <2>4. 0..M \subseteq G
      <3> HIDE DEF G
      <3> QED BY <1>1, <2>3, UpTo
    <2>5. Good(M)
      BY <1>1, <2>4
    <2> QED BY <2>5 DEF Good
  <1> QED BY <1>2, <1>3, <1>4, <1>7, <1>8 DEF ab

-----------------------------------------------------------------------------
\* One step of the recursion of Joined, which has a solution as well.
JoinStep(parts, upTo, n) == IF n = 0 THEN <<>> ELSE upTo[n - 1] \o parts[n]

LEMMA JoinedIsDefined ==
  ASSUME NEW parts, NEW N \in Nat
  PROVE  \E g : g = [n \in 0..N |-> JoinStep(parts, g, n)]
  <1> DEFINE Solved == {n \in Nat : \E g : g = [k \in 0..n |-> JoinStep(parts, g, k)]}
  <1>1. 0 \in Solved
    <2> DEFINE g == [k \in 0..0 |-> <<>>]
    <2>1. g = [k \in 0..0 |-> JoinStep(parts, g, k)]
      BY DEF JoinStep
    <2> QED BY <2>1
  <1>2. ASSUME NEW m \in 1..N, (m - 1) \in Solved PROVE m \in Solved
    <2>1. PICK g : g = [k \in 0..(m - 1) |-> JoinStep(parts, g, k)]
      BY <1>2
    <2> DEFINE h == [k \in 0..m |-> IF k = m THEN JoinStep(parts, g, m) ELSE g[k]]
    <2>2. \A k \in 0..m : h[k] = JoinStep(parts, h, k)
      <3> SUFFICES ASSUME NEW k \in 0..m PROVE h[k] = JoinStep(parts, h, k)
        OBVIOUS
      <3>1. k # 0 => h[k - 1] = g[k - 1]
        OBVIOUS
      <3>2. CASE k = m
        BY <3>1, <3>2 DEF JoinStep
      <3>3. CASE k # m
        <4>1. k \in 0..(m - 1) /\ h[k] = g[k]
          BY <3>3
        <4>2. g[k] = JoinStep(parts, g, k)
          BY <2>1, <4>1
        <4> QED BY <3>1, <4>1, <4>2 DEF JoinStep
      <3> QED BY <3>2, <3>3
    <2>3. h = [k \in 0..m |-> JoinStep(parts, h, k)]
      <3>1. h = [k \in 0..m |-> h[k]]
        OBVIOUS
      <3> HIDE DEF h
      <3> QED BY <2>2, <3>1
    <2>4. m \in Nat
      OBVIOUS
    <2> HIDE DEF h
    <2> QED BY <2>3, <2>4
  <1>3. 0..N \subseteq Solved
    <2> HIDE DEF Solved
    <2> QED BY <1>1, <1>2, UpTo
  <1> QED BY <1>3

\* The prefixes that Joined goes through.
JoinSteps(parts, f) ==
  /\ f[0] = <<>>
  /\ \A n \in 1..Len(parts) : f[n] = f[n - 1] \o parts[n]

LEMMA JoinedHasSteps ==
  ASSUME NEW T, NEW parts \in Seq(Seq(T))
  PROVE  \E f : /\ Atomic!Joined(parts) = f[Len(parts)] /\ JoinSteps(parts, f)
                /\ \A n \in 0..Len(parts) : f[n] \in Seq(T)
  <1> DEFINE f == CHOOSE g : g = [n \in 0..Len(parts) |-> JoinStep(parts, g, n)]
             Good(n) == f[n] \in Seq(T)
             G == {n \in 0..Len(parts) : Good(n)}
  <1>1. Atomic!Joined(parts) = f[Len(parts)] /\ Len(parts) \in Nat
    BY DEF Atomic!Joined, JoinStep
  <1>2. f = [n \in 0..Len(parts) |-> JoinStep(parts, f, n)]
    <2>1. \E g : g = [n \in 0..Len(parts) |-> JoinStep(parts, g, n)]
      BY <1>1, JoinedIsDefined
    <2> QED BY <2>1
  <1> HIDE DEF f
  <1>3. \A n \in 0..Len(parts) : f[n] = JoinStep(parts, f, n)
    <2> QED BY <1>2
  <1>4. JoinSteps(parts, f)
    <2>1. ASSUME NEW n \in 1..Len(parts) PROVE f[n] = f[n - 1] \o parts[n]
      <3>1. n \in 0..Len(parts) /\ n # 0
        BY <1>1
      <3> QED BY <1>3, <3>1 DEF JoinStep
    <2>2. f[0] = <<>>
      BY <1>1, <1>3 DEF JoinStep
    <2> QED BY <2>1, <2>2 DEF JoinSteps
  <1>5. 0..Len(parts) \subseteq G
    <2>1. Good(0)
      <3>1. <<>> \in Seq(T)
        OBVIOUS
      <3> QED BY <1>4, <3>1 DEF JoinSteps
    <2>2. ASSUME NEW n \in 1..Len(parts), Good(n - 1) PROVE Good(n)
      <3>1. parts[n] \in Seq(T) /\ f[n - 1] \in Seq(T)
        BY <1>1, <2>2
      <3>2. f[n - 1] \o parts[n] \in Seq(T)
        BY <3>1
      <3> QED BY <1>4, <3>2 DEF JoinSteps
    <2> HIDE DEF Good
    <2>3. 0 \in G /\ \A n \in 1..Len(parts) : (n - 1) \in G => n \in G
      BY <1>1, <2>1, <2>2
    <2> HIDE DEF G
    <2> QED BY <1>1, <2>3, UpTo
  <1> QED BY <1>1, <1>4, <1>5

LEMMA JoinedNothing == Atomic!Joined(<<>>) = <<>>
  <1>1. <<>> \in Seq(Seq(Item)) /\ Len(<<>>) = 0
    OBVIOUS
  <1>2. PICK f : Atomic!Joined(<<>>) = f[Len(<<>>)] /\ JoinSteps(<<>>, f)
    BY <1>1, JoinedHasSteps
  <1> QED BY <1>1, <1>2 DEF JoinSteps

\* A sequence with one part more, which is joined at the end.
IsExtended(more, parts, x) ==
  /\ Len(more) = Len(parts) + 1 /\ more[Len(parts) + 1] = x
  /\ \A n \in 1..Len(parts) : more[n] = parts[n]

LEMMA JoinedMore ==
  ASSUME NEW T, NEW parts \in Seq(Seq(T)), NEW x \in Seq(T), NEW more \in Seq(Seq(T)),
         IsExtended(more, parts, x)
  PROVE  Atomic!Joined(more) = Atomic!Joined(parts) \o x /\ Atomic!Joined(parts) \in Seq(T)
  <1> DEFINE N == Len(parts)
  <1>1. /\ N \in Nat /\ Len(more) = N + 1 /\ more[N + 1] = x
        /\ \A n \in 1..N : more[n] = parts[n]
    BY DEF IsExtended
  <1>2. PICK f : Atomic!Joined(more) = f[Len(more)] /\ JoinSteps(more, f)
    BY <1>1, JoinedHasSteps
  <1>3. PICK g : Atomic!Joined(parts) = g[N] /\ JoinSteps(parts, g) /\ \A n \in 0..N : g[n] \in Seq(T)
    BY JoinedHasSteps
  <1>4. /\ f[0] = <<>> /\ \A n \in 1..(N + 1) : f[n] = f[n - 1] \o more[n]
        /\ g[0] = <<>> /\ \A n \in 1..N : g[n] = g[n - 1] \o parts[n]
    BY <1>1, <1>2, <1>3 DEF JoinSteps
  <1> HIDE DEF N
  <1> DEFINE G == {n \in 0..N : f[n] = g[n]}
  <1>5. f[N] = g[N]
    <2>1. ASSUME NEW n \in 1..N, f[n - 1] = g[n - 1] PROVE f[n] = g[n]
      <3>1. n \in 1..(N + 1) /\ more[n] = parts[n]
        BY <1>1
      <3> QED BY <1>4, <2>1, <3>1
    <2>2. 0 \in G /\ \A n \in 1..N : (n - 1) \in G => n \in G
      BY <1>1, <1>4, <2>1
    <2>3. 0..N \subseteq G
      <3> HIDE DEF G
      <3> QED BY <1>1, <2>2, UpTo
    <2> QED BY <1>1, <2>3
  <1>6. N + 1 \in 1..(N + 1) /\ (N + 1) - 1 = N /\ N \in 0..N
    BY <1>1
  <1>7. f[N + 1] = f[N] \o x
    BY <1>1, <1>4, <1>6
  <1> QED BY <1>1, <1>2, <1>3, <1>5, <1>6, <1>7

-----------------------------------------------------------------------------
\* The abstract ingest() plans, takes answers and reduces as ingest() does.
LEMMA SamePlans ==
  /\ \A q, answer : Atomic!Planner!PlanFor(q, answer) = Planner!PlanFor(q, answer)
  /\ \A q : Atomic!Planner!EventRange(q) = Planner!EventRange(q)
  /\ Atomic!Planner!Failed("none") = Planner!Failed("none")
  <1>1. /\ \A q : Atomic!Planner!EventRange(q) = Planner!EventRange(q)
        /\ \A e : Atomic!Planner!Failed(e) = Planner!Failed(e)
    BY DEF Planner!EventRange, Atomic!Planner!EventRange, Planner!Failed, Atomic!Planner!Failed
  <1>2. \A i, p, v, r : Atomic!Planner!Resolve(i, p, v, r) = Planner!Resolve(i, p, v, r)
    BY DEF Planner!Resolve, Atomic!Planner!Resolve, Planner!Intersection, Atomic!Planner!Intersection,
           Planner!None, Atomic!Planner!None
  <1>3. \A q, a, ms : Atomic!Planner!PlanError(q, a, ms) = Planner!PlanError(q, a, ms)
    BY DEF Planner!PlanError, Atomic!Planner!PlanError, Planner!OverlapIn, Atomic!Planner!OverlapIn,
           Planner!SameScope, Atomic!Planner!SameScope, Planner!Overlaps, Atomic!Planner!Overlaps,
           Planner!FetchRangeError, Atomic!Planner!FetchRangeError,
           Planner!CanExpand, Atomic!Planner!CanExpand
  <1>4. \A q, ms : Atomic!Planner!Planned(q, ms) = Planner!Planned(q, ms)
    BY <1>1
       DEF Planner!Planned, Atomic!Planner!Planned, Planner!PlanSegment, Atomic!Planner!PlanSegment,
           Planner!FetchRange, Atomic!Planner!FetchRange, Planner!Expand, Atomic!Planner!Expand,
           Planner!EventRange, Atomic!Planner!EventRange,
           Planner!Gaps, Atomic!Planner!Gaps, Planner!Uncovered, Atomic!Planner!Uncovered,
           Planner!Contains, Atomic!Planner!Contains, Planner!Instants, Atomic!Planner!Instants,
           Planner!TimeRange, Atomic!Planner!TimeRange, Planner!Timestamp, Atomic!Planner!Timestamp
  <1>5. \A q, answer : Atomic!Planner!PlanFor(q, answer) = Planner!PlanFor(q, answer)
    BY <1>1, <1>2, <1>3, <1>4 DEF Planner!PlanFor, Atomic!Planner!PlanFor
  <1> QED BY <1>1, <1>5

LEMMA SameSteps ==
  /\ Atomic!Kinds = Kinds /\ Atomic!NoScope = NoScope
  /\ \A x : Atomic!ScopeOf(x) = ScopeOf(x)
  /\ \A x : Atomic!Elements(x) = Elements(x)
  /\ \A x, S : Atomic!Select(x, S) = Select(x, S)
  /\ \A l, r : Atomic!MappingLess(l, r) = MappingLess(l, r)
  /\ \A l, r : Planner!MappingLess(l, r) = MappingLess(l, r)
PROOF BY DEF Atomic!Kinds, Kinds, Atomic!NoScope, NoScope, Atomic!ScopeOf, ScopeOf,
             Atomic!Elements, Elements, Atomic!Select, Select,
             Atomic!MappingLess, MappingLess, Planner!MappingLess

LEMMA SameAnswers ==
  ASSUME NEW q, NEW m, NEW r
  PROVE  /\ \A k : Atomic!Kept(q, m, r, k) = Kept(q, m, r, k)
         /\ Atomic!Rejects(q, m, r) = Rejects(q, m, r)
         /\ Atomic!EvidenceOf(q, m, r) = EvidenceOf(q, m, r)
         /\ Atomic!ExpectedScopes(q, m, r) = ExpectedScopes(q, m, r)
         /\ Atomic!SourcesOf(q, m, r) = SourcesOf(q, m, r)
         /\ Atomic!ArtifactsOf(m, r) = ArtifactsOf(m, r)
  <1>1. Atomic!Matching(q, m, r) = Matching(q, m, r)
    BY DEF Atomic!Matching, Matching, Atomic!Elements, Elements, Atomic!HeaderMatches, HeaderMatches,
           Atomic!Contains, Contains, Atomic!None, None
  <1>2. \A k : Atomic!Kept(q, m, r, k) = Kept(q, m, r, k)
    BY <1>1, SameSteps DEF Atomic!Kept, Kept, Atomic!IsInvalid, IsInvalid
  <1>3. Atomic!Rejects(q, m, r) = Rejects(q, m, r)
    BY DEF Atomic!Rejects, Rejects, Atomic!Overlaps, Overlaps, Atomic!NoScope, NoScope,
           Atomic!QualityScopeMatches, QualityScopeMatches, Atomic!None, None
  <1>4. /\ Atomic!ResponseScopes(q, m, r) = ResponseScopes(q, m, r)
        /\ Atomic!InvalidScopes(q, m, r) = InvalidScopes(q, m, r)
    BY <1>1 DEF Atomic!ResponseScopes, ResponseScopes, Atomic!InvalidScopes, InvalidScopes,
                Atomic!ScopeOf, ScopeOf, Atomic!IsInvalid, IsInvalid
  <1>5. /\ Atomic!KnownMappingScope(m) = KnownMappingScope(m)
        /\ Atomic!SourceScopes(q, m, r) = SourceScopes(q, m, r)
    BY DEF Atomic!KnownMappingScope, KnownMappingScope, Atomic!SourceScopes, SourceScopes,
           Atomic!EffectiveVenue, EffectiveVenue, Atomic!None, None
  <1>6. \A o : Atomic!EvidenceScopes(o, q, m, r) = EvidenceScopes(o, q, m, r)
    BY <1>4, <1>5 DEF Atomic!EvidenceScopes, EvidenceScopes, Atomic!ObservationScopes, ObservationScopes,
                      Atomic!NoScope, NoScope
  <1>7. \A x, y : Atomic!Intersection(x, y) = Intersection(x, y)
    BY DEF Atomic!Intersection, Intersection
  <1>8. Atomic!EvidenceOf(q, m, r) = EvidenceOf(q, m, r)
    BY <1>4, <1>6, <1>7 DEF Atomic!EvidenceOf, EvidenceOf, Atomic!ResponseEvidence, ResponseEvidence,
                            Atomic!CorruptEvidence, CorruptEvidence
  <1>9. Atomic!ExpectedScopes(q, m, r) = ExpectedScopes(q, m, r)
    BY <1>4, <1>5, <1>8 DEF Atomic!ExpectedScopes, ExpectedScopes
  <1>10. Atomic!SourcesOf(q, m, r) = SourcesOf(q, m, r) /\ Atomic!ArtifactsOf(m, r) = ArtifactsOf(m, r)
    BY <1>1, <1>7 DEF Atomic!SourcesOf, SourcesOf, Atomic!ArtifactsOf, ArtifactsOf, Atomic!None, None
  <1> QED BY <1>2, <1>3, <1>8, <1>9, <1>10

LEMMA SameReduction ==
  /\ \A q, o, e : Atomic!Quality!StateSegments(q, o, e) = Quality!StateSegments(q, o, e)
  /\ \A segments : Atomic!Quality!Summarize(segments) = Quality!Summarize(segments)
  /\ \A s : Atomic!Quality!IsUsable(s) = Quality!IsUsable(s)
PROOF BY DEF Quality!StateSegments, Atomic!Quality!StateSegments, Quality!ScopesOf, Atomic!Quality!ScopesOf,
             Quality!Overlaps, Atomic!Quality!Overlaps,
             Quality!SegmentsOfScope, Atomic!Quality!SegmentsOfScope, Quality!MaximalRun, Atomic!Quality!MaximalRun,
             Quality!Instants, Atomic!Quality!Instants, Quality!TimeRange, Atomic!Quality!TimeRange,
             Quality!Timestamp, Atomic!Quality!Timestamp, Quality!StateAt, Atomic!Quality!StateAt,
             Quality!Contains, Atomic!Quality!Contains, Quality!Worst, Atomic!Quality!Worst,
             Quality!Severity, Atomic!Quality!Severity, Quality!StateForQuality, Atomic!Quality!StateForQuality,
             Quality!Summarize, Atomic!Quality!Summarize, Quality!SummarySeverity, Atomic!Quality!SummarySeverity,
             Quality!IsUsable, Atomic!Quality!IsUsable, NoScope, Atomic!NoScope

-----------------------------------------------------------------------------
\* The order of the plan is strict.
LEMMA OrderIsStrict ==
  ASSUME NEW m \in Mapping, NEW n \in Mapping, MappingLess(m, n)
  PROVE  ~MappingLess(n, m)
  <1> DEFINE km == <<m.range.start, m.range.end, m.venue, m.source, m.provider_id>>
             kn == <<n.range.start, n.range.end, n.venue, n.source, n.provider_id>>
  <1>1. \A k \in 1..5 : km[k] \in Int /\ kn[k] \in Int
    <2>1. /\ m.range \in TimeRange /\ n.range \in TimeRange
          /\ m.venue \in Nat /\ n.venue \in Nat /\ m.source \in Nat /\ n.source \in Nat
          /\ m.provider_id \in Nat /\ n.provider_id \in Nat
      <3>1. /\ m.range \in TimeRange /\ n.range \in TimeRange
            /\ m.venue \in Venues \union {None} /\ n.venue \in Venues \union {None}
            /\ m.source \in Sources \union {None} /\ n.source \in Sources \union {None}
            /\ m.provider_id \in ProviderIds /\ n.provider_id \in ProviderIds
        BY DEF Mapping
      <3>2. Venues \union {None} \subseteq Nat /\ Sources \union {None} \subseteq Nat
        BY IdentifierAssumption DEF None
      <3> QED BY <3>1, <3>2, IdentifierAssumption
    <2>2. /\ m.range.start \in Int /\ n.range.start \in Int
          /\ m.range.end \in Int /\ n.range.end \in Int
      BY <2>1, RangeEnds
    <2> QED BY <2>1, <2>2
  <1>2. PICK k \in 1..5 : km[k] < kn[k] /\ \A j \in 1..(k - 1) : km[j] = kn[j]
    BY DEF MappingLess
  <1>3. ASSUME NEW l \in 1..5, kn[l] < km[l], \A j \in 1..(l - 1) : kn[j] = km[j]
        PROVE  FALSE
    <2> HIDE DEF km, kn
    <2>1. CASE l = k
      BY <1>1, <1>2, <1>3, <2>1
    <2>2. CASE l < k
      <3>1. l \in 1..(k - 1)
        BY <2>2
      <3> QED BY <1>1, <1>2, <1>3, <3>1
    <2>3. CASE k < l
      <3>1. k \in 1..(l - 1)
        BY <2>3
      <3> QED BY <1>1, <1>2, <1>3, <3>1
    <2> QED BY <2>1, <2>2, <2>3
  <1> QED BY <1>3 DEF MappingLess

\* A strictly increasing enumeration of segments.
Increasing(f, N) ==
  \A i \in 1..N, j \in 1..N : i < j => MappingLess(f[i].mapping, f[j].mapping)

LEMMA IncreasingIsInjective ==
  ASSUME NEW N \in Nat, NEW S, \A s \in S : s.mapping \in Mapping,
         NEW f \in [1..N -> S], Increasing(f, N)
  PROVE  /\ f \in Injection(1..N, S)
         /\ \A i \in 1..N, j \in 1..N : f[i] = f[j] => i = j
  <1>1. ASSUME NEW i \in 1..N, NEW j \in 1..N, f[i] = f[j], i # j
        PROVE  FALSE
    <2>1. f[i].mapping \in Mapping /\ f[j].mapping \in Mapping /\ (i < j \/ j < i)
      BY <1>1
    <2>2. MappingLess(f[i].mapping, f[j].mapping) \/ MappingLess(f[j].mapping, f[i].mapping)
      BY <1>1, <2>1 DEF Increasing
    <2> QED BY <1>1, <2>1, <2>2, OrderIsStrict
  <1> QED BY <1>1 DEF Injection, IsInjective

\* There is one such enumeration.
LEMMA OneOrder ==
  ASSUME NEW N \in Nat, NEW S, \A s \in S : s.mapping \in Mapping,
         NEW f \in [1..N -> S], Increasing(f, N), \A s \in S : \E i \in 1..N : f[i] = s,
         NEW g \in [1..N -> S], Increasing(g, N)
  PROVE  g = f /\ Cardinality(S) = N
  <1>1. f \in Bijection(1..N, S)
    BY IncreasingIsInjective DEF Bijection, Surjection
  <1>0. /\ \A i \in 1..N, j \in 1..N : f[i] = f[j] => i = j
        /\ \A i \in 1..N, j \in 1..N : g[i] = g[j] => i = j
    BY IncreasingIsInjective
  <1>2. Cardinality(S) = N
    BY <1>1, FS_CountingElements DEF ExistsBijection
  <1>3. IsFiniteSet(1..N) /\ Cardinality(1..N) = N
    BY FS_Interval
  <1>4. IsFiniteSet(S)
    BY <1>1, <1>3, FS_Bijection DEF ExistsBijection
  <1>5. \A s \in S : \E i \in 1..N : g[i] = s
    <2>1. g \in Injection(1..N, S)
      BY IncreasingIsInjective
    <2>2. g \in Surjection(1..N, S)
      BY <1>2, <1>3, <1>4, <2>1, FS_Injection
    <2> QED BY <2>2 DEF Surjection
  <1> DEFINE Same(n) == \A k \in 1..n : f[k] = g[k]
             G == {n \in 0..N : Same(n)}
  <1>6. ASSUME NEW n \in 1..N, Same(n - 1)
        PROVE  f[n] = g[n]
    <2>1. PICK j \in 1..N : g[j] = f[n]
      BY <1>5
    <2>2. PICK k \in 1..N : f[k] = g[n]
      BY <1>5
    <2>3. \A i \in 1..N : i < n => f[i] = g[i]
      <3>1. \A i \in 1..N : i < n => i \in 1..(n - 1)
        OBVIOUS
      <3> QED BY <1>6, <3>1
    <2>4. ~(j < n)
      BY <1>0, <2>1, <2>3
    <2>5. ~(k < n)
      BY <1>0, <2>2, <2>3
    <2>6. CASE j = n \/ k = n
      BY <2>1, <2>2, <2>6
    <2>7. CASE n < j /\ n < k
      <3>1. MappingLess(g[n].mapping, g[j].mapping) /\ MappingLess(f[n].mapping, f[k].mapping)
        BY <2>7 DEF Increasing
      <3>2. f[n].mapping \in Mapping /\ g[n].mapping \in Mapping
        OBVIOUS
      <3> QED BY <2>1, <2>2, <3>1, <3>2, OrderIsStrict
    <2> QED BY <2>4, <2>5, <2>6, <2>7
  <1>7. ASSUME NEW n \in 1..N, n - 1 \in G PROVE n \in G
    <2>1. Same(n - 1) /\ n \in 0..N
      BY <1>7
    <2>2. f[n] = g[n]
      BY <1>6, <2>1
    <2>3. \A k \in 1..n : k = n \/ k \in 1..(n - 1)
      OBVIOUS
    <2>4. Same(n)
      BY <2>1, <2>2, <2>3
    <2> QED BY <2>1, <2>4
  <1>8. 0 \in G
    OBVIOUS
  <1>9. N \in G
    <2>1. \A n \in 1..N : n - 1 \in G => n \in G
      BY <1>7
    <2> HIDE DEF G
    <2>2. 0..N \subseteq G
      BY <1>8, <2>1, UpTo
    <2> QED BY <2>2
  <1> QED BY <1>2, <1>9

-----------------------------------------------------------------------------
CallArtifacts(call) == ArtifactsOf(call.segment.mapping, call.response)

\* What the answers so far amount to, whatever the order of the loop's updates.
Parts(kind) == [i \in DOMAIN calls |-> Kept(query, calls[i].segment.mapping, calls[i].response, kind)]

UnmappedEvidence == {[range |-> r, kind |-> "Missing", scope |-> NoScope] : r \in plan.unmapped}

ResultFollowsCalls ==
  /\ quality = UnmappedEvidence \union UNION {CallEvidence(query, calls[i]) : i \in DOMAIN calls}
  /\ expected = UNION {CallScopes(query, calls[i]) : i \in DOMAIN calls}
  /\ sources = UNION {CallSources(query, calls[i]) : i \in DOMAIN calls}
  /\ artifacts = UNION {CallArtifacts(calls[i]) : i \in DOMAIN calls}
  /\ kept = [k \in Kinds \ {"mbo"} |-> Atomic!Joined(Parts(k))]
  /\ buffers = Atomic!Buffers(Atomic!Joined(Parts("mbo")))

PlanIsMade == \E answer \in CacheAnswers : plan = Planner!PlanFor(query, answer)

RefIInv ==
  /\ IngestIInv
  /\ phase = "idle" => plan = Planner!Failed("none")
  /\ phase \in {"fetching", "done"} =>
       /\ PlanIsMade
       /\ ResultFollowsCalls
       /\ \A i \in DOMAIN calls : ~Rejects(query, calls[i].segment.mapping, calls[i].response)

\* The events of a stream in a sequence.
InScope(events, s) == {e \in Elements(events) : ScopeOf(e) = s}

LEMMA BuffersAre ==
  \A events : Atomic!Buffers(events) =
    [s \in {ScopeOf(e) : e \in Elements(events)} |-> Select(events, InScope(events, s))]
PROOF BY SameSteps DEF Atomic!Buffers, InScope

LEMMA ElementsOfConcat ==
  ASSUME NEW T, NEW x \in Seq(T), NEW y \in Seq(T)
  PROVE  x \o y \in Seq(T) /\ Elements(x \o y) = Elements(x) \union Elements(y)
  <1> DEFINE N == Len(x)
             M == Len(y)
             xy == x \o y
  <1>1. /\ N \in Nat /\ M \in Nat /\ xy \in Seq(T)
        /\ DOMAIN xy = 1..(N + M) /\ DOMAIN x = 1..N /\ DOMAIN y = 1..M
        /\ \A n \in 1..N : xy[n] = x[n]
        /\ \A n \in 1..M : xy[N + n] = y[n]
    OBVIOUS
  <1> HIDE DEF N, M, xy
  <1>2. ASSUME NEW i \in 1..(N + M) PROVE xy[i] \in Elements(x) \union Elements(y)
    <2>1. CASE i \in 1..N
      BY <1>1, <2>1 DEF Elements
    <2>2. CASE i \notin 1..N
      <3>1. i - N \in 1..M /\ N + (i - N) = i
        BY <1>1, <2>2
      <3>2. xy[i] = y[i - N]
        BY <1>1, <3>1
      <3> QED BY <1>1, <3>1, <3>2 DEF Elements
    <2> QED BY <2>1, <2>2
  <1>3. ASSUME NEW i \in 1..N PROVE x[i] \in Elements(xy)
    <2>1. i \in 1..(N + M) /\ xy[i] = x[i]
      BY <1>1
    <2> QED BY <1>1, <2>1 DEF Elements
  <1>4. ASSUME NEW i \in 1..M PROVE y[i] \in Elements(xy)
    <2>1. N + i \in 1..(N + M) /\ xy[N + i] = y[i]
      BY <1>1
    <2> QED BY <1>1, <2>1 DEF Elements
  <1>5. Elements(xy) \subseteq Elements(x) \union Elements(y)
    <2>1. \A e \in Elements(xy) : \E i \in 1..(N + M) : e = xy[i]
      BY <1>1 DEF Elements
    <2> QED BY <1>2, <2>1
  <1>6. Elements(x) \subseteq Elements(xy) /\ Elements(y) \subseteq Elements(xy)
    <2>1. \A e \in Elements(x) : \E i \in 1..N : e = x[i]
      BY <1>1 DEF Elements
    <2>2. \A e \in Elements(y) : \E i \in 1..M : e = y[i]
      BY <1>1 DEF Elements
    <2> QED BY <1>3, <1>4, <2>1, <2>2
  <1> QED BY <1>1, <1>5, <1>6 DEF xy

\* Events that arrive later go to the ends of the buffers.
LEMMA BuffersMore ==
  ASSUME NEW x \in Seq(Item), NEW y \in Seq(Item), buffers = Atomic!Buffers(x)
  PROVE  AppendEvents(y) = Atomic!Buffers(x \o y)
  <1> DEFINE xy == x \o y
             scopes(z) == {ScopeOf(e) : e \in Elements(z)}
             old(s) == IF s \in DOMAIN buffers THEN buffers[s] ELSE <<>>
  <1>1. xy \in Seq(Item) /\ Elements(xy) = Elements(x) \union Elements(y)
    BY ElementsOfConcat
  <1>2. DOMAIN buffers = scopes(x) /\ \A s \in scopes(x) : buffers[s] = Select(x, InScope(x, s))
    BY BuffersAre
  <1>3. scopes(xy) = scopes(x) \union scopes(y)
    BY <1>1
  <1>4. ASSUME NEW s PROVE Select(xy, InScope(xy, s)) = old(s) \o Select(y, InScope(y, s))
    <2>1. Select(xy, InScope(xy, s)) = Select(x, InScope(xy, s)) \o Select(y, InScope(xy, s))
      BY SelectOfConcat
    <2>2. Select(y, InScope(xy, s)) = Select(y, InScope(y, s))
      <3>1. \A e \in Elements(y) : e \in InScope(xy, s) <=> e \in InScope(y, s)
        BY <1>1 DEF InScope
      <3> QED BY <3>1, SelectSame
    <2>3. Select(x, InScope(xy, s)) = Select(x, InScope(x, s))
      <3>1. \A e \in Elements(x) : e \in InScope(xy, s) <=> e \in InScope(x, s)
        BY <1>1 DEF InScope
      <3> QED BY <3>1, SelectSame
    <2>4. CASE s \in scopes(x)
      BY <1>2, <2>1, <2>2, <2>3, <2>4
    <2>5. CASE s \notin scopes(x)
      <3>1. \A e \in Elements(x) : e \notin InScope(x, s)
        BY <2>5 DEF InScope
      <3>2. Select(x, InScope(x, s)) = <<>>
        BY <3>1, SelectNothing
      <3> QED BY <1>2, <2>1, <2>2, <2>3, <2>5, <3>2
    <2> QED BY <2>4, <2>5
  <1>5. AppendEvents(y) = [s \in DOMAIN buffers \union scopes(y) |-> old(s) \o Select(y, InScope(y, s))]
    BY DEF AppendEvents, InScope
  <1>6. Atomic!Buffers(xy) = [s \in scopes(xy) |-> Select(xy, InScope(xy, s))]
    BY BuffersAre
  <1> HIDE DEF xy, scopes, old
  <1>7. AppendEvents(y) = Atomic!Buffers(xy)
    BY <1>2, <1>3, <1>4, <1>5, <1>6
  <1> QED BY <1>7 DEF xy

\* The answers that were collected, as sequences of items.
LEMMA PartsTyped ==
  ASSUME IngestIInv, NEW k
  PROVE  Parts(k) \in Seq(Seq(Item)) /\ Len(Parts(k)) = Len(calls)
  <1>1. Len(calls) \in Nat /\ DOMAIN calls = 1..Len(calls)
    BY DEF IngestIInv, TypeOK
  <1>2. \A i \in DOMAIN calls : Kept(query, calls[i].segment.mapping, calls[i].response, k) \in Seq(Item)
    BY CallFields, KeptFacts
  <1>3. Parts(k) \in [1..Len(calls) -> Seq(Item)]
    BY <1>1, <1>2 DEF Parts
  <1> QED BY <1>1, <1>3

-----------------------------------------------------------------------------
LEMMA InitRef == Init => RefIInv
PROOF BY InitIngest DEF Init, RefIInv

LEMMA BeginRef ==
  ASSUME RefIInv, NEW answer \in CacheAnswers, Begin(answer)
  PROVE  RefIInv'
  <1>1. IngestIInv' /\ IngestIInv
    BY BeginPreserves DEF RefIInv
  <1>2. CASE Fail
    BY <1>1, <1>2 DEF Fail, RefIInv
  <1>3. CASE ~Fail
    <2>1. /\ phase = "idle" /\ phase' = "fetching" /\ plan' = Planner!PlanFor(query, answer)
          /\ quality' = {[range |-> r, kind |-> "Missing", scope |-> NoScope] : r \in plan'.unmapped}
          /\ mappings' = mappings /\ query' = query /\ calls' = calls /\ expected' = expected
          /\ buffers' = buffers /\ kept' = kept /\ sources' = sources /\ artifacts' = artifacts
      BY <1>3 DEF Begin
    <2>2. /\ calls' = <<>> /\ expected' = {} /\ sources' = {} /\ artifacts' = {}
          /\ buffers' = <<>> /\ kept' = NothingKept
      BY <1>1, <2>1 DEF IngestIInv, Empty
    <2>3. PlanIsMade'
      <3>1. Planner!PlanFor(query, answer)' = Planner!PlanFor(query, answer)
        BY <2>1 DEF Planner!PlanFor, Planner!Resolve, Planner!PlanError, Planner!Planned
      <3> QED BY <2>1, <3>1 DEF PlanIsMade
    <2>4. ResultFollowsCalls'
      <3>1. DOMAIN calls' = {}
        BY <2>2
      <3>2. \A k : Parts(k)' = <<>>
        BY <3>1 DEF Parts
      <3>3. kept' = [k \in Kinds \ {"mbo"} |-> Atomic!Joined(Parts(k)')]
        BY <2>2, <3>2, JoinedNothing DEF NothingKept
      <3>4. buffers' = Atomic!Buffers(Atomic!Joined(Parts("mbo")'))
        <4>1. {ScopeOf(e) : e \in Elements(<<>>)} = {}
          BY DEF Elements
        <4>2. Atomic!Buffers(<<>>) = [s \in {} |-> Select(<<>>, InScope(<<>>, s))]
          BY <4>1, BuffersAre
        <4>3. [s \in {} |-> Select(<<>>, InScope(<<>>, s))] = <<>>
          OBVIOUS
        <4> QED BY <2>2, <3>2, <4>2, <4>3, JoinedNothing
      <3>5. quality' = UnmappedEvidence'
        BY <2>1 DEF UnmappedEvidence
      <3> QED BY <2>2, <3>1, <3>3, <3>4, <3>5 DEF ResultFollowsCalls
    <2>5. DOMAIN calls' = {}
      BY <2>2
    <2> QED BY <1>1, <2>1, <2>3, <2>4, <2>5 DEF RefIInv
  <1> QED BY <1>2, <1>3

LEMMA FetchRef ==
  ASSUME RefIInv, NEW segment \in todo, NEW response \in Responses,
         FetchAccepted(segment, response)
  PROVE  RefIInv'
  <1> DEFINE m == segment.mapping
             call == [segment |-> segment, response |-> response]
             new(k) == Kept(query, m, response, k)
  <1>1. /\ phase = "fetching" /\ phase' = phase /\ ~Rejects(query, m, response)
        /\ calls' = Append(calls, call)
        /\ mappings' = mappings /\ query' = query /\ plan' = plan
    BY DEF FetchAccepted
  <1>2. /\ quality' = quality \union EvidenceOf(query, m, response)
        /\ expected' = expected \union ExpectedScopes(query, m, response)
        /\ buffers' = AppendEvents(new("mbo"))
        /\ kept' = [k \in DOMAIN kept |-> kept[k] \o new(k)]
        /\ sources' = sources \union SourcesOf(query, m, response)
        /\ artifacts' = artifacts \union ArtifactsOf(m, response)
    BY DEF FetchAccepted
  <1>3. /\ IngestIInv /\ IngestIInv' /\ PlanIsMade /\ ResultFollowsCalls
        /\ \A i \in DOMAIN calls : ~Rejects(query, calls[i].segment.mapping, calls[i].response)
    BY <1>1, FetchPreserves DEF RefIInv
  <1> DEFINE n == Len(calls) + 1
  <1>4. /\ DOMAIN calls = 1..Len(calls) /\ DOMAIN calls' = DOMAIN calls \union {n}
        /\ Len(calls) \in Nat /\ n \notin DOMAIN calls /\ calls'[n] = call
        /\ \A i \in DOMAIN calls : calls'[i] = calls[i]
    <2>1. calls \in Seq([segment : plan.segments, response : Responses])
      BY <1>3 DEF IngestIInv, TypeOK
    <2> HIDE DEF call
    <2> QED BY <1>1, <2>1
  <1>5. call.segment.mapping = m /\ call.response = response
    OBVIOUS
  <1> HIDE DEF n, call, m
  <1>6. ASSUME NEW k
        PROVE  Atomic!Joined(Parts(k)') = Atomic!Joined(Parts(k)) \o new(k) /\ Atomic!Joined(Parts(k)) \in Seq(Item)
    <2> DEFINE old == Parts(k)
               more == Parts(k)'
               x == new(k)
    <2>1. old \in Seq(Seq(Item)) /\ Len(old) = Len(calls) /\ x \in Seq(Item)
      BY <1>3, PartsTyped, KeptFacts
    <2>2. more \in Seq(Seq(Item)) /\ IsExtended(more, old, x)
      <3>1. \A i \in DOMAIN calls : more[i] = old[i]
        BY <1>1, <1>4 DEF Parts
      <3>2. more[n] = x /\ DOMAIN more = DOMAIN calls \union {n} /\ more = [i \in DOMAIN more |-> more[i]]
        BY <1>1, <1>4, <1>5 DEF Parts
      <3> HIDE DEF more, old, x
      <3>3. DOMAIN calls \union {n} = 1..n /\ \A i \in 1..n : i = n \/ i \in 1..Len(old)
        BY <1>4, <2>1 DEF n
      <3>4. \A i \in 1..n : more[i] \in Seq(Item)
        BY <1>4, <2>1, <3>1, <3>2, <3>3
      <3>5. more \in [1..n -> Seq(Item)] /\ n \in Nat
        BY <1>4, <3>2, <3>3, <3>4 DEF n
      <3>6. more \in Seq(Seq(Item)) /\ Len(more) = n
        BY <3>5
      <3> QED BY <1>4, <2>1, <3>1, <3>2, <3>6 DEF IsExtended, n
    <2> HIDE DEF old, more, x
    <2>3. Atomic!Joined(more) = Atomic!Joined(old) \o x /\ Atomic!Joined(old) \in Seq(Item)
      BY <2>1, <2>2, JoinedMore
    <2> QED BY <2>3 DEF old, more, x
  <1>7. kept' = [k \in Kinds \ {"mbo"} |-> Atomic!Joined(Parts(k)')]
    <2>1. kept = [k \in Kinds \ {"mbo"} |-> Atomic!Joined(Parts(k))]
      BY <1>3 DEF ResultFollowsCalls
    <2> HIDE DEF new
    <2> QED BY <1>2, <1>6, <2>1
  <1>8. buffers' = Atomic!Buffers(Atomic!Joined(Parts("mbo")'))
    <2>1. buffers = Atomic!Buffers(Atomic!Joined(Parts("mbo"))) /\ Atomic!Joined(Parts("mbo")) \in Seq(Item)
      BY <1>3, <1>6 DEF ResultFollowsCalls
    <2>2. new("mbo") \in Seq(Item)
      BY KeptFacts
    <2> HIDE DEF new
    <2>3. AppendEvents(new("mbo")) = Atomic!Buffers(Atomic!Joined(Parts("mbo")) \o new("mbo"))
      BY <2>1, <2>2, BuffersMore
    <2> QED BY <1>2, <1>6, <2>3
  <1>9. /\ CallEvidence(query, call) = EvidenceOf(query, m, response)
        /\ CallScopes(query, call) = ExpectedScopes(query, m, response)
        /\ CallSources(query, call) = SourcesOf(query, m, response)
        /\ CallArtifacts(call) = ArtifactsOf(m, response)
    <2>1. call.segment = segment /\ call.response = response
      BY DEF call
    <2> QED BY <2>1 DEF CallEvidence, CallScopes, CallSources, CallArtifacts, m
  <1>10. ResultFollowsCalls'
    <2>1. quality' = UnmappedEvidence \union UNION {CallEvidence(query, calls'[i]) : i \in DOMAIN calls'}
      BY <1>2, <1>3, <1>4, <1>9 DEF ResultFollowsCalls
    <2>2. expected' = UNION {CallScopes(query, calls'[i]) : i \in DOMAIN calls'}
      BY <1>2, <1>3, <1>4, <1>9 DEF ResultFollowsCalls
    <2>3. sources' = UNION {CallSources(query, calls'[i]) : i \in DOMAIN calls'}
      BY <1>2, <1>3, <1>4, <1>9 DEF ResultFollowsCalls
    <2>4. artifacts' = UNION {CallArtifacts(calls'[i]) : i \in DOMAIN calls'}
      BY <1>2, <1>3, <1>4, <1>9 DEF ResultFollowsCalls
    <2>5. UnmappedEvidence' = UnmappedEvidence
      BY <1>1 DEF UnmappedEvidence
    <2> QED BY <1>1, <1>7, <1>8, <2>1, <2>2, <2>3, <2>4, <2>5 DEF ResultFollowsCalls
  <1>11. PlanIsMade'
    <2>1. \A answer : Planner!PlanFor(query, answer)' = Planner!PlanFor(query, answer)
      BY <1>1 DEF Planner!PlanFor, Planner!Resolve, Planner!PlanError, Planner!Planned
    <2> QED BY <1>1, <1>3, <2>1 DEF PlanIsMade
  <1>12. ASSUME NEW i \in DOMAIN calls'
         PROVE  ~Rejects(query', calls'[i].segment.mapping, calls'[i].response)
    <2>1. CASE i = n
      BY <1>1, <1>4, <1>5, <2>1
    <2>2. CASE i # n
      BY <1>1, <1>3, <1>4, <2>2
    <2> QED BY <2>1, <2>2
  <1> QED BY <1>1, <1>3, <1>10, <1>11, <1>12 DEF RefIInv

-----------------------------------------------------------------------------
\* The answers, by segment, as the abstract ingest() has them.
AnswersBySegment == [s \in DOMAIN AnswerTo |-> calls[AnswerTo[s]].response]

LEMMA SameCardinality == \A S : Atomic!Cardinality(S) = Cardinality(S)
PROOF BY DEF Atomic!Cardinality, Cardinality

\* When every segment was fetched the calls are the plan in its order.
LEMMA CallsAreThePlan ==
  ASSUME IngestIInv, phase = "done" 
  PROVE  /\ DOMAIN Atomic!InPlanOrder(plan.segments) = DOMAIN calls
         /\ \A i \in DOMAIN calls : Atomic!InPlanOrder(plan.segments)[i] = calls[i].segment
         /\ plan.segments = {calls[i].segment : i \in DOMAIN calls}
         /\ \A i \in DOMAIN calls : AnswersBySegment[calls[i].segment] = calls[i].response
         /\ DOMAIN AnswersBySegment = plan.segments
  <1> DEFINE N == Len(calls)
             S == plan.segments
             f == [i \in 1..N |-> calls[i].segment]
             order == Atomic!InPlanOrder(S)
  <1>1. N \in Nat /\ DOMAIN calls = 1..N /\ CallsFollowThePlan
    BY DEF IngestIInv, TypeOK
  <1>2. S = {calls[i].segment : i \in 1..N}
    BY <1>1 DEF CallsFollowThePlan
  <1>3. \A s \in S : s.mapping \in Mapping
    BY DEF IngestIInv, PlanFits
  <1>4. f \in [1..N -> S] /\ Increasing(f, N) /\ \A s \in S : \E i \in 1..N : f[i] = s
    BY <1>1, <1>2, SameSteps DEF CallsFollowThePlan, Increasing
  <1>5. \A i \in 1..N : f[i] = calls[i].segment
    OBVIOUS
  <1> HIDE DEF f, N, S
  <1>6. Cardinality(S) = N
    BY <1>1, <1>3, <1>4, OneOrder
  <1>7. order = f
    <2> DEFINE Ordered(g) == \A i, j \in DOMAIN g : i < j => MappingLess(g[i].mapping, g[j].mapping)
    <2>1. order = CHOOSE g \in [1..N -> S] : Ordered(g)
      BY <1>6, SameSteps, SameCardinality DEF Atomic!InPlanOrder
    <2>2. \A g \in [1..N -> S] : Ordered(g) <=> Increasing(g, N)
      BY DEF Increasing
    <2> HIDE DEF Ordered
    <2>3. order \in [1..N -> S] /\ Increasing(order, N)
      BY <1>4, <2>1, <2>2
    <2> HIDE DEF order
    <2> QED BY <1>1, <1>3, <1>4, <2>3, OneOrder
  <1>8. DOMAIN order = 1..N /\ \A i \in 1..N : order[i] = calls[i].segment
    BY <1>4, <1>5, <1>7
  <1>9. \A i \in 1..N, j \in 1..N : calls[i].segment = calls[j].segment => i = j
    <2>1. \A i \in 1..N, j \in 1..N : f[i] = f[j] => i = j
      BY <1>1, <1>3, <1>4, IncreasingIsInjective
    <2> QED BY <1>5, <2>1
  <1>10. DOMAIN AnswersBySegment = S
    BY <1>1, <1>2 DEF AnswersBySegment, AnswerTo
  <1>11. ASSUME NEW i \in 1..N
         PROVE  AnswersBySegment[calls[i].segment] = calls[i].response
    <2> DEFINE s == calls[i].segment
               j == CHOOSE k \in DOMAIN calls : calls[k].segment = s
    <2>1. s \in DOMAIN AnswerTo /\ AnswerTo[s] = j
      BY <1>1 DEF AnswerTo
    <2>2. j \in 1..N /\ calls[j].segment = s
      BY <1>1
    <2>3. j = i
      BY <1>9, <2>2
    <2> QED BY <2>1, <2>3 DEF AnswersBySegment
  <1> QED BY <1>1, <1>2, <1>8, <1>10, <1>11 DEF S

\* What is returned is what the abstract ingest() makes of the answers.
LEMMA ReturnedIsAbstract ==
  ASSUME RefIInv, phase = "done"
  PROVE  /\ AnswersBySegment \in [plan.segments -> Responses]
         /\ \A s \in plan.segments : ~Atomic!Rejects(query, s.mapping, AnswersBySegment[s])
         /\ result = Atomic!ResultOf(plan, AnswersBySegment)
  <1> DEFINE S == plan.segments
             by == AnswersBySegment
             order == Atomic!InPlanOrder(S)
  <1>1. IngestIInv /\ ResultFollowsCalls
        /\ \A i \in DOMAIN calls : ~Rejects(query, calls[i].segment.mapping, calls[i].response)
    BY DEF RefIInv
  <1>2. /\ DOMAIN order = DOMAIN calls /\ \A i \in DOMAIN calls : order[i] = calls[i].segment
        /\ S = {calls[i].segment : i \in DOMAIN calls}
        /\ \A i \in DOMAIN calls : by[calls[i].segment] = calls[i].response
        /\ DOMAIN by = S
    BY <1>1, CallsAreThePlan
  <1>3. by = [s \in DOMAIN by |-> by[s]]
    BY DEF AnswersBySegment
  <1> HIDE DEF S, by, order
  <1>4. by \in [S -> Responses]
    <2>1. \A i \in DOMAIN calls : calls[i].response \in Responses
      BY <1>1, CallFields
    <2> QED BY <1>2, <1>3, <2>1
  <1>5. \A s \in S : ~Atomic!Rejects(query, s.mapping, by[s])
    BY <1>1, <1>2, SameAnswers
  <1>6. \A k : Atomic!Taken(plan, by, k) = Atomic!Joined(Parts(k))
    <2> SUFFICES ASSUME NEW k PROVE Atomic!Taken(plan, by, k) = Atomic!Joined(Parts(k))
      OBVIOUS
    <2>1. Atomic!Taken(plan, by, k) =
            Atomic!Joined([i \in DOMAIN order |-> Kept(query, order[i].mapping, by[order[i]], k)])
      BY SameSteps, SameAnswers DEF Atomic!Taken, order, S
    <2>2. [i \in DOMAIN order |-> Kept(query, order[i].mapping, by[order[i]], k)] = Parts(k)
      BY <1>2 DEF Parts
    <2> QED BY <2>1, <2>2
  <1>7. Atomic!Evidence(plan, by) = quality
    <2>1. UNION {EvidenceOf(query, s.mapping, by[s]) : s \in S} = UNION {CallEvidence(query, calls[i]) : i \in DOMAIN calls}
      BY <1>2 DEF CallEvidence
    <2>2. Atomic!Evidence(plan, by) = UnmappedEvidence \union UNION {EvidenceOf(query, s.mapping, by[s]) : s \in S}
      BY SameSteps, SameAnswers DEF Atomic!Evidence, UnmappedEvidence, S
    <2> QED BY <1>1, <2>1, <2>2 DEF ResultFollowsCalls
  <1>8. UNION {Atomic!ExpectedScopes(query, s.mapping, by[s]) : s \in S} = expected
    <2>1. UNION {ExpectedScopes(query, s.mapping, by[s]) : s \in S} = UNION {CallScopes(query, calls[i]) : i \in DOMAIN calls}
      BY <1>2 DEF CallScopes
    <2> QED BY <1>1, <2>1, SameAnswers DEF ResultFollowsCalls
  <1>9. UNION {Atomic!SourcesOf(query, s.mapping, by[s]) : s \in S} = sources
    <2>1. UNION {SourcesOf(query, s.mapping, by[s]) : s \in S} = UNION {CallSources(query, calls[i]) : i \in DOMAIN calls}
      BY <1>2 DEF CallSources
    <2> QED BY <1>1, <2>1, SameAnswers DEF ResultFollowsCalls
  <1>10. UNION {Atomic!ArtifactsOf(s.mapping, by[s]) : s \in S} = artifacts
    <2>1. UNION {ArtifactsOf(s.mapping, by[s]) : s \in S} = UNION {CallArtifacts(calls[i]) : i \in DOMAIN calls}
      BY <1>2 DEF CallArtifacts
    <2> QED BY <1>1, <2>1, SameAnswers DEF ResultFollowsCalls
  <1>11. Atomic!Outcome(Atomic!StateSegments(plan, by)) = outcome
    <2>1. Atomic!StateSegments(plan, by) = Reduced
      BY <1>7, <1>8, SameReduction, SamePlans DEF Atomic!StateSegments, Reduced, S
    <2>2. /\ outcome = [segments   |-> Reduced,
                        state      |-> Quality!Summarize(Reduced),
                        coverage   |-> {s \in Reduced : Quality!IsUsable(s.state)},
                        unresolved |-> Reduced \ {s \in Reduced : Quality!IsUsable(s.state)}]
      BY <1>1 DEF IngestIInv, OutcomeIsReduced
    <2>3. Reduced \ {s \in Reduced : Quality!IsUsable(s.state)} = {s \in Reduced : ~Quality!IsUsable(s.state)}
      OBVIOUS
    <2> QED BY <2>1, <2>2, <2>3, SameReduction DEF Atomic!Outcome
  <1>12. Atomic!ResultOf(plan, by) = << buffers, kept, quality, sources, artifacts, outcome >>
    <2>1. buffers = Atomic!Buffers(Atomic!Taken(plan, by, "mbo"))
      BY <1>1, <1>6 DEF ResultFollowsCalls
    <2>2. kept = [k \in Atomic!Kinds \ {"mbo"} |-> Atomic!Taken(plan, by, k)]
      BY <1>1, <1>6, SameSteps DEF ResultFollowsCalls
    <2> QED BY <1>7, <1>9, <1>10, <1>11, <2>1, <2>2 DEF Atomic!ResultOf, S
  <1> QED BY <1>4, <1>5, <1>12 DEF result, by, S

-----------------------------------------------------------------------------
DoneIsAbstract ==
  phase = "done" =>
    /\ AnswersBySegment \in [plan.segments -> Responses]
    /\ \A s \in plan.segments : ~Atomic!Rejects(query, s.mapping, AnswersBySegment[s])
    /\ result = Atomic!ResultOf(plan, AnswersBySegment)

LEMMA RefFollows == RefIInv => DoneIsAbstract
PROOF BY ReturnedIsAbstract DEF DoneIsAbstract

LEMMA RefStep ==
  ASSUME RefIInv, [Next]_vars
  PROVE  RefIInv'
  <1>0. IngestIInv /\ IngestIInv'
    BY StepPreserves DEF RefIInv
  <1>1. ASSUME NEW answer \in CacheAnswers, Begin(answer) PROVE RefIInv'
    BY <1>1, BeginRef
  <1>2. CASE \E segment \in todo : FetchThrows(segment)
    BY <1>0, <1>2 DEF FetchThrows, Fail, RefIInv
  <1>3. CASE \E segment \in todo, response \in Responses : FetchRejected(segment, response)
    BY <1>0, <1>3 DEF FetchRejected, Fail, RefIInv
  <1>4. ASSUME NEW segment \in todo, NEW response \in Responses, FetchAccepted(segment, response)
        PROVE  RefIInv'
    BY <1>4, FetchRef
  <1>5. CASE Finish \/ UNCHANGED vars
    <2>1. /\ mappings' = mappings /\ query' = query /\ plan' = plan
          /\ calls' = calls /\ expected' = expected /\ buffers' = buffers
          /\ kept' = kept /\ quality' = quality /\ sources' = sources /\ artifacts' = artifacts
          /\ phase' = phase \/ (phase = "fetching" /\ phase' = "done")
      BY <1>5 DEF Finish, vars, locals
    <2>2. \A k : Parts(k)' = Parts(k)
      BY <2>1 DEF Parts
    <2>3. ResultFollowsCalls => ResultFollowsCalls'
      BY <2>1, <2>2 DEF ResultFollowsCalls, UnmappedEvidence
    <2>4. PlanIsMade => PlanIsMade'
      <3>1. \A answer : Planner!PlanFor(query, answer)' = Planner!PlanFor(query, answer)
        BY <2>1 DEF Planner!PlanFor, Planner!Resolve, Planner!PlanError, Planner!Planned
      <3> QED BY <2>1, <3>1 DEF PlanIsMade
    <2> QED BY <1>0, <2>1, <2>3, <2>4 DEF RefIInv
  <1> QED BY <1>1, <1>2, <1>3, <1>4, <1>5 DEF Next

LEMMA RefInductive == Spec => []RefIInv
  <1>1. RefIInv /\ [Next]_vars => RefIInv'
    BY RefStep
  <1> QED BY <1>1, InitRef, PTL DEF Spec

LEMMA InitRefines == Init => Atomic!Init
PROOF BY SamePlans DEF Init, Atomic!Init, Visible, Returned, Atomic!Nothing

\* An exception is Throw of the abstract ingest().
LEMMA FailRefines ==
  ASSUME phase \in {"idle", "fetching"}, phase' = "failed", PlanIsMade', UNCHANGED <<mappings, query>>
  PROVE  Atomic!Throw
  <1>1. \E answer \in CacheAnswers : plan' = Planner!PlanFor(query, answer)
    <2>1. \A answer : Planner!PlanFor(query, answer)' = Planner!PlanFor(query, answer)
      BY DEF Planner!PlanFor, Planner!Resolve, Planner!PlanError, Planner!Planned
    <2> QED BY <2>1 DEF PlanIsMade
  <1>2. /\ Visible' /\ ~Visible /\ ~Returned /\ ~Returned' /\ phase' = "failed" /\ phase # "failed"
    BY DEF Visible, Returned
  <1> QED BY <1>1, <1>2, SamePlans DEF Atomic!Throw

LEMMA FinishRefines ==
  ASSUME RefIInv, RefIInv', Finish
  PROVE  Atomic!Return
  <1>1. /\ phase = "fetching" /\ phase' = "done"
        /\ mappings' = mappings /\ query' = query /\ plan' = plan
    BY DEF Finish
  <1>2. \E answer \in CacheAnswers : plan' = Planner!PlanFor(query, answer)
    BY <1>1 DEF RefIInv, PlanIsMade
  <1>3. plan'.outcome = "planned"
    BY <1>1 DEF RefIInv, IngestIInv
  <1>4. DoneIsAbstract'
    BY RefFollows, PTL
  <1>5. Atomic!ResultOf(plan, AnswersBySegment)' = Atomic!ResultOf(plan', AnswersBySegment')
    BY <1>1 DEF Atomic!ResultOf, Atomic!Taken, Atomic!Evidence, Atomic!StateSegments
  <1>6. /\ AnswersBySegment' \in [plan'.segments -> Responses]
        /\ \A s \in plan'.segments : ~Atomic!Rejects(query, s.mapping, AnswersBySegment'[s])
        /\ result' = Atomic!ResultOf(plan', AnswersBySegment')
    BY <1>1, <1>4, <1>5 DEF DoneIsAbstract
  <1>7. Visible' /\ ~Visible /\ Returned' /\ ~Returned /\ phase # "failed"
    BY <1>1 DEF Visible, Returned
  <1> QED BY <1>1, <1>2, <1>3, <1>6, <1>7, SamePlans DEF Atomic!Return, AnswersBySegment

LEMMA StepRefines ==
  ASSUME RefIInv, RefIInv', [Next]_vars
  PROVE  [Atomic!Next]_(Atomic!vars)
  <1>1. ASSUME NEW answer \in CacheAnswers, Begin(answer) PROVE [Atomic!Next]_(Atomic!vars)
    <2>1. CASE Fail
      <3>1. PlanIsMade'
        <4>1. Planner!PlanFor(query, answer)' = Planner!PlanFor(query, answer)
          BY <2>1 DEF Fail, Planner!PlanFor, Planner!Resolve, Planner!PlanError, Planner!Planned
        <4> QED BY <1>1, <4>1 DEF Begin, PlanIsMade
      <3> QED BY <1>1, <2>1, <3>1, FailRefines DEF Begin, Fail, Atomic!Next
    <2>2. CASE ~Fail
      <3>1. /\ phase = "idle" /\ phase' = "fetching" /\ mappings' = mappings /\ query' = query
        BY <1>1, <2>2 DEF Begin
      <3> QED BY <3>1 DEF Atomic!vars, Visible, Returned
    <2> QED BY <2>1, <2>2
  <1>2. ASSUME NEW segment \in todo, FetchThrows(segment) \/ \E r \in Responses : FetchRejected(segment, r)
        PROVE  [Atomic!Next]_(Atomic!vars)
    <2>1. phase = "fetching" /\ phase' = "failed" /\ mappings' = mappings /\ query' = query /\ plan' = plan
      BY <1>2 DEF FetchThrows, FetchRejected, Fail
    <2>2. PlanIsMade'
      <3>1. \A answer : Planner!PlanFor(query, answer)' = Planner!PlanFor(query, answer)
        BY <2>1 DEF Planner!PlanFor, Planner!Resolve, Planner!PlanError, Planner!Planned
      <3> QED BY <2>1, <3>1 DEF PlanIsMade, RefIInv
    <2> QED BY <2>1, <2>2, FailRefines DEF Atomic!Next
  <1>3. ASSUME NEW segment \in todo, NEW response \in Responses, FetchAccepted(segment, response)
        PROVE  [Atomic!Next]_(Atomic!vars)
    <2>1. phase = "fetching" /\ phase' = "fetching" /\ mappings' = mappings /\ query' = query
      BY <1>3 DEF FetchAccepted
    <2> QED BY <2>1 DEF Atomic!vars, Visible, Returned
  <1>4. CASE Finish
    BY <1>4, FinishRefines DEF Atomic!Next
  <1>5. CASE UNCHANGED vars
    <2>1. /\ phase' = phase /\ mappings' = mappings /\ query' = query /\ plan' = plan /\ calls' = calls
          /\ result' = result
      BY <1>5 DEF vars, locals, result
    <2>2. AnswersBySegment' = AnswersBySegment
      BY <2>1 DEF AnswersBySegment, AnswerTo
    <2> QED BY <2>1, <2>2 DEF Atomic!vars, Visible, Returned, AnswersBySegment
  <1> QED BY <1>1, <1>2, <1>3, <1>4, <1>5 DEF Next

\* ingest() is atomic for its caller: it implements the ingest() that throws or
\* returns in one step what the plan and the answers determine.
THEOREM IngestImplementsAtomic == Spec => IngestIsAtomic
  <1>1. RefIInv /\ RefIInv' /\ [Next]_vars => [Atomic!Next]_(Atomic!vars)
    BY StepRefines
  <1> QED BY <1>1, InitRefines, RefInductive, PTL DEF Spec, IngestIsAtomic, Atomic!Spec
=============================================================================
