------------------------- MODULE QueryPlannerProofs -----------------------
(***************************************************************************)
(* The registry keeps the mappings of a scope disjoint, and what follows   *)
(* for every plan made from it, whatever the identifiers, the queries and  *)
(* the number of mappings; then the cost gate, a program around the        *)
(* planner.                                                                *)
(***************************************************************************)
EXTENDS CostGate, TimeRangeProofs

USE DEF Timestamp

\* resolve(), unfolded: each result is a mapping that answers the query, with
\* its range clipped.
LEMMA ResolveElements ==
  ASSUME NEW i, NEW p, NEW v, NEW range, NEW r
  PROVE  r \in Resolve(i, p, v, range) <=>
           \E m \in mappings :
             /\ m.instrument = i /\ m.provider = p /\ (v # None => m.venue = v)
             /\ \E c \in Intersection(m.range, range) : r = [m EXCEPT !.range = c]
PROOF BY DEF Resolve

\* A resolved mapping is a mapping again, inside the range and inside the
\* registered mapping it was clipped from, whose other fields it keeps.
LEMMA ResolveClips ==
  ASSUME mappings \subseteq Mapping, NEW i, NEW p, NEW v,
         NEW range \in TimeRange, NEW r \in Resolve(i, p, v, range)
  PROVE  /\ r \in Mapping /\ r.instrument = i /\ r.provider = p
         /\ v # None => r.venue = v
         /\ range.start <= r.range.start /\ r.range.end <= range.end
         /\ \E m \in mappings :
              /\ r = [m EXCEPT !.range = r.range]
              /\ r.venue = m.venue /\ r.source = m.source
              /\ m.instrument = i /\ m.provider = p
              /\ m.range.start <= r.range.start /\ r.range.end <= m.range.end
  <1>1. PICK m \in mappings :
          /\ m.instrument = i /\ m.provider = p /\ (v # None => m.venue = v)
          /\ \E c \in Intersection(m.range, range) : r = [m EXCEPT !.range = c]
    BY ResolveElements
  <1>2. PICK c \in Intersection(m.range, range) : r = [m EXCEPT !.range = c]
    BY <1>1
  <1>3. m \in Mapping /\ m.range \in TimeRange
    BY DEF Mapping
  <1>4. /\ c \in TimeRange
        /\ m.range.start <= c.start /\ c.end <= m.range.end
        /\ range.start <= c.start /\ c.end <= range.end
    BY <1>2, <1>3, IntersectionShares
  <1>5. /\ r.range = c /\ r.instrument = m.instrument /\ r.provider = m.provider
        /\ r.venue = m.venue /\ r.source = m.source /\ r \in Mapping
    BY <1>2, <1>3, <1>4 DEF Mapping
  <1> QED BY <1>1, <1>2, <1>4, <1>5

\* Resolved mappings of one scope are as disjoint as the registered ones.
LEMMA ResolvedDisjoint ==
  ASSUME mappings \subseteq Mapping, SameScopeDisjoint,
         NEW i, NEW p, NEW v, NEW range \in TimeRange,
         NEW r \in Resolve(i, p, v, range), NEW s \in Resolve(i, p, v, range),
         r # s, r.venue = s.venue, r.source = s.source
  PROVE  ~Overlaps(r.range, s.range)
  <1>1. PICK m \in mappings :
          /\ m.instrument = i /\ m.provider = p
          /\ \E c \in Intersection(m.range, range) : r = [m EXCEPT !.range = c]
    BY ResolveElements
  <1>2. PICK n \in mappings :
          /\ n.instrument = i /\ n.provider = p
          /\ \E c \in Intersection(n.range, range) : s = [n EXCEPT !.range = c]
    BY ResolveElements
  <1>3. PICK c \in Intersection(m.range, range) : r = [m EXCEPT !.range = c]
    BY <1>1
  <1>4. PICK d \in Intersection(n.range, range) : s = [n EXCEPT !.range = d]
    BY <1>2
  <1>5. m \in Mapping /\ n \in Mapping /\ m.range \in TimeRange /\ n.range \in TimeRange
    BY DEF Mapping
  <1>6. /\ c \in TimeRange /\ d \in TimeRange
        /\ m.range.start <= c.start /\ c.end <= m.range.end
        /\ n.range.start <= d.start /\ d.end <= n.range.end
    BY <1>3, <1>4, <1>5, IntersectionShares
  <1>7. m = n => c = d
    BY <1>3, <1>4 DEF Intersection
  <1>8. m # n
    BY <1>3, <1>4, <1>7
  <1>9. /\ r.range = c /\ s.range = d
        /\ m.venue = n.venue /\ m.source = n.source
    BY <1>3, <1>4, <1>5 DEF Mapping
  <1>10. ~Overlaps(m.range, n.range)
    BY <1>1, <1>2, <1>8, <1>9 DEF SameScopeDisjoint, SameScope
  <1> QED BY <1>5, <1>6, <1>9, <1>10, RangeEnds DEF Overlaps

-----------------------------------------------------------------------------
\* The queries of a run are market-data queries.
LEMMA QueryFacts ==
  ASSUME NEW q \in Queries
  PROVE  /\ q.event # {} => EventRange(q) \in TimeRange
         /\ \A r \in q.receive : r \in TimeRange
         /\ q.margin \in TimeMargin
  <1>1. q \in Query
    BY PlannerAssumption
  <1>2. q.event \subseteq TimeRange /\ q.receive \subseteq TimeRange /\ q.margin \in TimeMargin
    BY <1>1 DEF Query
  <1> QED BY <1>2 DEF EventRange

\* A fetch range that is resolved without an exception is a time range, and a
\* derived one is the event range widened by the margin.
LEMMA FetchRangeFacts ==
  ASSUME NEW q \in Queries, NEW r \in TimeRange, FetchRangeError(q, r) = "none"
  PROVE  /\ FetchRange(q, r) \in TimeRange
         /\ q.receive = {} => /\ FetchRange(q, r).start = r.start - q.margin.before
                              /\ FetchRange(q, r).end = r.end + q.margin.after
  <1>1. CASE q.receive # {}
    BY <1>1, QueryFacts DEF FetchRange
  <1>2. CASE q.receive = {}
    <2>1. CanExpand(r, q.margin) /\ FetchRange(q, r) = Expand(r, q.margin)
      BY <1>2 DEF FetchRangeError, FetchRange
    <2>2. /\ q.margin.before \in Int /\ q.margin.after \in Int
          /\ q.margin.before >= 0 /\ q.margin.after >= 0
      BY QueryFacts, TimeBounds DEF TimeMargin
    <2>3. /\ r.start - q.margin.before \in Timestamp
          /\ r.end + q.margin.after \in Timestamp
          /\ r.start - q.margin.before < r.end + q.margin.after
      BY <2>1, <2>2, RangeEnds, TimeBounds DEF CanExpand
    <2> QED BY <2>1, <2>3, MakeRange DEF Expand
  <1> QED BY <1>1, <1>2

\* The registry starts disjoint and the plan empty.
LEMMA InitPlanner == Init => PlannerInv
PROOF BY DEF Init, PlannerInv, TypeOK, SameScopeDisjoint, NoOverlapError, PlanGrounded,
             Failed, Outcome

\* Adding a mapping keeps the scopes disjoint and every planned segment resolved.
LEMMA AddPreserves ==
  ASSUME PlannerInv, AddMapping
  PROVE  PlannerInv'
  <1>1. PICK mapping \in Mapping : Add(mapping)
    BY DEF AddMapping
  <1>2. /\ mappings' = mappings \union {mapping} /\ mappings \subseteq Mapping
        /\ query' = query /\ plan' = plan
    BY <1>1 DEF Add, AddMapping, PlannerInv, TypeOK
  <1>3. TypeOK'
    BY <1>2 DEF PlannerInv, TypeOK
  <1>4. SameScopeDisjoint'
    <2> SUFFICES ASSUME NEW m \in mappings', NEW n \in mappings', m # n, SameScope(m, n)
                 PROVE  ~Overlaps(m.range, n.range)
      BY DEF SameScopeDisjoint
    <2>1. CASE m \in mappings /\ n \in mappings
      BY <2>1 DEF PlannerInv, SameScopeDisjoint
    <2>2. CASE m \in mappings /\ n = mapping
      BY <1>1, <2>2 DEF Add
    <2>3. CASE m = mapping /\ n \in mappings
      BY <1>1, <2>3 DEF Add, SameScope, Overlaps
    <2> QED BY <1>2, <2>1, <2>2, <2>3
  <1>5. NoOverlapError'
    BY <1>2 DEF PlannerInv, NoOverlapError
  <1>6. \A i, p, v, range : Resolve(i, p, v, range) \subseteq Resolve(i, p, v, range)'
    BY <1>2 DEF Resolve
  <1>7. PlanGrounded'
    BY <1>2, <1>6 DEF PlannerInv, PlanGrounded, MappedRanges
  <1> QED BY <1>3, <1>4, <1>5, <1>7 DEF PlannerInv

\* A plan that succeeds consists of what its query resolves to.
LEMMA PlannedOutcome ==
  ASSUME PlannerInv, NEW q \in Queries, NEW answer \in CacheAnswers, Plan(q, answer),
         plan'.outcome = "planned"
  PROVE  LET resolved == Resolve(q.instrument, ProviderName, q.venue, EventRange(q))
         IN  /\ q.event # {}
             /\ plan' = Planned(q, resolved)
             /\ \A m \in resolved : FetchRangeError(q, m.range) = "none"
  <1> DEFINE resolved == Resolve(q.instrument, ProviderName, q.venue, EventRange(q))
  <1>1. q.event # {}
    BY DEF Plan, PlanFor, PlanError, Failed
  <1>2. PlanError(q, answer, resolved) = "none" /\ plan' = Planned(q, resolved)
    BY <1>1 DEF Plan, PlanFor, Failed, PlanError, FetchRangeError
  <1>3. \A m \in resolved : FetchRangeError(q, m.range) = "none"
    BY <1>1, <1>2 DEF PlanError
  <1> QED BY <1>1, <1>2, <1>3

\* Planning is grounded in the registry and never meets an overlap.
LEMMA PlanPreserves ==
  ASSUME PlannerInv, NEW q \in Queries, NEW answer \in CacheAnswers, Plan(q, answer)
  PROVE  PlannerInv'
  <1> DEFINE resolved == Resolve(q.instrument, ProviderName, q.venue, EventRange(q))
  <1>1. mappings' = mappings /\ query' = q /\ plan' = PlanFor(q, answer) /\ mappings \subseteq Mapping
    BY DEF Plan, PlannerInv, TypeOK
  <1>2. SameScopeDisjoint'
    BY <1>1 DEF PlannerInv, SameScopeDisjoint
  <1>3. q.event # {} => ~OverlapIn(resolved)
    <2> SUFFICES ASSUME q.event # {}, NEW m \in resolved, NEW n \in resolved,
                        m # n, SameScope(m, n)
                 PROVE  ~Overlaps(m.range, n.range)
      BY DEF OverlapIn
    <2>1. EventRange(q) \in TimeRange
      BY QueryFacts
    <2> QED BY <1>1, <2>1, ResolvedDisjoint DEF PlannerInv, SameScope
  <1>4. CASE plan'.outcome = "planned"
    <2>1. /\ q.event # {}
          /\ plan' = Planned(q, resolved)
          /\ \A m \in resolved : FetchRangeError(q, m.range) = "none"
      BY <1>4, PlannedOutcome
    <2>2. EventRange(q) \in TimeRange
      BY <2>1, QueryFacts
    <2>3. \A m \in resolved : m \in Mapping /\ m.range \in TimeRange
      BY <1>1, <2>2, ResolveClips DEF Mapping
    <2>4. \A m \in resolved : FetchRange(q, m.range) \in TimeRange
      BY <2>1, <2>3, FetchRangeFacts
    <2>5. TypeOK'
      BY <1>1, <2>1, <2>3, <2>4 DEF TypeOK, Planned, PlanSegment, Outcome, Gaps
    <2>6. NoOverlapError'
      BY <1>4 DEF NoOverlapError
    <2>7. resolved' = resolved
      BY <1>1 DEF Resolve
    <2>8. \A s \in plan'.segments :
            /\ s.mapping \in resolved
            /\ s.fetch = FetchRange(q, s.mapping.range)
      BY <2>1 DEF Planned, PlanSegment
    <2>9. plan'.unmapped = Gaps(EventRange(q), MappedRanges')
      <3>1. MappedRanges' = {m.range : m \in resolved}
        <4>1. plan'.segments = {PlanSegment(q, m) : m \in resolved}
          BY <2>1 DEF Planned
        <4>2. \A m \in resolved : PlanSegment(q, m).mapping = m
          BY DEF PlanSegment
        <4>3. \A r : (\E s \in plan'.segments : r = s.mapping.range)
                       <=> (\E m \in resolved : r = m.range)
          BY <4>1, <4>2
        <4> QED BY <4>3 DEF MappedRanges
      <3> QED BY <2>1, <3>1 DEF Planned
    <2>10. PlanGrounded'
      BY <1>1, <1>4, <2>1, <2>7, <2>8, <2>9 DEF PlanGrounded
    <2> QED BY <1>2, <2>5, <2>6, <2>10 DEF PlannerInv
  <1>5. CASE plan'.outcome # "planned"
    <2>1. PICK error \in Outcome \ {"none", "planned", "MappingOverlap"} : plan' = Failed(error)
      <3> DEFINE res == IF q.event = {} THEN {} ELSE resolved
                 err == PlanError(q, answer, res)
      <3>1. plan' = IF err = "none" THEN Planned(q, res) ELSE Failed(err)
        BY <1>1 DEF PlanFor
      <3>2. err # "none" /\ plan' = Failed(err)
        BY <1>5, <3>1 DEF Planned
      <3>3. \A m \in res : FetchRangeError(q, m.range) \in {"none", "ExplicitRangeRequired", "RangeOverflow"}
        BY DEF FetchRangeError
      <3>4. err \in {"none", "NoEventRange", "CacheNotSupported", "ExplicitRangeRequired", "RangeOverflow"}
        <4>1. CASE q.event = {}
          BY <4>1 DEF PlanError
        <4>2. CASE q.event # {} /\ ~OverlapIn(res)
          BY <3>3, <4>2 DEF PlanError
        <4> QED BY <1>3, <4>1, <4>2
      <3> QED BY <3>2, <3>4 DEF Outcome
    <2>2. plan'.segments = {} /\ plan'.unmapped = {} /\ plan'.outcome = error
      BY <2>1 DEF Failed
    <2>3. TypeOK'
      BY <1>1, <2>1 DEF TypeOK, Failed
    <2> QED BY <1>2, <2>1, <2>2, <2>3 DEF PlannerInv, NoOverlapError, PlanGrounded
  <1> QED BY <1>4, <1>5

\* The invariant holds in every reachable state.
THEOREM PlannerInvariant == Spec => []PlannerInv
  <1>1. PlannerInv /\ [Next]_vars => PlannerInv'
    <2> SUFFICES ASSUME PlannerInv, [Next]_vars PROVE PlannerInv'
      OBVIOUS
    <2>1. CASE AddMapping
      BY <2>1, AddPreserves
    <2>2. CASE \E q \in Queries, answer \in CacheAnswers : Plan(q, answer)
      BY <2>2, PlanPreserves
    <2>3. CASE UNCHANGED vars
      BY <2>3 DEF vars, PlannerInv, TypeOK, SameScopeDisjoint, NoOverlapError,
                  PlanGrounded, MappedRanges, Resolve
    <2> QED BY <2>1, <2>2, <2>3 DEF Next
  <1> QED BY <1>1, InitPlanner, PTL DEF Spec

\* Type correctness: in particular every fetch range the planner derives is a
\* range of 64-bit timestamps.
THEOREM PlannerTypeCorrect == Spec => []TypeOK
PROOF BY PlannerInvariant, PTL DEF PlannerInv

\* No instant has two provider identities in one scope.
THEOREM RegistryScopesDisjoint == Spec => []SameScopeDisjoint
PROOF BY PlannerInvariant, PTL DEF PlannerInv

\* The planner's "mapping resolution returned overlapping provider ranges" is
\* unreachable over the in-memory registry.
THEOREM OverlapErrorUnreachable == Spec => []NoOverlapError
PROOF BY PlannerInvariant, PTL DEF PlannerInv

\* Two segments of one plan that name the same venue and source do not overlap.
LEMMA SegmentsDisjoint ==
  ASSUME PlannerInv, NEW s \in plan.segments, NEW t \in plan.segments, s # t,
         s.mapping.venue = t.mapping.venue, s.mapping.source = t.mapping.source
  PROVE  /\ ~Overlaps(s.mapping.range, t.mapping.range)
         /\ s.mapping.range \in TimeRange /\ t.mapping.range \in TimeRange
  <1>1. /\ s = [mapping |-> s.mapping, fetch |-> s.fetch]
        /\ t = [mapping |-> t.mapping, fetch |-> t.fetch]
        /\ s.mapping.range \in TimeRange /\ t.mapping.range \in TimeRange
        /\ mappings \subseteq Mapping /\ query \in Queries
    BY DEF PlannerInv, TypeOK, Mapping
  <1>2. s.mapping # t.mapping
    BY <1>1 DEF PlannerInv, PlanGrounded
  <1>3. EventRange(query) \in TimeRange
    BY <1>1, QueryFacts DEF PlannerInv, PlanGrounded
  <1> QED BY <1>1, <1>2, <1>3, ResolvedDisjoint DEF PlannerInv, PlanGrounded

\* The segments of a plan are strictly ordered, so the order of the provider
\* calls depends on neither the insertion order nor the sort's stability.
THEOREM PlanOrderDeterministic == Spec => []PlanOrderIsTotal
  <1>1. PlannerInv => PlanOrderIsTotal
    <2> SUFFICES ASSUME PlannerInv, NEW s \in plan.segments, NEW t \in plan.segments, s # t,
                        ~MappingLess(s.mapping, t.mapping), ~MappingLess(t.mapping, s.mapping)
                 PROVE  FALSE
      BY DEF PlanOrderIsTotal
    <2> DEFINE m == s.mapping
               n == t.mapping
    <2>1. /\ m \in Mapping /\ n \in Mapping
      BY DEF PlannerInv, TypeOK
    <2>2. /\ m.range \in TimeRange /\ n.range \in TimeRange
          /\ m.venue \in Nat /\ n.venue \in Nat /\ m.source \in Nat /\ n.source \in Nat
          /\ m.provider_id \in Nat /\ n.provider_id \in Nat
      <3>1. /\ m.range \in TimeRange /\ n.range \in TimeRange
            /\ m.venue \in Venues \union {None} /\ n.venue \in Venues \union {None}
            /\ m.source \in Sources \union {None} /\ n.source \in Sources \union {None}
            /\ m.provider_id \in ProviderIds /\ n.provider_id \in ProviderIds
        BY <2>1 DEF Mapping
      <3>2. Venues \union {None} \subseteq Nat /\ Sources \union {None} \subseteq Nat
        BY IdentifierAssumption DEF None
      <3> QED BY <3>1, <3>2, IdentifierAssumption
    <2>3. /\ m.range.start \in Int /\ n.range.start \in Int
          /\ m.range.end \in Int /\ n.range.end \in Int
      BY <2>2, RangeEnds
    <2> DEFINE km == <<m.range.start, m.range.end, m.venue, m.source, m.provider_id>>
               kn == <<n.range.start, n.range.end, n.venue, n.source, n.provider_id>>
    <2>4. \A k \in 1..5 : (\A j \in 1..(k - 1) : km[j] = kn[j]) => ~(km[k] < kn[k]) /\ ~(kn[k] < km[k])
      BY DEF MappingLess
    <2>5. m.range.start = n.range.start
      BY <2>3, <2>4
    <2>6. m.range.end = n.range.end
      BY <2>3, <2>4, <2>5
    <2>7. m.venue = n.venue
      BY <2>2, <2>4, <2>5, <2>6
    <2>8. m.source = n.source
      BY <2>2, <2>4, <2>5, <2>6, <2>7
    <2>9. ~Overlaps(m.range, n.range)
      BY <2>7, <2>8, SegmentsDisjoint
    <2> QED BY <2>2, <2>5, <2>6, <2>9, RangeEnds DEF Overlaps
  <1> QED BY <1>1, PlannerInvariant, PTL

\* One event is accepted from two provider calls only across mappings that
\* leave different parts of their scope open.
THEOREM AcceptedOnce == Spec => []AcceptedOncePerShape
  <1>1. PlannerInv => AcceptedOncePerShape
    <2> SUFFICES ASSUME PlannerInv, NEW s \in plan.segments, NEW t \in plan.segments, s # t,
                        (s.mapping.venue = None) = (t.mapping.venue = None),
                        (s.mapping.source = None) = (t.mapping.source = None),
                        NEW v \in Venues, NEW o \in Sources, NEW time \in Timestamp,
                        Accepts(s, v, o, time), Accepts(t, v, o, time)
                 PROVE  FALSE
      BY DEF AcceptedOncePerShape
    <2>1. s.mapping.venue = t.mapping.venue /\ s.mapping.source = t.mapping.source
      BY DEF Accepts
    <2>2. /\ ~Overlaps(s.mapping.range, t.mapping.range)
          /\ s.mapping.range \in TimeRange /\ t.mapping.range \in TimeRange
      BY <2>1, SegmentsDisjoint
    <2>3. time \in Int
      BY TimeBounds
    <2> QED BY <2>2, <2>3, RangeEnds DEF Accepts, Contains, Overlaps
  <1> QED BY <1>1, PlannerInvariant, PTL

\* A plan neither forgets an instant of the request nor both fetches it and
\* reports it as missing.
THEOREM PlanPartitions == Spec => []PlanPartitionsTheRequest
  <1>1. PlannerInv => PlanPartitionsTheRequest
    <2> SUFFICES ASSUME PlannerInv PROVE PlanPartitionsTheRequest
      OBVIOUS
    <2>1. CASE plan.outcome # "planned"
      BY <2>1 DEF PlannerInv, PlanGrounded, PlanPartitionsTheRequest, MappedRanges, InstantsOf
    <2>2. CASE plan.outcome = "planned"
      <3> DEFINE q == EventRange(query)
      <3>1. q \in TimeRange /\ plan.unmapped = Gaps(q, MappedRanges)
        BY <2>2, QueryFacts DEF PlannerInv, PlanGrounded, TypeOK
      <3>2. MappedRanges \in SUBSET TimeRange
        BY DEF PlannerInv, TypeOK, MappedRanges, Mapping
      <3>3. \A s \in plan.segments : q.start <= s.mapping.range.start /\ s.mapping.range.end <= q.end
        BY <3>1, ResolveClips DEF PlannerInv, PlanGrounded, TypeOK
      <3>4. InstantsOf(MappedRanges) \subseteq Instants(q)
        <4> SUFFICES ASSUME NEW r \in MappedRanges, NEW t \in Instants(r)
                     PROVE  t \in Instants(q)
          BY DEF InstantsOf
        <4> QED BY <3>1, <3>2, <3>3, RangeEnds DEF MappedRanges, Instants
      <3> HIDE DEF q
      <3>5. /\ InstantsOf(plan.unmapped) \subseteq Instants(q)
            /\ InstantsOf(plan.unmapped) \intersect InstantsOf(MappedRanges) = {}
            /\ Instants(q) \subseteq InstantsOf(MappedRanges) \union InstantsOf(plan.unmapped)
        BY <3>1, <3>2, GapsAvoidCovered, GapsComplete
      <3> QED BY <3>4, <3>5 DEF PlanPartitionsTheRequest, q
    <2> QED BY <2>1, <2>2
  <1> QED BY <1>1, PlannerInvariant, PTL

\* Deriving the fetch range from the margin loses no record whose source
\* receive time is within the margin of its event time.
THEOREM FetchCovers == Spec => []FetchCoversTheMargin
  <1>1. PlannerInv => FetchCoversTheMargin
    <2> SUFFICES ASSUME PlannerInv, NEW s \in plan.segments, query.receive = {},
                        NEW t \in Instants(s.mapping.range),
                        NEW lag \in -query.margin.before..query.margin.after
                 PROVE  Contains(s.fetch, t + lag)
      BY DEF FetchCoversTheMargin
    <2>1. s.mapping.range \in TimeRange /\ query \in Queries
      BY DEF PlannerInv, TypeOK, Mapping
    <2>2. /\ s.fetch.start = s.mapping.range.start - query.margin.before
          /\ s.fetch.end = s.mapping.range.end + query.margin.after
      BY <2>1, FetchRangeFacts DEF PlannerInv, PlanGrounded
    <2>3. query.margin.before \in Int /\ query.margin.after \in Int
      BY <2>1, QueryFacts, TimeBounds DEF TimeMargin
    <2> QED BY <2>1, <2>2, <2>3, RangeEnds DEF Instants, Contains
  <1> QED BY <1>1, PlannerInvariant, PTL

\* Planning a query again keeps every segment of the earlier plan.
THEOREM PlansOnlyGrow == Spec => ReplanExtends
  <1>1. PlannerInv /\ [Next]_vars =>
          [plan.outcome = "planned" /\ plan'.outcome = "planned" /\ query' = query
             => plan.segments \subseteq plan'.segments]_vars
    <2> SUFFICES ASSUME PlannerInv, Next, plan'.outcome = "planned", query' = query,
                        NEW s \in plan.segments
                 PROVE  s \in plan'.segments
      OBVIOUS
    <2>1. CASE AddMapping
      BY <2>1 DEF AddMapping
    <2>2. ASSUME NEW q \in Queries, NEW answer \in CacheAnswers, Plan(q, answer)
          PROVE  s \in plan'.segments
      <3>1. q = query
        BY <2>2 DEF Plan
      <3>2. plan' = Planned(query, Resolve(query.instrument, ProviderName, query.venue, EventRange(query)))
        BY <2>2, <3>1, PlannedOutcome
      <3>3. s = PlanSegment(query, s.mapping)
        BY DEF PlannerInv, TypeOK, PlanGrounded, PlanSegment
      <3> QED BY <3>2, <3>3 DEF Planned, PlannerInv, PlanGrounded
    <2> QED BY <2>1, <2>2 DEF Next
  <1> QED BY <1>1, PlannerInvariant, PTL DEF Spec, ReplanExtends

-----------------------------------------------------------------------------
(* The cost gate of the ingestion program: for every cost the client may name,   *)
(* every limit and every requested range, CallerSpec's program fetches only the  *)
(* range it has last had estimated, at an affordable cost.  The invariant ties   *)
(* the phase of the program to the registry, the query, the plan and the calls.  *)


\* The two calls of the client, for the whole of the range now requested.
EstimateCall == [call |-> "MetadataGetCost", range |-> requested, cost |-> cost]
FetchCall    == [call |-> "TimeseriesGetRange", range |-> requested, cost |-> NaN]

\* The only mapping of the program's registry, and the only segment of its plan.
OwnMapping ==
  [instrument |-> 1, provider |-> "databento", venue |-> 1, source |-> 1,
   provider_id |-> 1, range |-> requested]
OwnSegment == [mapping |-> OwnMapping, fetch |-> requested]

ClientCall ==
  [call : {"MetadataGetCost", "TimeseriesGetRange"}, range : TimeRange, cost : Costs \union {NaN}]

GateTypeOK ==
  /\ phase \in {"off", "estimate", "compare", "again", "gate", "plan", "fetch", "done", "failed"}
  /\ requested \in TimeRange
  /\ cost \in Costs \union {NaN}
  /\ calls \in Seq(ClientCall)

NothingFetched == \A i \in DOMAIN calls : calls[i].call # "TimeseriesGetRange"

LastIsEstimate == Len(calls) > 0 /\ calls[Len(calls)] = EstimateCall

\* The range was fetched once, right after its estimate.
LastIsFetch ==
  /\ Len(calls) > 1
  /\ calls[Len(calls)] = FetchCall
  /\ calls[Len(calls) - 1] = EstimateCall
  /\ \A i \in DOMAIN calls : calls[i].call = "TimeseriesGetRange" => i = Len(calls)

\* What the phase says of the registry, the query and the plan.
PhaseFitsPlanner ==
  /\ phase \in {"estimate", "compare", "again", "gate"} => mappings = {} /\ plan = Failed("none")
  /\ phase = "plan" => mappings = {OwnMapping} /\ query = QueryOf(requested)
  /\ phase \in {"fetch", "done"} => query = QueryOf(requested) /\ plan.segments = {OwnSegment}

\* What the phase says of the calls and of the last estimate.
PhaseFitsCalls ==
  /\ phase = "off" => calls = <<>>
  /\ phase \in {"off", "estimate", "compare", "again", "gate", "plan"} => NothingFetched
  /\ phase \in {"compare", "gate", "plan"} => LastIsEstimate
  /\ phase \in {"plan", "fetch", "done"} => cost \in 0..Target
  /\ phase = "fetch" => (NothingFetched /\ LastIsEstimate) \/ LastIsFetch
  /\ phase = "done" => LastIsFetch
  /\ phase = "failed" => NothingFetched \/ (LastIsFetch /\ cost \in 0..Target)

GateInv == GateTypeOK /\ PhaseFitsPlanner /\ PhaseFitsCalls

-----------------------------------------------------------------------------
\* The limits of the program are naturals, and NaN is none.
LEMMA CostFacts ==
  /\ NaN \in Int /\ NaN < 0
  /\ Target \in Nat /\ Infinity \in Nat
  /\ \A c \in Costs \union {NaN} : c \in Int /\ (c >= 0 \/ c = NaN)
  <1>1. NaN \in Int /\ NaN < 0 /\ Target \in Nat /\ Infinity \in Nat
    BY CostAssumption DEF NaN
  <1>2. \A c \in Costs : c \in (0..Infinity) \union {NaN}
    BY CostAssumption
  <1>3. \A c \in (0..Infinity) \union {NaN} : c \in Int /\ (c >= 0 \/ c = NaN)
    BY <1>1
  <1> QED BY <1>1, <1>2, <1>3

\* The query of the program asks the provider for exactly its range: it has no
\* margin, and a range before the epoch is refused.
LEMMA OwnFetchRange ==
  ASSUME NEW r \in TimeRange, NEW q, q.receive = {}, q.policy = "derive",
         q.margin = [before |-> 0, after |-> 0]
  PROVE  FetchRange(q, r) = r /\ FetchRangeError(q, r) = "none"
  <1>1. /\ r.start \in Int /\ r.end \in Int
        /\ MinTime <= r.start /\ r.end <= MaxTime
        /\ r = [start |-> r.start, end |-> r.end]
    BY RangeEnds, TimeBounds
  <1>2. q.margin.before = 0 /\ q.margin.after = 0
    OBVIOUS
  <1>3. CanExpand(r, q.margin)
    BY <1>1, <1>2, TimeBounds DEF CanExpand
  <1>4. Expand(r, q.margin) = r
    BY <1>1, <1>2 DEF Expand
  <1> QED BY <1>3, <1>4 DEF FetchRange, FetchRangeError

LEMMA OwnProviderRange ==
  ASSUME NEW r \in TimeRange, NEW q, q.receive = {}, q.policy = "derive",
         q.margin = [before |-> 0, after |-> 0], q.event = {r}, NEW x \in ProviderRange(q)
  PROVE  x = r
  <1>1. (CHOOSE e \in q.event : TRUE) = r
    OBVIOUS
  <1> QED BY <1>1, OwnFetchRange DEF ProviderRange

\* The plan of the program is its one mapping, whole.
LEMMA OwnPlan ==
  ASSUME requested \in TimeRange, mappings = {OwnMapping}, query = QueryOf(requested),
         NEW p, p = PlanFor(query, "miss"), p.outcome = "planned"
  PROVE  p.segments = {OwnSegment}
  <1> DEFINE resolved == Resolve(query.instrument, ProviderName, query.venue, EventRange(query))
  <1>1. /\ query.event = {requested} /\ query.receive = {} /\ query.policy = "derive"
        /\ query.margin = [before |-> 0, after |-> 0] /\ EventRange(query) = requested
    BY DEF QueryOf, EventRange
  <1>2. Intersection(requested, requested) = {requested}
    BY RangeEnds DEF Intersection
  <1>3. \A r \in resolved : r = OwnMapping
    <2> SUFFICES ASSUME NEW r \in resolved PROVE r = OwnMapping
      OBVIOUS
    <2>1. PICK c \in Intersection(OwnMapping.range, requested) :
            r = [OwnMapping EXCEPT !.range = c]
      BY <1>1, ResolveElements
    <2> QED BY <1>2, <2>1 DEF OwnMapping
  <1> HIDE DEF resolved
  <1>4. PlanError(query, "miss", resolved) # "none" => p.outcome # "planned"
    <2> SUFFICES ASSUME PlanError(query, "miss", resolved) # "none" PROVE p.outcome # "planned"
      OBVIOUS
    <2>1. ~OverlapIn(resolved)
      BY <1>3 DEF OverlapIn
    <2>2. \A m \in resolved : FetchRangeError(query, m.range) = "none"
      BY <1>1, <1>3, OwnFetchRange DEF OwnMapping
    <2> QED BY <1>1, <2>1, <2>2 DEF PlanError
  <1>5. p = Planned(query, resolved)
    BY <1>1, <1>4 DEF PlanFor, resolved, Failed
  <1>6. p.segments = {PlanSegment(query, m) : m \in resolved}
    BY <1>5 DEF Planned
  <1>7. PlanSegment(query, OwnMapping) = OwnSegment
    BY <1>1, OwnFetchRange DEF PlanSegment, OwnSegment, OwnMapping
  <1>8. OwnMapping \in resolved
    <2>1. /\ OwnMapping.instrument = 1 /\ OwnMapping.provider = ProviderName
          /\ OwnMapping.venue = 1 /\ OwnMapping.range = requested
          /\ OwnMapping = [OwnMapping EXCEPT !.range = requested]
      BY CostAssumption DEF OwnMapping
    <2>2. query.instrument = 1 /\ query.venue = 1
      BY DEF QueryOf
    <2> QED BY <1>1, <1>2, <2>1, <2>2, ResolveElements DEF resolved
  <1> QED BY <1>3, <1>6, <1>7, <1>8

-----------------------------------------------------------------------------
LEMMA InitGate == CallerInit => GateInv
  <1> SUFFICES ASSUME GateInit PROVE GateInv
    BY DEF CallerInit
  <1>1. requested \in TimeRange
    BY MakeRange, TimeBounds DEF GateInit
  <1>2. calls = <<>> /\ DOMAIN calls = {} /\ phase = "off" /\ cost = NaN
    BY DEF GateInit
  <1>3. GateTypeOK
    BY <1>1, <1>2 DEF GateTypeOK
  <1> QED BY <1>2, <1>3 DEF GateInv, PhaseFitsPlanner, PhaseFitsCalls, NothingFetched

\* What the other callers of the planner do happens before the program starts.
LEMMA OthersPreserve ==
  ASSUME GateInv, phase = "off", UNCHANGED gateVars
  PROVE  GateInv'
  <1>1. /\ phase' = "off" /\ requested' = requested /\ cost' = cost /\ calls' = calls
    BY DEF gateVars
  <1>2. calls = <<>> /\ NothingFetched
    BY DEF GateInv, PhaseFitsCalls
  <1> QED BY <1>1, <1>2 DEF GateInv, GateTypeOK, PhaseFitsPlanner, PhaseFitsCalls, NothingFetched

LEMMA MainPreserves ==
  ASSUME GateInv, NEW range \in Requests, Main(range)
  PROVE  GateInv'
  <1>1. /\ phase = "off" /\ phase' = "estimate" /\ requested' = range
        /\ mappings' = {} /\ plan' = Failed("none") /\ cost' = cost /\ calls' = calls
    BY DEF Main
  <1>2. range \in TimeRange
    BY CostAssumption
  <1>3. NothingFetched
    BY <1>1 DEF GateInv, PhaseFitsCalls
  <1> QED BY <1>1, <1>2, <1>3 DEF GateInv, GateTypeOK, PhaseFitsPlanner, PhaseFitsCalls,
                                  NothingFetched

\* A failure stops the program where it is: what was fetched was affordable.
LEMMA FailPreserves ==
  ASSUME GateInv, Fail, phase \in {"estimate", "compare", "again", "gate", "fetch"}
  PROVE  GateInv'
  <1>1. /\ phase' = "failed" /\ requested' = requested /\ cost' = cost /\ calls' = calls
    BY DEF Fail
  <1>2. NothingFetched \/ (LastIsFetch /\ cost \in 0..Target)
    BY DEF GateInv, PhaseFitsCalls
  <1>3. (NothingFetched \/ (LastIsFetch /\ cost \in 0..Target))'
    BY <1>1, <1>2 DEF NothingFetched, LastIsFetch, FetchCall, EstimateCall
  <1> QED BY <1>1, <1>3 DEF GateInv, GateTypeOK, PhaseFitsPlanner, PhaseFitsCalls

\* An estimate is for the whole requested range, and becomes the last call.
LEMMA EstimatePreserves ==
  ASSUME GateInv, NEW c \in Costs, EstimateCost(c)
  PROVE  GateInv'
  <1>1. PICK range \in ProviderRange(QueryOf(requested)) :
          calls' = Append(calls, [call |-> "MetadataGetCost", range |-> range, cost |-> c])
    BY DEF EstimateCost
  <1>2. /\ phase \in {"estimate", "again"} /\ phase' \in {"compare", "gate"}
        /\ cost' = c /\ requested' = requested /\ mappings' = mappings /\ plan' = plan
    BY DEF EstimateCost
  <1>3. requested \in TimeRange /\ calls \in Seq(ClientCall) /\ NothingFetched
    BY <1>2 DEF GateInv, GateTypeOK, PhaseFitsCalls
  <1>4. range = requested
    BY <1>3, OwnProviderRange DEF QueryOf
  <1>5. calls' = Append(calls, EstimateCall') /\ EstimateCall' \in ClientCall
    BY <1>1, <1>2, <1>3, <1>4 DEF EstimateCall, ClientCall
  <1>6. calls' \in Seq(ClientCall) /\ Len(calls') = Len(calls) + 1
        /\ calls'[Len(calls')] = EstimateCall'
        /\ \A i \in DOMAIN calls' : i # Len(calls') => i \in DOMAIN calls /\ calls'[i] = calls[i]
    BY <1>3, <1>5
  <1>7. LastIsEstimate'
    BY <1>3, <1>6 DEF LastIsEstimate
  <1>8. NothingFetched'
    BY <1>3, <1>6 DEF NothingFetched, EstimateCall
  <1> QED BY <1>2, <1>3, <1>6, <1>7, <1>8
          DEF GateInv, GateTypeOK, PhaseFitsPlanner, PhaseFitsCalls

\* A shorter range must be estimated again.
LEMMA ReducePreserves ==
  ASSUME GateInv, ReduceToOneMinute
  PROVE  GateInv'
  <1>1. /\ phase = "compare" /\ phase' = "again" /\ CanReduce
        /\ requested' = [requested EXCEPT !.end = OneMinuteEnd]
        /\ cost' = cost /\ calls' = calls /\ mappings' = mappings /\ plan' = plan
    BY DEF ReduceToOneMinute
  <1>2. requested \in TimeRange
    BY DEF GateInv, GateTypeOK
  <1>3. requested' = [start |-> requested.start, end |-> OneMinuteEnd]
    BY <1>1, <1>2, RangeEnds
  <1>4. OneMinuteEnd \in Timestamp /\ requested.start < OneMinuteEnd /\ requested.start \in Timestamp
    BY <1>1, <1>2, RangeEnds, TimeBounds, CostAssumption DEF CanReduce, OneMinuteEnd
  <1>5. requested' \in TimeRange
    BY <1>3, <1>4, MakeRange
  <1>6. NothingFetched
    BY <1>1 DEF GateInv, PhaseFitsCalls
  <1> QED BY <1>1, <1>5, <1>6 DEF GateInv, GateTypeOK, PhaseFitsPlanner, PhaseFitsCalls,
                                  NothingFetched

LEMMA KeepPreserves ==
  ASSUME GateInv, KeepRange
  PROVE  GateInv'
  <1>1. /\ phase = "compare" /\ phase' = "gate" /\ requested' = requested
        /\ cost' = cost /\ calls' = calls /\ mappings' = mappings /\ plan' = plan
    BY DEF KeepRange
  <1>2. NothingFetched /\ LastIsEstimate
    BY <1>1 DEF GateInv, PhaseFitsCalls
  <1> QED BY <1>1, <1>2 DEF GateInv, GateTypeOK, PhaseFitsPlanner, PhaseFitsCalls,
                            NothingFetched, LastIsEstimate, EstimateCall

\* Only a number not above the target opens the gate; not-a-number, which is
\* above no limit, is stopped by the test for finiteness.
LEMMA PassPreserves ==
  ASSUME GateInv, PassGate
  PROVE  GateInv'
  <1>1. /\ phase = "gate" /\ phase' = "plan" /\ ~Refuses /\ requested' = requested
        /\ cost' = cost /\ calls' = calls /\ plan' = plan
        /\ query' = QueryOf(requested) /\ Add(OwnMapping)
    BY DEF PassGate, OwnMapping
  <1>2. NothingFetched /\ LastIsEstimate /\ mappings = {}
    BY <1>1 DEF GateInv, PhaseFitsCalls, PhaseFitsPlanner
  <1>3. mappings' = {OwnMapping}
    BY <1>1, <1>2 DEF Add
  <1>4. cost \in 0..Target
    <2>1. cost # NaN /\ ~(cost > Target)
      BY <1>1 DEF Refuses, IsFinite
    <2> QED BY <2>1, CostFacts DEF GateInv, GateTypeOK
  <1>5. OwnMapping' = OwnMapping /\ QueryOf(requested)' = query'
    BY <1>1 DEF OwnMapping, QueryOf
  <1> QED BY <1>1, <1>2, <1>3, <1>4, <1>5
          DEF GateInv, GateTypeOK, PhaseFitsPlanner, PhaseFitsCalls, NothingFetched,
              LastIsEstimate, EstimateCall

LEMMA PlanItPreserves ==
  ASSUME GateInv, PlanIt
  PROVE  GateInv'
  <1>1. /\ phase = "plan" /\ phase' = IF plan'.outcome = "planned" THEN "fetch" ELSE "failed"
        /\ plan' = PlanFor(query, "miss") /\ query' = query
        /\ requested' = requested /\ cost' = cost /\ calls' = calls
    BY DEF PlanIt, Plan
  <1>2. /\ NothingFetched /\ LastIsEstimate /\ cost \in 0..Target /\ requested \in TimeRange
        /\ mappings = {OwnMapping} /\ query = QueryOf(requested)
    BY <1>1 DEF GateInv, GateTypeOK, PhaseFitsCalls, PhaseFitsPlanner
  <1>3. plan'.outcome = "planned" => plan'.segments = {OwnSegment}
    BY <1>1, <1>2, OwnPlan
  <1>4. /\ OwnSegment' = OwnSegment /\ QueryOf(requested)' = QueryOf(requested)
        /\ NothingFetched' /\ LastIsEstimate'
    BY <1>1, <1>2 DEF OwnSegment, OwnMapping, QueryOf, NothingFetched, LastIsEstimate, EstimateCall
  <1> QED BY <1>1, <1>2, <1>3, <1>4
          DEF GateInv, GateTypeOK, PhaseFitsPlanner, PhaseFitsCalls

\* The one segment is fetched once, for the range of the last estimate.
LEMMA FetchPreserves ==
  ASSUME GateInv, NEW s \in plan.segments, Fetch(s)
  PROVE  GateInv'
  <1>1. /\ phase = "fetch" /\ s.fetch \notin Fetched /\ phase' = phase /\ cost' = cost
        /\ requested' = requested /\ query' = query /\ plan' = plan
    BY DEF Fetch
  <1>2. PICK range \in ProviderRange([query EXCEPT !.event = {s.mapping.range}]) :
          calls' = Append(calls, [call |-> "TimeseriesGetRange", range |-> range, cost |-> NaN])
    BY DEF Fetch
  <1>3. /\ requested \in TimeRange /\ calls \in Seq(ClientCall) /\ cost \in 0..Target
        /\ query = QueryOf(requested) /\ s = OwnSegment /\ plan.segments = {OwnSegment}
        /\ (NothingFetched /\ LastIsEstimate) \/ LastIsFetch
    BY <1>1 DEF GateInv, GateTypeOK, PhaseFitsPlanner, PhaseFitsCalls
  <1>4. s.mapping.range = requested /\ s.fetch = requested
    BY <1>3 DEF OwnSegment, OwnMapping
  <1>5. range = requested
    <2> DEFINE q == [query EXCEPT !.event = {requested}]
    <2>1. /\ q.receive = {} /\ q.policy = "derive" /\ q.event = {requested}
          /\ q.margin = [before |-> 0, after |-> 0]
      BY <1>3 DEF QueryOf
    <2>2. range \in ProviderRange(q)
      BY <1>2, <1>4
    <2> HIDE DEF q
    <2> QED BY <1>3, <2>1, <2>2, OwnProviderRange
  <1>6. ~LastIsFetch
    <2> SUFFICES ASSUME LastIsFetch PROVE requested \in Fetched
      BY <1>1, <1>4
    <2>1. Len(calls) \in DOMAIN calls /\ calls[Len(calls)] = FetchCall
      BY <1>3 DEF LastIsFetch
    <2>2. FetchCall \in [call : {"TimeseriesGetRange"}, range : TimeRange, cost : {NaN}]
      BY <1>3 DEF FetchCall
    <2>3. FetchCall.range = requested
      BY DEF FetchCall
    <2> QED BY <2>1, <2>2, <2>3 DEF Fetched
  <1>7. NothingFetched /\ LastIsEstimate
    BY <1>3, <1>6
  <1>8. calls' = Append(calls, FetchCall) /\ FetchCall \in ClientCall
    BY <1>2, <1>3, <1>5 DEF FetchCall, ClientCall
  <1>9. /\ calls' \in Seq(ClientCall) /\ Len(calls') = Len(calls) + 1 /\ Len(calls) \in Nat
        /\ calls'[Len(calls')] = FetchCall
        /\ \A i \in DOMAIN calls : calls'[i] = calls[i]
        /\ \A i \in DOMAIN calls' : i # Len(calls') => i \in DOMAIN calls
        /\ Len(calls) > 0 => Len(calls) \in DOMAIN calls
    BY <1>3, <1>8
  <1>10. LastIsFetch'
    <2>1. Len(calls') > 1 /\ calls'[Len(calls') - 1] = EstimateCall
      BY <1>7, <1>9 DEF LastIsEstimate
    <2>2. \A i \in DOMAIN calls' : calls'[i].call = "TimeseriesGetRange" => i = Len(calls')
      BY <1>7, <1>9 DEF NothingFetched
    <2>3. FetchCall' = FetchCall /\ EstimateCall' = EstimateCall
      BY <1>1 DEF FetchCall, EstimateCall
    <2> QED BY <1>9, <2>1, <2>2, <2>3 DEF LastIsFetch
  <1>11. OwnSegment' = OwnSegment /\ QueryOf(requested)' = QueryOf(requested)
    BY <1>1 DEF OwnSegment, OwnMapping, QueryOf
  <1> QED BY <1>1, <1>3, <1>9, <1>10, <1>11
          DEF GateInv, GateTypeOK, PhaseFitsPlanner, PhaseFitsCalls

\* The program ends well only when its segment was fetched.
LEMMA FinishPreserves ==
  ASSUME GateInv, Finish
  PROVE  GateInv'
  <1>1. /\ phase = "fetch" /\ phase' = "done" /\ requested' = requested /\ cost' = cost
        /\ calls' = calls /\ query' = query /\ plan' = plan
        /\ \A s \in plan.segments : s.fetch \in Fetched
    BY DEF Finish
  <1>2. /\ query = QueryOf(requested) /\ plan.segments = {OwnSegment} /\ cost \in 0..Target
        /\ (NothingFetched /\ LastIsEstimate) \/ LastIsFetch
    BY <1>1 DEF GateInv, PhaseFitsPlanner, PhaseFitsCalls
  <1>3. Fetched # {}
    BY <1>1, <1>2
  <1>4. ~NothingFetched
    BY <1>3 DEF Fetched, NothingFetched
  <1>5. LastIsFetch'
    BY <1>1, <1>2, <1>4 DEF LastIsFetch, FetchCall, EstimateCall
  <1>6. OwnSegment' = OwnSegment /\ QueryOf(requested)' = QueryOf(requested)
    BY <1>1 DEF OwnSegment, OwnMapping, QueryOf
  <1> QED BY <1>1, <1>2, <1>5, <1>6
          DEF GateInv, GateTypeOK, PhaseFitsPlanner, PhaseFitsCalls

LEMMA GateStep ==
  ASSUME GateInv, [CallerNext]_<<vars, gateVars>>
  PROVE  GateInv'
  <1>1. CASE UNCHANGED <<vars, gateVars>>
    BY <1>1 DEF vars, gateVars, GateInv, GateTypeOK, PhaseFitsPlanner, PhaseFitsCalls,
                NothingFetched, LastIsEstimate, LastIsFetch, EstimateCall, FetchCall,
                OwnMapping, OwnSegment, QueryOf
  <1>2. CASE phase = "off" /\ UNCHANGED gateVars
    BY <1>2, OthersPreserve
  <1>3. CASE GateNext
    <2>1. CASE \E range \in Requests : Main(range)
      BY <2>1, MainPreserves
    <2>2. CASE ClientFails
      BY <2>2, FailPreserves DEF ClientFails
    <2>3. CASE CannotReduce
      BY <2>3, FailPreserves DEF CannotReduce
    <2>4. CASE Refuse
      BY <2>4, FailPreserves DEF Refuse
    <2>5. CASE ReduceToOneMinute
      BY <2>5, ReducePreserves
    <2>6. CASE KeepRange
      BY <2>6, KeepPreserves
    <2>7. CASE PassGate
      BY <2>7, PassPreserves
    <2>8. CASE PlanIt
      BY <2>8, PlanItPreserves
    <2>9. CASE Finish
      BY <2>9, FinishPreserves
    <2>10. CASE \E c \in Costs : EstimateCost(c)
      BY <2>10, EstimatePreserves
    <2>11. CASE \E s \in plan.segments : Fetch(s)
      BY <2>11, FetchPreserves
    <2> QED BY <1>3, <2>1, <2>2, <2>3, <2>4, <2>5, <2>6, <2>7, <2>8, <2>9, <2>10, <2>11 DEF GateNext
  <1> QED BY <1>1, <1>2, <1>3 DEF CallerNext

\* The invariant is enough: what was fetched is the last call, made for the
\* range of the estimate before it.
LEMMA GateInvSuffices == GateInv => FetchedAsEstimated
  <1> SUFFICES ASSUME GateInv PROVE FetchedAsEstimated
    OBVIOUS
  <1>1. calls \in Seq(ClientCall) /\ requested \in TimeRange
    BY DEF GateInv, GateTypeOK
  <1>2. NothingFetched \/ (LastIsFetch /\ cost \in 0..Target)
    BY DEF GateInv, GateTypeOK, PhaseFitsCalls
  <1>3. ASSUME NEW i \in DOMAIN calls, calls[i].call = "TimeseriesGetRange"
        PROVE  /\ i = Len(calls) /\ i > 1
               /\ calls[i - 1].call = "MetadataGetCost"
               /\ calls[i - 1].range = calls[i].range
               /\ calls[i - 1].cost \in 0..Target
    BY <1>1, <1>2, <1>3 DEF NothingFetched, LastIsFetch, EstimateCall, FetchCall
  <1>4. ASSUME phase = "done" PROVE Fetched = {requested}
    <2>1. LastIsFetch
      BY <1>4 DEF GateInv, PhaseFitsCalls
    <2>2. Len(calls) \in DOMAIN calls /\ calls[Len(calls)] = FetchCall
      BY <1>1, <2>1 DEF LastIsFetch
    <2>3. \A i \in DOMAIN calls : calls[i].call = "TimeseriesGetRange" => calls[i] = FetchCall
      BY <2>1 DEF LastIsFetch
    <2>4. FetchCall \in [call : {"TimeseriesGetRange"}, range : TimeRange, cost : {NaN}]
          /\ FetchCall.range = requested
      BY <1>1 DEF FetchCall
    <2>5. requested \in Fetched
      BY <2>2, <2>4 DEF Fetched
    <2>6. \A r \in Fetched : r = requested
      BY <2>3, <2>4 DEF Fetched
    <2> QED BY <2>5, <2>6
  <1> QED BY <1>3, <1>4 DEF FetchedAsEstimated

\* Records are paid for only as estimated: whatever the client answers, the
\* program fetches at most once, exactly the range of its last estimate, which
\* is a number not above the target; and it ends well only with that range.
THEOREM PaidAsEstimated == CallerSpec => []FetchedAsEstimated
  <1>1. GateInv /\ [CallerNext]_<<vars, gateVars>> => GateInv'
    BY GateStep
  <1> QED BY <1>1, InitGate, GateInvSuffices, PTL DEF CallerSpec
=============================================================================
