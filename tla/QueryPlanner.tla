--------------------------- MODULE QueryPlanner ---------------------------
(***************************************************************************)
(* QueryPlanner::plan (quant/ingestion/query_plan.hpp) over a registry     *)
(* that mappings are added to between plans, and a cache.  The cache       *)
(* (cache.hpp) is a port: NoopCache always answers with a full miss, and   *)
(* the planner refuses every other answer.                                 *)
(*                                                                         *)
(* A plan keeps its segments as a set: the sorted vector is the set in the *)
(* order MappingLess, which PlanOrderIsTotal shows to be strict.           *)
(***************************************************************************)
EXTENDS MappingRegistry

CONSTANTS Queries,       \* the MarketDataQuery values of a run
          ProviderName,  \* the provider the planner plans for
          CacheAnswers   \* what the cache port may answer: "miss", "other"

\* MarketDataQuery: an optional range is a set with at most one range, and the
\* constructor requires one of the two (query.hpp validate()).
Query ==
  {q \in [instrument : Instruments, venue : Venues \union {None},
          event : SUBSET TimeRange, receive : SUBSET TimeRange,
          policy : {"derive", "explicit"}, margin : TimeMargin] :
     /\ \A r, s \in q.event : r = s
     /\ \A r, s \in q.receive : r = s
     /\ q.event \union q.receive # {}}

ASSUME PlannerAssumption ==
  /\ Queries \subseteq Query
  /\ ProviderName \in Providers
  /\ CacheAnswers \subseteq {"miss", "other"}

VARIABLES query,  \* the query of the last plan() call
          plan    \* its outcome: an exception, or a QueryPlan

vars == <<mappings, query, plan>>

EventRange(q) == CHOOSE r \in q.event : TRUE

\* resolve_provider_fetch_range(): the exception it throws, or none.
FetchRangeError(q, range) ==
  IF q.receive # {} THEN "none"
  ELSE IF q.policy = "explicit" THEN "ExplicitRangeRequired"
  ELSE IF ~CanExpand(range, q.margin) THEN "RangeOverflow"
  ELSE "none"

MutFetchRange(q, range) ==
  IF q.receive # {} THEN CHOOSE r \in q.receive : TRUE ELSE range

FetchRange(q, range) ==
  IF q.receive # {} THEN CHOOSE r \in q.receive : TRUE ELSE Expand(range, q.margin)

\* Two resolved mappings of one scope overlap: the planner's logic_error.
OverlapIn(resolved) ==
  \E m, n \in resolved : m # n /\ SameScope(m, n) /\ Overlaps(m.range, n.range)

\* The first exception plan() throws, in the order of its checks.  The fetch
\* range is resolved per segment: with nothing mapped it is never looked at.
PlanError(q, answer, resolved) ==
  IF q.event = {} THEN "NoEventRange"
  ELSE IF answer # "miss" THEN "CacheNotSupported"
  ELSE IF OverlapIn(resolved) THEN "MappingOverlap"
  ELSE IF \E m \in resolved : FetchRangeError(q, m.range) # "none"
       THEN CHOOSE e \in {FetchRangeError(q, m.range) : m \in resolved} : e # "none"
  ELSE "none"

\* QueryPlanSegment: the clipped mapping and the range to ask the provider for.
\* Its provider query and its post-fetch filters repeat the mapping's range and
\* the receive range of the query.
PlanSegment(q, m) == [mapping |-> m, fetch |-> FetchRange(q, m.range)]

Failed(error) == [outcome |-> error, segments |-> {}, unmapped |-> {}]

MutPlanned(q, resolved) ==
  [outcome |-> "planned",
   segments |-> {PlanSegment(q, m) : m \in resolved},
   unmapped |-> IF resolved = {} THEN q.event ELSE {}]

Planned(q, resolved) ==
  [outcome |-> "planned",
   segments |-> {PlanSegment(q, m) : m \in resolved},
   unmapped |-> Gaps(EventRange(q), {m.range : m \in resolved})]

PlanFor(q, answer) ==
  LET resolved == IF q.event = {} THEN {}
                  ELSE Resolve(q.instrument, ProviderName, q.venue, EventRange(q))
      error    == PlanError(q, answer, resolved)
  IN  IF error = "none" THEN Planned(q, resolved) ELSE Failed(error)

-----------------------------------------------------------------------------
Init ==
  /\ mappings = {}
  /\ query \in Queries
  /\ plan = Failed("none")  \* nothing planned yet

AddMapping ==
  /\ \E mapping \in Mapping : Add(mapping)
  /\ UNCHANGED <<query, plan>>

Plan(q, answer) ==
  /\ query' = q
  /\ plan' = PlanFor(q, answer)
  /\ UNCHANGED mappings

Next ==
  \/ AddMapping
  \/ \E q \in Queries, answer \in CacheAnswers : Plan(q, answer)

Spec == Init /\ [][Next]_vars
-----------------------------------------------------------------------------
Outcome == {"none", "planned", "NoEventRange", "CacheNotSupported", "MappingOverlap",
            "ExplicitRangeRequired", "RangeOverflow"}

\* Every derived fetch range is a timestamp range again: expand() refuses the
\* margins that would leave the 64-bit type.
TypeOK ==
  /\ mappings \subseteq Mapping
  /\ query \in Queries
  /\ plan \in [outcome : Outcome, segments : SUBSET [mapping : Mapping, fetch : TimeRange],
               unmapped : SUBSET TimeRange]

\* The registry's rejection makes the planner's overlap exception unreachable.
NoOverlapError == plan.outcome # "MappingOverlap"

MappedRanges == {s.mapping.range : s \in plan.segments}

\* A plan outlives additions to the registry and stays grounded in it: every
\* planned segment is what the registry, as it is now, resolves for the query,
\* and the unmapped ranges are the rest.
PlanGrounded ==
  /\ \A s \in plan.segments :
       /\ query.event # {}
       /\ s.mapping \in Resolve(query.instrument, ProviderName, query.venue, EventRange(query))
       /\ s.fetch = FetchRange(query, s.mapping.range)
       /\ FetchRangeError(query, s.mapping.range) = "none"
  /\ plan.outcome = "planned" =>
       query.event # {} /\ plan.unmapped = Gaps(EventRange(query), MappedRanges)
  /\ plan.outcome # "planned" => plan.segments = {} /\ plan.unmapped = {}

\* The invariant of registry and planner together, whatever is added and
\* planned in whatever order; the proofs of the other properties rest on it.
PlannerInv == TypeOK /\ SameScopeDisjoint /\ NoOverlapError /\ PlanGrounded

\* The segments and the unmapped ranges partition the requested event range:
\* nothing is forgotten, nothing outside the request is fetched, and no instant
\* is both asked for and reported missing.
PlanPartitionsTheRequest ==
  /\ plan.outcome = "planned" =>
       InstantsOf(MappedRanges) \union InstantsOf(plan.unmapped) = Instants(EventRange(query))
  /\ InstantsOf(MappedRanges) \intersect InstantsOf(plan.unmapped) = {}

\* The order of the segments does not depend on the order in which mappings
\* were added, nor on the sort: no two segments compare equal.
PlanOrderIsTotal ==
  \A s, t \in plan.segments :
    s # t => MappingLess(s.mapping, t.mapping) \/ MappingLess(t.mapping, s.mapping)

\* A record that reached the source within the margin of its event time is in
\* the range the provider is asked for: deriving the fetch range loses nothing
\* the post-fetch filter would keep.
FetchCoversTheMargin ==
  \A s \in plan.segments : query.receive = {} =>
    \A t \in Instants(s.mapping.range) :
      \A lag \in -query.margin.before..query.margin.after : Contains(s.fetch, t + lag)

\* Which streams a segment accepts: header_matches_request in the ingestor.
Accepts(s, venue, source, time) ==
  /\ query.venue # None => venue = query.venue
  /\ s.mapping.venue # None => venue = s.mapping.venue
  /\ s.mapping.source # None => source = s.mapping.source
  /\ Contains(s.mapping.range, time)

\* One event is accepted from two provider calls only when the two mappings
\* leave different parts of their scope open (a venue- or source-less mapping
\* beside a scoped one, which the registry accepts as another scope).
AcceptedOncePerShape ==
  \A s, t \in plan.segments :
    /\ s # t
    /\ (s.mapping.venue = None) = (t.mapping.venue = None)
    /\ (s.mapping.source = None) = (t.mapping.source = None)
    => ~\E v \in Venues, o \in Sources, time \in Timestamp :
          Accepts(s, v, o, time) /\ Accepts(t, v, o, time)

\* Planning a query again, after mappings were added, keeps every segment of
\* the earlier plan: what explain() showed is still what ingest() fetches, or
\* part of it.
ReplanExtends ==
  [][/\ plan.outcome = "planned" /\ plan'.outcome = "planned" /\ query' = query
     => plan.segments \subseteq plan'.segments]_vars

\* "Strict fetch policy fails before provider execution when that explicit range
\* is absent" (docs/architecture/phase1-query-planning-and-usability.md).
StrictPolicyFails ==
  plan.outcome = "planned" => ~(query.policy = "explicit" /\ query.receive = {})
=============================================================================
