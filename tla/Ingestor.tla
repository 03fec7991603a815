----------------------------- MODULE Ingestor -----------------------------
(***************************************************************************)
(* SynchronousIngestor::ingest (quant/ingestion/synchronous_ingestor.hpp): *)
(* one call, from the plan to the result.  It composes the planner, which  *)
(* it asks for the plan, the provider port, which answers each segment or  *)
(* throws, and the reducer, which turns the collected evidence into state. *)
(*                                                                         *)
(* ingest() builds its result in locals, so an exception anywhere discards *)
(* all of it: Fail.  Only L3 queries are modelled; the others throw before *)
(* anything happens.  The recovery policy (recovery.hpp) is asked for a    *)
(* plan that the code drops, so it changes nothing here.                   *)
(***************************************************************************)
EXTENDS ProviderResponse

CONSTANTS Queries, ProviderName, CacheAnswers,  \* of the planner
          Registries,  \* contents of the registry ingest() may find
          Responses    \* what the provider may answer to a call

VARIABLES query, plan,  \* of the planner: explain() returns the same plan
          phase,        \* "idle", "fetching", "done", "failed"
          todo,         \* planned segments not yet fetched
          calls,        \* auxiliary: the provider calls and their answers, in order
          quality,      \* quality_observations
          expected,     \* expected_scopes
          buffers,      \* mbo_buffers: one sequence per stream scope
          kept,         \* provider_records, trades, order_executions
          sources,      \* source_ids
          artifacts,    \* source_artifacts
          outcome       \* the state part of IngestionMetadata

Planner == INSTANCE QueryPlanner

ASSUME IngestorAssumption ==
  /\ Queries \subseteq Planner!Query
  /\ ProviderName \in Providers
  /\ CacheAnswers \subseteq {"miss", "other"}
  /\ \A r \in Responses : ResponseShape(r)
  /\ \A registry \in Registries :
       /\ registry \subseteq Mapping
       /\ \A m, n \in registry : m # n /\ SameScope(m, n) => ~Overlaps(m.range, n.range)

\* What IngestionResult is made of.
result == <<buffers, kept, quality, sources, artifacts, outcome>>

locals == <<todo, calls, expected, buffers, kept, quality, sources, artifacts>>
vars == <<mappings, query, plan, phase, outcome, locals>>

NothingKept == [k \in Kinds \ {"mbo"} |-> <<>>]

NoOutcome == [segments |-> {}, state |-> "Unknown", coverage |-> {}, unresolved |-> {}]

-----------------------------------------------------------------------------
\* append_event(): each valid event goes to the end of the buffer of its own
\* stream, which is made when its first event arrives.
MutAppendEvents(events) ==
  LET old(s) == IF s \in DOMAIN buffers THEN buffers[s] ELSE <<>>
  IN  [s \in DOMAIN buffers \union {ScopeOf(e) : e \in Elements(events)} |->
         Select(events, {e \in Elements(events) : ScopeOf(e) = s}) \o old(s)]

AppendEvents(events) ==
  LET old(s) == IF s \in DOMAIN buffers THEN buffers[s] ELSE <<>>
  IN  [s \in DOMAIN buffers \union {ScopeOf(e) : e \in Elements(events)} |->
         old(s) \o Select(events, {e \in Elements(events) : ScopeOf(e) = s})]

-----------------------------------------------------------------------------
Init ==
  /\ mappings \in Registries
  /\ query \in Queries
  /\ plan = Planner!Failed("none")
  /\ phase = "idle"
  /\ outcome = NoOutcome
  /\ todo = {} /\ calls = <<>> /\ expected = {}
  /\ buffers = <<>> /\ kept = NothingKept
  /\ quality = {} /\ sources = {} /\ artifacts = {}

\* An exception leaves ingest(): nothing of it remains.
Fail ==
  /\ phase' = "failed"
  /\ todo' = {} /\ calls' = <<>> /\ expected' = {}
  /\ buffers' = <<>> /\ kept' = NothingKept
  /\ quality' = {} /\ sources' = {} /\ artifacts' = {}
  /\ UNCHANGED <<mappings, query, outcome>>

\* The call: plan, then start with the unmapped ranges as missing data that
\* belongs to no stream.
Begin(answer) ==
  /\ phase = "idle"
  /\ plan' = Planner!PlanFor(query, answer)
  /\ \/ plan'.outcome # "planned" /\ Fail
     \/ /\ plan'.outcome = "planned"
        /\ phase' = "fetching"
        /\ todo' = plan'.segments
        /\ quality' = {[range |-> r, kind |-> "Missing", scope |-> NoScope] : r \in plan'.unmapped}
        /\ UNCHANGED <<mappings, query, outcome, calls, expected, buffers, kept, sources, artifacts>>

\* The segment the loop over the plan reaches next.
IsNext(segment) ==
  \A s \in todo \ {segment} : Planner!MappingLess(segment.mapping, s.mapping)

\* provider_.fetch() throws: not market-data knowledge.
MutFetchThrows(segment) ==
  /\ phase = "fetching"
  /\ IsNext(segment)
  /\ todo' = todo \ {segment}
  /\ UNCHANGED <<mappings, query, plan, phase, outcome, calls, quality, expected, buffers, kept,
                 sources, artifacts>>

FetchThrows(segment) ==
  /\ phase = "fetching"
  /\ IsNext(segment)
  /\ Fail
  /\ UNCHANGED plan

\* The provider answers and the answer breaks the port's contract.
FetchRejected(segment, response) ==
  /\ phase = "fetching"
  /\ IsNext(segment)
  /\ Rejects(query, segment.mapping, response)
  /\ Fail
  /\ UNCHANGED plan

\* The provider answers: the whole body of the loop over the plan segments.
FetchAccepted(segment, response) ==
  LET m == segment.mapping
  IN  /\ phase = "fetching"
      /\ IsNext(segment)
      /\ ~Rejects(query, m, response)
      /\ todo' = todo \ {segment}
      /\ calls' = Append(calls, [segment |-> segment, response |-> response])
      /\ quality' = quality \union EvidenceOf(query, m, response)
      /\ expected' = expected \union ExpectedScopes(query, m, response)
      /\ buffers' = AppendEvents(Kept(query, m, response, "mbo"))
      /\ kept' = [k \in DOMAIN kept |-> kept[k] \o Kept(query, m, response, k)]
      /\ sources' = sources \union SourcesOf(query, m, response)
      /\ artifacts' = artifacts \union ArtifactsOf(m, response)
      /\ UNCHANGED <<mappings, query, plan, phase, outcome>>

\* Reduce, summarise, classify and return.
MutFinish ==
  /\ phase = "fetching"
  /\ todo = {}
  /\ LET segments == Quality!StateSegments(Planner!EventRange(query), quality, {})
         coverage == {s \in segments : Quality!IsUsable(s.state)}
     IN  outcome' = [segments |-> segments, state |-> Quality!Summarize(segments),
                     coverage |-> coverage, unresolved |-> segments \ coverage]
  /\ phase' = "done"
  /\ UNCHANGED <<mappings, query, plan, locals>>

Finish ==
  /\ phase = "fetching"
  /\ todo = {}
  /\ LET segments == Quality!StateSegments(Planner!EventRange(query), quality, expected)
         coverage == {s \in segments : Quality!IsUsable(s.state)}
     IN  outcome' = [segments |-> segments, state |-> Quality!Summarize(segments),
                     coverage |-> coverage, unresolved |-> segments \ coverage]
  /\ phase' = "done"
  /\ UNCHANGED <<mappings, query, plan, locals>>

Next ==
  \/ \E answer \in CacheAnswers : Begin(answer)
  \/ \E segment \in todo : FetchThrows(segment)
  \/ \E segment \in todo, response \in Responses : FetchRejected(segment, response)
  \/ \E segment \in todo, response \in Responses : FetchAccepted(segment, response)
  \/ Finish

Spec == Init /\ [][Next]_vars
-----------------------------------------------------------------------------
TypeOK ==
  /\ mappings \in Registries
  /\ query \in Queries
  /\ phase \in {"idle", "fetching", "done", "failed"}
  /\ todo \subseteq plan.segments
  /\ calls \in Seq([segment : plan.segments, response : Responses])
  /\ quality \subseteq Quality!QualityObservation
  /\ expected \subseteq (Venues \X Sources) \union {NoScope}
  /\ DOMAIN buffers \subseteq Venues \X Sources
  /\ \A s \in DOMAIN buffers : buffers[s] \in Seq(Item)
  /\ kept \in [Kinds \ {"mbo"} -> Seq(Item)]
  /\ sources \subseteq Sources
  /\ artifacts \subseteq TimeRange
  /\ outcome.segments \subseteq Quality!DataStateSegment
  /\ outcome.state \in Quality!DataState

\* Everything the result carries of the provider's records.
ResultItems ==
  UNION ({Elements(buffers[s]) : s \in DOMAIN buffers} \union
         {Elements(kept[k]) : k \in DOMAIN kept})

\* What the result carries was asked for: some segment of the plan maps the
\* stream of the record at its event time.  A fetch range wider than the
\* request (the margin) brings no record outside it.
ResultIsMapped ==
  \A item \in ResultItems :
    \E s \in plan.segments :
      Planner!Accepts(s, item.venue, item.source, item.time)

\* The calls made so far are the first segments of the plan in its order, and a
\* result exists only when every planned segment was fetched: the result is
\* all of the plan or nothing ("Provider calls follow the same planned segment
\* order shown by explain").
CallsFollowThePlan ==
  /\ \A i, j \in DOMAIN calls : i < j =>
       Planner!MappingLess(calls[i].segment.mapping, calls[j].segment.mapping)
  /\ \A i \in DOMAIN calls, s \in todo : Planner!MappingLess(calls[i].segment.mapping, s.mapping)
  /\ phase \in {"fetching", "done"} =>
       plan.segments = todo \union {calls[i].segment : i \in DOMAIN calls}
  /\ phase = "done" => todo = {}

\* What holds at every step of ingest(), an exception included: the types of its
\* locals, the calls so far as a prefix of the plan that is the whole plan when
\* a result is returned, and records that the plan maps.
IngestInv == TypeOK /\ CallsFollowThePlan /\ ResultIsMapped

\* Every record in the result has a state at its event time in its own stream,
\* a lookup never comes back empty for data that was returned, and its source
\* is listed.
ResultHasState ==
  phase = "done" =>
    \A item \in ResultItems :
      /\ item.source \in sources
      /\ \E g \in outcome.segments : g.scope = ScopeOf(item) /\ Contains(g.range, item.time)

\* A stream that lost a record to validation is corrupt wherever that record
\* may have been, and never counted as coverage there.
InvalidIsCorrupt ==
  phase = "done" =>
    \A i \in DOMAIN calls : \A g \in outcome.segments :
      LET m == calls[i].segment.mapping
      IN  g.scope \in InvalidScopes(query, m, calls[i].response) /\ Overlaps(g.range, m.range)
            => g.state = "Corrupt" /\ g \notin outcome.coverage

\* "Event presence is not coverage evidence" (iteration-close, section 1): what
\* is counted as covered was vouched for by the provider at every instant, for
\* that stream or for no stream in particular, in the answer to a segment that
\* maps the instant.  A Complete summary hides nothing that is not covered.
CoverageHasEvidence ==
  /\ \A g \in outcome.coverage : \A t \in Instants(g.range) :
       \E i \in DOMAIN calls :
         /\ Contains(calls[i].segment.mapping.range, t)
         /\ \E o \in calls[i].response.quality :
              /\ o.kind \in {"Complete", "Degraded", "SequenceGap"}
              /\ o.scope \in {NoScope, g.scope}
              /\ Contains(o.range, t)
  /\ phase = "done" /\ outcome.state = "Complete" => outcome.unresolved = {}
=============================================================================
