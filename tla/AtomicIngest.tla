---------------------------- MODULE AtomicIngest ---------------------------
(***************************************************************************)
(* What ingest() promises its caller: it throws and leaves nothing, or it  *)
(* returns, in one step, a result that depends on nothing but the plan and *)
(* on what the provider answered to each planned segment.  Nothing of the  *)
(* order of the loop, of its accumulators or of the moment of a call shows *)
(* in it.  Ingestor implements this (IngestorRefinement).                  *)
(***************************************************************************)
EXTENDS ProviderResponse

CONSTANTS Queries, ProviderName, CacheAnswers, Registries, Responses  \* as in Ingestor

VARIABLES query, plan,  \* the query, and the plan made for it
          status,       \* "asked", "returned", "failed"
          answers,      \* what the provider answered, by planned segment
          result        \* IngestionResult

Planner == INSTANCE QueryPlanner

vars == <<mappings, query, plan, status, answers, result>>

Nothing == <<>>

\* The segments in the order of the plan.
InPlanOrder(segments) ==
  CHOOSE order \in [1..Cardinality(segments) -> segments] :
    \A i, j \in DOMAIN order : i < j => MappingLess(order[i].mapping, order[j].mapping)

\* Sequences one after the other.
Joined(parts) ==
  LET upTo[n \in 0..Len(parts)] == IF n = 0 THEN <<>> ELSE upTo[n - 1] \o parts[n]
  IN  upTo[Len(parts)]

\* The items of a kind that pass the filters and validation, one answer after
\* the other.
Taken(p, by, kind) ==
  LET order == InPlanOrder(p.segments)
  IN  Joined([i \in DOMAIN order |-> Kept(query, order[i].mapping, by[order[i]], kind)])

\* Each stream has its own buffer with its own events; there is no empty one.
Buffers(events) ==
  [s \in {ScopeOf(e) : e \in Elements(events)} |->
     Select(events, {e \in Elements(events) : ScopeOf(e) = s})]

Evidence(p, by) ==
  {[range |-> r, kind |-> "Missing", scope |-> NoScope] : r \in p.unmapped} \union
  UNION {EvidenceOf(query, s.mapping, by[s]) : s \in p.segments}

StateSegments(p, by) ==
  Quality!StateSegments(Planner!EventRange(query), Evidence(p, by),
                        UNION {ExpectedScopes(query, s.mapping, by[s]) : s \in p.segments})

Outcome(segments) ==
  [segments |-> segments, state |-> Quality!Summarize(segments),
   coverage |-> {s \in segments : Quality!IsUsable(s.state)},
   unresolved |-> {s \in segments : ~Quality!IsUsable(s.state)}]

ResultOf(p, by) ==
  << Buffers(Taken(p, by, "mbo")),
     [k \in Kinds \ {"mbo"} |-> Taken(p, by, k)],
     Evidence(p, by),
     UNION {SourcesOf(query, s.mapping, by[s]) : s \in p.segments},
     UNION {ArtifactsOf(s.mapping, by[s]) : s \in p.segments},
     Outcome(StateSegments(p, by)) >>

-----------------------------------------------------------------------------
Init ==
  /\ mappings \in Registries
  /\ query \in Queries
  /\ plan = Planner!Failed("none")
  /\ status = "asked"
  /\ answers = Nothing
  /\ result = Nothing

\* The plan cannot be made, the provider throws, or it breaks its contract.
Throw ==
  /\ status = "asked"
  /\ status' = "failed"
  /\ \E answer \in CacheAnswers : plan' = Planner!PlanFor(query, answer)
  /\ UNCHANGED <<mappings, query, answers, result>>

Return ==
  /\ status = "asked"
  /\ status' = "returned"
  /\ \E answer \in CacheAnswers : plan' = Planner!PlanFor(query, answer)
  /\ plan'.outcome = "planned"
  /\ answers' \in [plan'.segments -> Responses]
  /\ \A s \in plan'.segments : ~Rejects(query, s.mapping, answers'[s])
  /\ result' = ResultOf(plan', answers')
  /\ UNCHANGED <<mappings, query>>

Next == Throw \/ Return

Spec == Init /\ [][Next]_vars
=============================================================================
