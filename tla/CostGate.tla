------------------------------ MODULE CostGate ------------------------------
(***************************************************************************)
(* The program integration/databento/smoke.cpp: it asks the provider what  *)
(* a range of records would cost, tries one minute of it when that is too  *)
(* much, refuses when even that is, and then ingests the range through a   *)
(* registry with one mapping.  The planner, QueryPlanner's, decides which  *)
(* range is in fact fetched, as DatabentoProvider fetches a segment.       *)
(*                                                                         *)
(* The cost is a double of the client, NaN and infinity among its values;  *)
(* the client may throw at every call.                                     *)
(***************************************************************************)
EXTENDS QueryPlanner, Sequences

CONSTANTS OneMinute,               \* one_minute_nanos
          Target, HardCeiling,     \* target_cost_usd, hard_cost_ceiling_usd
          Infinity, Costs,         \* infinity, and the costs the client names
          Requests                 \* ranges the program is called with

\* Not a number: no comparison with it is true.
NaN == -1

ASSUME CostAssumption ==
  /\ OneMinute \in 1..MaxTime
  /\ Target \in Nat /\ HardCeiling \in Nat /\ Infinity \in Nat
  /\ Target < HardCeiling /\ HardCeiling < Infinity
  /\ Costs \subseteq (0..Infinity) \cup {NaN}
  /\ Requests \subseteq TimeRange
  /\ ProviderName = "databento"  \* the default of DatabentoProvider's constructor

VARIABLES requested,    \* requested_range
          cost,         \* estimated_cost_usd
          phase,        \* "off", "estimate", "compare", "again", "gate", "plan", "fetch",
                        \* "done", "failed"
          calls         \* auxiliary: what the client was asked for, in order

gateVars == <<requested, cost, phase, calls>>

QueryOf(range) ==
  [instrument |-> 1, venue |-> 1, event |-> {range}, receive |-> {}, policy |-> "derive",
   margin |-> [before |-> 0, after |-> 0]]

\* resolve_provider_range(): unix_nanos() throws before the epoch.
ProviderRange(q) ==
  LET range == CHOOSE r \in q.event : TRUE
  IN  {FetchRange(q, r) : r \in {r \in {range} : FetchRangeError(q, r) = "none"}}
        \intersect [start : 0..MaxTime, end : 0..MaxTime]

IsFinite(c) == c \notin {NaN, Infinity}

-----------------------------------------------------------------------------
GateInit ==
  /\ requested = [start |-> MinTime, end |-> MaxTime]
  /\ cost = NaN
  /\ phase = "off"
  /\ calls = <<>>

\* main(): its own registry is empty and nothing is planned.
Main(range) ==
  /\ phase = "off"
  /\ mappings = {} /\ plan = Failed("none")
  /\ requested' = range
  /\ query' = QueryOf(range)
  /\ phase' = "estimate"
  /\ UNCHANGED <<mappings, plan, cost, calls>>

Fail ==
  /\ phase' = "failed"
  /\ UNCHANGED <<mappings, requested, cost, query, plan, calls>>

\* The client throws, or the constructor of an argument does.
ClientFails ==
  /\ phase \in {"estimate", "again", "fetch"}
  /\ Fail

\* estimate_cost(), the first time and the second.
EstimateCost(c) ==
  /\ phase \in {"estimate", "again"}
  /\ \E range \in ProviderRange(QueryOf(requested)) :
       calls' = Append(calls, [call |-> "MetadataGetCost", range |-> range, cost |-> c])
  /\ cost' = c
  /\ phase' = IF phase = "estimate" THEN "compare" ELSE "gate"
  /\ UNCHANGED <<mappings, requested, query, plan>>

OneMinuteEnd == requested.start + OneMinute

CanReduce ==
  /\ ~(requested.start > MaxTime - OneMinute)
  /\ ~(OneMinuteEnd >= requested.end)

\* reduce_to_one_minute(), when the first estimate is above the target.
ReduceToOneMinute ==
  /\ phase = "compare" /\ cost > Target
  /\ CanReduce
  /\ requested' = [requested EXCEPT !.end = OneMinuteEnd]
  /\ phase' = "again"
  /\ UNCHANGED <<mappings, cost, query, plan, calls>>

CannotReduce ==
  /\ phase = "compare" /\ cost > Target
  /\ ~CanReduce
  /\ Fail

KeepRange ==
  /\ phase = "compare" /\ ~(cost > Target)
  /\ phase' = "gate"
  /\ UNCHANGED <<mappings, requested, cost, query, plan, calls>>

MutRefuses == cost > HardCeiling \/ cost > Target

\* The two refusals of the gate: NaN is above neither limit.
Refuses ==
  \/ ~IsFinite(cost) \/ cost > HardCeiling
  \/ cost > Target

Refuse ==
  /\ phase = "gate" /\ Refuses
  /\ Fail

\* The gate opens: the query and its only mapping are made of the same range.
PassGate ==
  /\ phase = "gate" /\ ~Refuses
  /\ query' = QueryOf(requested)
  /\ Add([instrument |-> 1, provider |-> "databento", venue |-> 1, source |-> 1,
          provider_id |-> 1, range |-> requested])
  /\ phase' = "plan"
  /\ UNCHANGED <<requested, cost, plan, calls>>

\* ingest(): the plan over that registry and NoopCache.
PlanIt ==
  /\ phase = "plan"
  /\ Plan(query, "miss")
  /\ phase' = IF plan'.outcome = "planned" THEN "fetch" ELSE "failed"
  /\ UNCHANGED <<requested, cost, calls>>

\* DatabentoProvider::fetch of the segments of the plan, in any order.
Fetched == {c.range : c \in {calls[i] : i \in DOMAIN calls} \intersect
                            [call : {"TimeseriesGetRange"}, range : TimeRange, cost : {NaN}]}

Fetch(s) ==
  /\ phase = "fetch" /\ s.fetch \notin Fetched
  /\ \E range \in ProviderRange([query EXCEPT !.event = {s.mapping.range}]) :
       calls' = Append(calls, [call |-> "TimeseriesGetRange", range |-> range, cost |-> NaN])
  /\ UNCHANGED <<mappings, requested, cost, phase, query, plan>>

Finish ==
  /\ phase = "fetch"
  /\ \A s \in plan.segments : s.fetch \in Fetched
  /\ phase' = "done"
  /\ UNCHANGED <<mappings, requested, cost, query, plan, calls>>

GateNext ==
  \/ \E range \in Requests : Main(range)
  \/ ClientFails \/ ReduceToOneMinute \/ CannotReduce \/ KeepRange
  \/ Refuse \/ PassGate \/ PlanIt \/ Finish
  \/ \E c \in Costs : EstimateCost(c)
  \/ \E s \in plan.segments : Fetch(s)

\* The callers of the planner: before this program starts, any other may have
\* added and planned; its own registry is empty (Main).
CallerInit == Init /\ GateInit

CallerNext ==
  \/ AddMapping /\ phase = "off" /\ UNCHANGED gateVars
  \/ \E q \in Queries, answer \in CacheAnswers :
       Plan(q, answer) /\ phase = "off" /\ UNCHANGED gateVars
  \/ GateNext

CallerSpec == CallerInit /\ [][CallerNext]_<<vars, gateVars>>

-----------------------------------------------------------------------------
\* Records are paid for only as estimated: they are fetched at most once, after
\* the estimates, for exactly the range of the last one, and that one is a
\* number not above the target.  A program that ends well has fetched them.
FetchedAsEstimated ==
  /\ \A i \in DOMAIN calls : calls[i].call = "TimeseriesGetRange" =>
       /\ i = Len(calls) /\ i > 1
       /\ calls[i - 1].call = "MetadataGetCost"
       /\ calls[i - 1].range = calls[i].range
       /\ calls[i - 1].cost \in 0..Target
  /\ phase = "done" => Fetched = {requested}
=============================================================================
