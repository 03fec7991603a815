---------------------------- MODULE DataQuality ---------------------------
(***************************************************************************)
(* Quality evidence and data state (quant/ingestion/quality.hpp): how the  *)
(* observations of a stream scope reduce to one state per instant.  A      *)
(* scope is (instrument, venue, source) or NoScope (std::nullopt).         *)
(***************************************************************************)
EXTENDS TimeRanges

CONSTANTS Scope,   \* the stream scopes
          NoScope  \* evidence and state that belong to no stream

ASSUME ScopeAssumption == NoScope \notin Scope

QualityKind == {"Complete", "Degraded", "Pending", "Missing", "Corrupt", "SequenceGap"}
DataState == {"Unknown", "Complete", "Degraded", "Missing", "Corrupt"}

QualityObservation ==
  [range : TimeRange, kind : QualityKind, scope : Scope \union {NoScope}]

DataStateSegment ==
  [range : TimeRange, state : DataState, scope : Scope \union {NoScope}]

StateForQuality(kind) ==
  CASE kind \in {"Degraded", "SequenceGap"} -> "Degraded"
    [] kind = "Pending" -> "Unknown"
    [] OTHER -> kind

\* state_severity(): the order in which evidence of one scope wins.
Severity == [Unknown |-> 0, Complete |-> 1, Degraded |-> 2, Missing |-> 3, Corrupt |-> 4]

\* The candidates a scan of the observations compares; Unknown is its start.
Worst(states) ==
  CHOOSE s \in states \union {"Unknown"} :
    \A t \in states : Severity[t] <= Severity[s]

\* reduce_interval(): evidence counts when it contains the whole interval.
ReduceInterval(interval, scope, observations) ==
  Worst({StateForQuality(o.kind) :
           o \in {o \in observations : /\ o.scope = scope
                                       /\ o.range.start <= interval.start
                                       /\ interval.end <= o.range.end}})

\* The scopes that get segments: the expected ones and those with evidence in
\* the request; the unscoped one when there is no other.
ScopesOf(requested, observations, expected) ==
  LET scopes == expected \union
                  {o.scope : o \in {o \in observations : Overlaps(requested, o.range)}}
  IN  IF scopes = {} THEN {NoScope} ELSE scopes

\* DefaultDataUsabilityPolicy
IsUsable(state) == state \in {"Complete", "Degraded"}

\* summarize_data_state() ranks the states of segments another way: there an
\* Unknown segment weighs more than a Complete one.
SummarySeverity ==
  [Complete |-> 1, Unknown |-> 2, Degraded |-> 3, Missing |-> 4, Corrupt |-> 5]

Summarize(segments) ==
  IF segments = {} THEN "Unknown"
  ELSE CHOOSE state \in {s.state : s \in segments} :
         \A s \in segments : SummarySeverity[s.state] <= SummarySeverity[state]

-----------------------------------------------------------------------------
\* What reduce() promises, instant by instant: the worst evidence there, and
\* per scope the maximal ranges over which it does not change.
StateAt(time, scope, observations) ==
  Worst({StateForQuality(o.kind) :
           o \in {o \in observations : o.scope = scope /\ Contains(o.range, time)}})

\* A range of the request over which a function of time is constant, and which
\* no wider one contains.
MaximalRun(range, value) ==
  LET here == value[range.start]
  IN  /\ \A t \in Instants(range) : t \in DOMAIN value /\ value[t] = here
      /\ \A t \in {range.start - 1, range.end} : t \in DOMAIN value => value[t] # here

SegmentsOfScope(requested, scope, observations) ==
  LET state == [t \in Instants(requested) |-> StateAt(t, scope, observations)]
  IN  {[range |-> r, state |-> state[r.start], scope |-> scope] :
         r \in {r \in TimeRange : r.start \in DOMAIN state /\ MaximalRun(r, state)}}

StateSegments(requested, observations, expected) ==
  UNION {SegmentsOfScope(requested, s, observations) :
           s \in ScopesOf(requested, observations, expected)}
=============================================================================
