--------------------------- MODULE StateReducer ---------------------------
(***************************************************************************)
(* DataStateReducer::reduce and the two lookup_data_state functions        *)
(* (quant/ingestion/quality.hpp).  The reducer visits the scopes in order, *)
(* cuts the request at the ends of a scope's evidence, and merges adjacent *)
(* intervals of one state into the last segment.  Scopes are numbered in   *)
(* the order stream_scope_less gives them, with NoScope first.             *)
(***************************************************************************)
EXTENDS DataQuality, Sequences

CONSTANTS Requests,        \* the requested ranges of a run
          ObservationSets, \* the evidence it passes
          ExpectedSets     \* the scopes it expects

ASSUME ReducerAssumption ==
  /\ Scope \union {NoScope} \subseteq Nat
  /\ \A s \in Scope : NoScope < s
  /\ Requests \subseteq TimeRange
  /\ ObservationSets \subseteq SUBSET QualityObservation
  /\ ExpectedSets \subseteq SUBSET (Scope \union {NoScope})

VARIABLES requested, observations, expected,  \* the arguments
          scopes,      \* scopes not yet visited
          scope,       \* the scope being cut into intervals
          previous,    \* boundaries[index - 1]
          boundaries,  \* the boundaries after it
          segments,    \* the result
          pc           \* "scopes", "intervals", "done"

args == <<requested, observations, expected>>
vars == <<args, scopes, scope, previous, boundaries, segments, pc>>

\* The ends of the evidence of a scope, clipped to the request, after its start.
MutBoundariesOf(s) ==
  ({requested.end} \union
     UNION {{r.start} : r \in UNION {Intersection(requested, o.range) :
                                     o \in {o \in observations : o.scope = s}}})
    \ {requested.start}

BoundariesOf(s) ==
  ({requested.end} \union
     UNION {{r.start, r.end} : r \in UNION {Intersection(requested, o.range) :
                                            o \in {o \in observations : o.scope = s}}})
    \ {requested.start}

Init ==
  /\ requested \in Requests
  /\ observations \in ObservationSets
  /\ expected \in ExpectedSets
  /\ scopes = ScopesOf(requested, observations, expected)
  /\ scope = NoScope
  /\ previous = requested.start
  /\ boundaries = {}
  /\ segments = <<>>
  /\ pc = "scopes"

MutTakeScope(s) ==
  /\ pc = "scopes"
  /\ s \in scopes
  /\ scope' = s
  /\ scopes' = scopes \ {s}
  /\ previous' = requested.start
  /\ boundaries' = BoundariesOf(s)
  /\ pc' = "intervals"
  /\ UNCHANGED <<args, segments>>

TakeScope(s) ==
  /\ pc = "scopes"
  /\ \A t \in scopes : s <= t
  /\ scope' = s
  /\ scopes' = scopes \ {s}
  /\ previous' = requested.start
  /\ boundaries' = BoundariesOf(s)
  /\ pc' = "intervals"
  /\ UNCHANGED <<args, segments>>

\* Does the interval that starts at previous continue the last segment?
MutContinuesAnyState(state) ==
  /\ segments # <<>>
  /\ segments[Len(segments)].scope = scope
  /\ segments[Len(segments)].range.end = previous

Continues(state) ==
  /\ segments # <<>>
  /\ segments[Len(segments)].scope = scope
  /\ segments[Len(segments)].state = state
  /\ segments[Len(segments)].range.end = previous

TakeInterval(end) ==
  LET interval == [start |-> previous, end |-> end]
      state    == ReduceInterval(interval, scope, observations)
  IN  /\ pc = "intervals"
      /\ \A b \in boundaries : end <= b
      /\ segments' = IF Continues(state)
                     THEN [segments EXCEPT ![Len(segments)].range.end = end]
                     ELSE Append(segments, [range |-> interval, state |-> state, scope |-> scope])
      /\ previous' = end
      /\ boundaries' = boundaries \ {end}
      /\ UNCHANGED <<args, scopes, scope, pc>>

ScopeDone ==
  /\ pc = "intervals"
  /\ boundaries = {}
  /\ pc' = "scopes"
  /\ UNCHANGED <<args, scopes, scope, previous, boundaries, segments>>

Return ==
  /\ pc = "scopes"
  /\ scopes = {}
  /\ pc' = "done"
  /\ UNCHANGED <<args, scopes, scope, previous, boundaries, segments>>

Next ==
  \/ \E s \in scopes : TakeScope(s)
  \/ \E end \in boundaries : TakeInterval(end)
  \/ ScopeDone
  \/ Return

\* The reducer is a plain loop: it runs until it returns.
Spec == Init /\ [][Next]_vars

-----------------------------------------------------------------------------
\* std::lower_bound and std::upper_bound over the half-open index range
\* [low, high): the first index at which the predicate no longer holds.  They
\* find it by bisection, so the predicate must not hold again after it.
PartitionPoint(low, high, holds) ==
  CHOOSE i \in low..high : /\ i = high \/ ~holds[i]
                           /\ \A j \in low..(i - 1) : holds[j]

\* The segments of a scope: [FirstOf, LastOf).
FirstOf(s) ==
  PartitionPoint(1, Len(segments) + 1, [i \in DOMAIN segments |-> segments[i].scope < s])

LastOf(s) ==
  PartitionPoint(FirstOf(s), Len(segments) + 1, [i \in DOMAIN segments |-> ~(s < segments[i].scope)])

\* lookup_data_state(segments, scope, time): a set with at most one segment.
MutPointLookup(s, time) ==
  LET first     == FirstOf(s)
      candidate == PartitionPoint(first, LastOf(s),
                     [i \in DOMAIN segments |-> ~(time < segments[i].range.start)])
  IN  IF candidate = first THEN {} ELSE {segments[candidate - 1]}

PointLookup(s, time) ==
  LET first     == FirstOf(s)
      candidate == PartitionPoint(first, LastOf(s),
                     [i \in DOMAIN segments |-> ~(time < segments[i].range.start)])
  IN  IF candidate = first THEN {}
      ELSE {g \in {segments[candidate - 1]} : Contains(g.range, time)}

\* lookup_data_state(segments, scope, range): the clipped segments, from the
\* first that ends after the range starts to the last that starts before it ends.
MutRangeLookup(s, range) ==
  LET first == FirstOf(s)
      last  == LastOf(s)
      found == PartitionPoint(first, last,
                 [i \in DOMAIN segments |-> segments[i].range.start < range.start])
  IN  UNION {{[segments[i] EXCEPT !.range = r] : r \in Intersection(range, segments[i].range)} :
             i \in {i \in found..(last - 1) : segments[i].range.start < range.end}}

RangeLookup(s, range) ==
  LET first == FirstOf(s)
      last  == LastOf(s)
      found == PartitionPoint(first, last,
                 [i \in DOMAIN segments |-> segments[i].range.end <= range.start])
      from  == IF found # first /\ segments[found - 1].range.end > range.start
               THEN found - 1 ELSE found
  IN  UNION {{[segments[i] EXCEPT !.range = r] : r \in Intersection(range, segments[i].range)} :
             i \in {i \in from..(last - 1) : segments[i].range.start < range.end}}

-----------------------------------------------------------------------------
Segments == {segments[i] : i \in DOMAIN segments}

\* Every interval satisfies the TimeRange constructor, which throws otherwise,
\* and every local keeps its type.
TypeOK ==
  /\ requested \in TimeRange
  /\ observations \subseteq QualityObservation
  /\ expected \subseteq Scope \union {NoScope}
  /\ scopes \subseteq Scope \union {NoScope}
  /\ scope \in Scope \union {NoScope}
  /\ previous \in Timestamp
  /\ boundaries \subseteq Timestamp
  /\ segments \in Seq(DataStateSegment)
  /\ pc \in {"scopes", "intervals", "done"}

\* The binary searches of the lookups need this order: by scope, then by time,
\* non-overlapping within a scope.
SegmentsOrdered ==
  \A i, j \in DOMAIN segments : i < j =>
    \/ segments[i].scope < segments[j].scope
    \/ /\ segments[i].scope = segments[j].scope
       /\ segments[i].range.end <= segments[j].range.start

\* What holds at every step of reduce(): the types of its locals, and the order
\* of what it has emitted so far.
ReducerInv == TypeOK /\ SegmentsOrdered

\* The result is exactly the maximal ranges of constant worst evidence: no
\* instant of a scope is left out, none is in two segments, and evidence that
\* covers part of a range never colours the rest of it.
ReturnsTheStateSegments ==
  pc = "done" => Segments = StateSegments(requested, observations, expected)

\* The lookups find by bisection what a scan of the segments would: a point
\* lookup the segment that contains the instant, and none when the scope or the
\* instant has none; a range lookup every segment of the scope that meets the
\* range, clipped to it.
LookupsFind ==
  pc = "done" =>
    \A s \in Scope \union {NoScope} :
      /\ \A t \in Timestamp :
           PointLookup(s, t) = {g \in Segments : g.scope = s /\ Contains(g.range, t)}
      /\ \A r \in TimeRange :
           RangeLookup(s, r) =
             UNION {{[g EXCEPT !.range = c] : c \in Intersection(r, g.range)} :
                    g \in {g \in Segments : g.scope = s}}

\* "pending -> Unknown" and "Record/channel flags may worsen the result"
\* (docs/architecture/phase1-databento-first-integration.md): data that is not
\* available yet does not become usable by evidence of a gap in it.
PendingIsNotUsable ==
  pc = "done" =>
    \A g \in Segments, o \in observations :
      /\ o.kind = "Pending" /\ o.scope = g.scope /\ Overlaps(o.range, g.range)
      /\ \A p \in observations : p.kind \in {"Pending", "SequenceGap"}
      => ~IsUsable(g.state)
=============================================================================
