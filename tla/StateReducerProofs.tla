------------------------- MODULE StateReducerProofs -----------------------
(***************************************************************************)
(* reduce() returns exactly the state segments, and the lookups find in    *)
(* its result what a scan would, for every request, any evidence and any   *)
(* number of scopes.                                                       *)
(***************************************************************************)
EXTENDS StateReducer, TimeRangeProofs

USE DEF Timestamp

-----------------------------------------------------------------------------
\* The inductive invariant.  Scopes are visited in order, each from the start
\* of the request to its end; what was emitted is ordered, has the state of its
\* scope throughout, and covers what was visited; and two segments that meet
\* differ.
Visited(s, until) ==
  \A t \in Timestamp : requested.start <= t /\ t < until =>
    \E i \in DOMAIN segments : segments[i].scope = s /\ Contains(segments[i].range, t)

ScopesInOrder ==
  /\ scopes \subseteq ScopesOf(requested, observations, expected)
  /\ pc = "intervals" => scope \in ScopesOf(requested, observations, expected)
  /\ pc = "done" => scopes = {}
  /\ \A s \in scopes : /\ \A i \in DOMAIN segments : segments[i].scope < s
                       /\ pc = "intervals" => scope < s

ScopesCovered ==
  \A s \in ScopesOf(requested, observations, expected) :
    s \in scopes \/ (pc = "intervals" /\ s = scope) \/ Visited(s, requested.end)

\* While a scope is cut into intervals: where the cut stands.
CutInOrder ==
  pc = "intervals" =>
    /\ requested.start <= previous /\ previous <= requested.end
    /\ boundaries = {b \in BoundariesOf(scope) : previous < b}
    /\ Visited(scope, previous)
    /\ \A i \in DOMAIN segments :
         \/ segments[i].scope < scope
         \/ segments[i].scope = scope /\ segments[i].range.end <= previous

SegmentsHaveState ==
  \A i \in DOMAIN segments :
    /\ segments[i].scope \in ScopesOf(requested, observations, expected)
    /\ requested.start <= segments[i].range.start
    /\ segments[i].range.end <= requested.end
    /\ \A t \in Instants(segments[i].range) :
         StateAt(t, segments[i].scope, observations) = segments[i].state

NeighboursDiffer ==
  \A i, j \in DOMAIN segments :
    /\ i < j /\ segments[i].scope = segments[j].scope
    /\ segments[i].range.end = segments[j].range.start
    => segments[i].state # segments[j].state

ReducerIInv ==
  /\ ReducerInv
  /\ ScopesInOrder /\ ScopesCovered /\ CutInOrder
  /\ SegmentsHaveState /\ NeighboursDiffer

-----------------------------------------------------------------------------
LEMMA ScopeNumbers ==
  /\ Scope \union {NoScope} \in SUBSET Nat
  /\ \A s \in Scope \union {NoScope} : s \in Int /\ NoScope <= s
PROOF BY ReducerAssumption

LEMMA RequestEnds ==
  ASSUME TypeOK
  PROVE  /\ requested.start \in Timestamp /\ requested.end \in Timestamp
         /\ requested.start \in Int /\ requested.end \in Int
         /\ requested.start < requested.end /\ previous \in Int
         /\ observations \in SUBSET QualityObservation
         /\ \A o \in observations : o.range \in TimeRange /\ o.scope \in Scope \union {NoScope}
  <1>1. requested \in TimeRange /\ previous \in Timestamp /\ observations \subseteq QualityObservation
    BY DEF TypeOK
  <1>2. \A o \in observations : o.range \in TimeRange /\ o.scope \in Scope \union {NoScope}
    BY <1>1 DEF QualityObservation
  <1> QED BY <1>1, <1>2, RangeEnds, TimeBounds

LEMMA ScopesTyped ==
  ASSUME TypeOK
  PROVE  ScopesOf(requested, observations, expected) \subseteq Scope \union {NoScope}
PROOF BY RequestEnds DEF TypeOK, ScopesOf

\* A segment of the result: its fields, and its ends as numbers.
LEMMA SegmentTyped ==
  ASSUME TypeOK, NEW i \in DOMAIN segments
  PROVE  /\ segments[i] \in DataStateSegment
         /\ segments[i].range \in TimeRange /\ segments[i].state \in DataState
         /\ segments[i].scope \in Scope \union {NoScope} /\ segments[i].scope \in Int
         /\ segments[i].range.start \in Int /\ segments[i].range.end \in Int
         /\ segments[i].range.start < segments[i].range.end
         /\ segments[i] = [range |-> segments[i].range, state |-> segments[i].state,
                           scope |-> segments[i].scope]
  <1>1. segments[i] \in DataStateSegment
    BY DEF TypeOK
  <1>2. segments[i].range \in TimeRange /\ segments[i].scope \in Scope \union {NoScope}
    BY <1>1 DEF DataStateSegment
  <1> QED BY <1>1, <1>2, ScopeNumbers, RangeEnds DEF DataStateSegment

-----------------------------------------------------------------------------
\* The cuts of a scope lie in the request, after its start, and end it.
LEMMA CutsInRequest ==
  ASSUME TypeOK, NEW s
  PROVE  /\ requested.end \in BoundariesOf(s)
         /\ \A b \in BoundariesOf(s) : /\ b \in Timestamp /\ b \in Int
                                       /\ requested.start < b /\ b <= requested.end
  <1>1. ASSUME NEW o \in observations, NEW r \in Intersection(requested, o.range)
        PROVE  /\ r.start \in Timestamp /\ r.end \in Timestamp
               /\ r.start \in Int /\ r.end \in Int
               /\ requested.start <= r.start /\ r.start < r.end /\ r.end <= requested.end
    <2>1. r \in TimeRange /\ requested.start <= r.start /\ r.end <= requested.end
      BY RequestEnds, IntersectionShares DEF TypeOK
    <2> QED BY <2>1, RangeEnds
  <1>2. ASSUME NEW b \in BoundariesOf(s)
        PROVE  /\ b \in Timestamp /\ b \in Int
               /\ requested.start < b /\ b <= requested.end
    <2>1. CASE b = requested.end
      BY <2>1, RequestEnds
    <2>2. CASE b # requested.end
      <3>1. PICK o \in observations : \E r \in Intersection(requested, o.range) : b \in {r.start, r.end}
        BY <1>2, <2>2 DEF BoundariesOf
      <3>2. b # requested.start
        BY DEF BoundariesOf
      <3> QED BY <1>1, <3>1, <3>2, RequestEnds
    <2> QED BY <2>1, <2>2
  <1>3. requested.end \in BoundariesOf(s)
    BY RequestEnds DEF BoundariesOf
  <1> QED BY <1>2, <1>3

\* Between two neighbouring cuts the evidence that contains one instant
\* contains the whole interval: the state does not change there.
LEMMA IntervalHasState ==
  ASSUME TypeOK, NEW s, NEW from \in Int, NEW end \in BoundariesOf(s),
         requested.start <= from, from < end,
         \A b \in BoundariesOf(s) : from < b => end <= b,
         NEW t \in Int, from <= t, t < end
  PROVE  ReduceInterval([start |-> from, end |-> end], s, observations) = StateAt(t, s, observations)
  <1>1. /\ end \in Int /\ end <= requested.end
        /\ requested.start \in Int /\ requested.end \in Int
    BY CutsInRequest, RequestEnds
  <1>2. ASSUME NEW o \in observations, o.scope = s
        PROVE  (o.range.start <= from /\ end <= o.range.end) <=> Contains(o.range, t)
    <2>1. o.range.start \in Int /\ o.range.end \in Int /\ o.range \in TimeRange
      BY RequestEnds, RangeEnds
    <2>2. o.range.start <= from /\ end <= o.range.end => Contains(o.range, t)
      BY <1>1, <2>1 DEF Contains
    <2>3. ASSUME Contains(o.range, t)
          PROVE  o.range.start <= from /\ end <= o.range.end
      <3>1. Contains(requested, t)
        BY <1>1 DEF Contains
      <3>2. PICK r \in Intersection(requested, o.range) : Contains(r, t)
        BY <2>1, <2>3, <3>1, IntersectionShares DEF TypeOK
      <3>3. r.start \in Int /\ r.end \in Int /\ o.range.start <= r.start /\ r.end <= o.range.end
        BY <2>1, <3>2, IntersectionShares, RangeEnds DEF TypeOK
      <3>4. /\ r.start = requested.start \/ r.start \in BoundariesOf(s)
            /\ r.end = requested.start \/ r.end \in BoundariesOf(s)
        BY <1>2, <3>2 DEF BoundariesOf
      <3>5. r.start <= t /\ t < r.end
        BY <3>2 DEF Contains
      <3>6. r.start <= from /\ end <= r.end
        BY <1>1, <3>3, <3>4, <3>5
      <3> QED BY <1>1, <2>1, <3>3, <3>6
    <2> QED BY <2>2, <2>3
  <1>3. {o \in observations : o.scope = s /\ o.range.start <= from /\ end <= o.range.end}
          = {o \in observations : o.scope = s /\ Contains(o.range, t)}
    BY <1>2
  <1> QED BY <1>3 DEF ReduceInterval, StateAt

-----------------------------------------------------------------------------
LEMMA InitReducer == Init => ReducerIInv
  <1> SUFFICES ASSUME Init PROVE ReducerIInv
    OBVIOUS
  <1>1. /\ requested \in TimeRange /\ observations \subseteq QualityObservation
        /\ expected \subseteq Scope \union {NoScope}
    BY ReducerAssumption DEF Init
  <1>2. scopes = ScopesOf(requested, observations, expected)
    BY DEF Init
  <1>3. \A o \in observations : o.scope \in Scope \union {NoScope}
    BY <1>1 DEF QualityObservation
  <1>4. scopes \subseteq Scope \union {NoScope}
    BY <1>1, <1>2, <1>3 DEF ScopesOf
  <1>5. /\ segments = <<>> /\ DOMAIN segments = {} /\ segments \in Seq(DataStateSegment)
        /\ pc = "scopes" /\ scope = NoScope /\ previous = requested.start /\ boundaries = {}
    BY DEF Init
  <1>6. TypeOK
    BY <1>1, <1>4, <1>5, RangeEnds DEF TypeOK
  <1>7. SegmentsOrdered /\ SegmentsHaveState /\ NeighboursDiffer
    BY <1>5 DEF SegmentsOrdered, SegmentsHaveState, NeighboursDiffer
  <1>8. ScopesInOrder /\ ScopesCovered /\ CutInOrder
    BY <1>2, <1>5 DEF ScopesInOrder, ScopesCovered, CutInOrder
  <1> QED BY <1>6, <1>7, <1>8 DEF ReducerIInv, ReducerInv

LEMMA TakeScopePreserves ==
  ASSUME ReducerIInv, NEW s \in scopes, TakeScope(s)
  PROVE  ReducerIInv'
  <1>1. /\ pc = "scopes" /\ pc' = "intervals" /\ scope' = s /\ scopes' = scopes \ {s}
        /\ previous' = requested.start /\ boundaries' = BoundariesOf(s)
        /\ requested' = requested /\ observations' = observations /\ expected' = expected
        /\ segments' = segments /\ \A t \in scopes : s <= t
    BY DEF TakeScope, args
  <1>2. TypeOK /\ SegmentsOrdered /\ ScopesInOrder /\ ScopesCovered /\ SegmentsHaveState /\ NeighboursDiffer
    BY DEF ReducerIInv, ReducerInv
  <1>3. TypeOK'
    BY <1>1, <1>2, CutsInRequest, RequestEnds DEF TypeOK
  <1>4. SegmentsOrdered' /\ SegmentsHaveState' /\ NeighboursDiffer'
    BY <1>1, <1>2 DEF SegmentsOrdered, SegmentsHaveState, NeighboursDiffer
  <1>5. ScopesInOrder'
    <2>1. \A t \in scopes \ {s} : s < t
      <3>1. \A t \in scopes : t \in Int
        BY <1>2, ScopeNumbers DEF TypeOK
      <3> QED BY <1>1, <3>1
    <2> QED BY <1>1, <1>2, <2>1 DEF ScopesInOrder
  <1>6. ScopesCovered'
    BY <1>1, <1>2 DEF ScopesCovered, Visited
  <1>7. CutInOrder'
    <2>1. BoundariesOf(scope)' = BoundariesOf(s)
      BY <1>1 DEF BoundariesOf
    <2>2. BoundariesOf(s) = {b \in BoundariesOf(s) : requested.start < b}
      BY <1>2, CutsInRequest
    <2>3. Visited(s, requested.start)
      BY <1>2, RequestEnds, TimeBounds DEF Visited
    <2>4. Visited(scope, previous)'
      BY <1>1, <2>3 DEF Visited
    <2>5. \A i \in DOMAIN segments : segments[i].scope < s
      BY <1>2 DEF ScopesInOrder
    <2>6. requested.start <= requested.start /\ requested.start <= requested.end
      BY <1>2, RequestEnds
    <2> QED BY <1>1, <2>1, <2>2, <2>4, <2>5, <2>6 DEF CutInOrder
  <1> QED BY <1>3, <1>4, <1>5, <1>6, <1>7 DEF ReducerIInv, ReducerInv

\* The cut of a scope ends at the end of the request.
LEMMA ScopeDonePreserves ==
  ASSUME ReducerIInv, ScopeDone
  PROVE  ReducerIInv'
  <1>1. /\ pc = "intervals" /\ pc' = "scopes" /\ boundaries = {}
        /\ scope' = scope /\ scopes' = scopes /\ previous' = previous /\ boundaries' = boundaries
        /\ requested' = requested /\ observations' = observations /\ expected' = expected
        /\ segments' = segments
    BY DEF ScopeDone, args
  <1>2. /\ TypeOK /\ SegmentsOrdered /\ ScopesInOrder /\ ScopesCovered /\ CutInOrder
        /\ SegmentsHaveState /\ NeighboursDiffer
    BY DEF ReducerIInv, ReducerInv
  <1>3. TypeOK' /\ SegmentsOrdered' /\ SegmentsHaveState' /\ NeighboursDiffer'
    BY <1>1, <1>2 DEF TypeOK, SegmentsOrdered, SegmentsHaveState, NeighboursDiffer
  <1>4. ScopesInOrder' /\ CutInOrder'
    BY <1>1, <1>2 DEF ScopesInOrder, CutInOrder
  <1>5. Visited(scope, requested.end)
    <2>1. previous <= requested.end /\ ~(previous < requested.end)
      BY <1>1, <1>2, CutsInRequest DEF CutInOrder
    <2>2. previous = requested.end
      BY <1>2, <2>1, RequestEnds
    <2> QED BY <1>1, <1>2, <2>2 DEF CutInOrder
  <1>6. ScopesCovered'
    BY <1>1, <1>2, <1>5 DEF ScopesCovered, Visited
  <1> QED BY <1>3, <1>4, <1>6 DEF ReducerIInv, ReducerInv

LEMMA ReturnPreserves ==
  ASSUME ReducerIInv, Return
  PROVE  ReducerIInv'
  <1>1. /\ pc = "scopes" /\ pc' = "done" /\ scopes = {}
        /\ scope' = scope /\ scopes' = scopes /\ previous' = previous /\ boundaries' = boundaries
        /\ requested' = requested /\ observations' = observations /\ expected' = expected
        /\ segments' = segments
    BY DEF Return, args
  <1> QED BY <1>1 DEF ReducerIInv, ReducerInv, TypeOK, SegmentsOrdered, SegmentsHaveState,
                      NeighboursDiffer, ScopesInOrder, CutInOrder, ScopesCovered, Visited

\* The interval from the last cut to the next becomes a segment of its own.
LEMMA NewSegment ==
  ASSUME TypeOK, SegmentsOrdered, SegmentsHaveState, NeighboursDiffer, CutInOrder,
         pc = "intervals", scope \in ScopesOf(requested, observations, expected),
         NEW end \in Timestamp, previous < end, end <= requested.end,
         NEW state \in DataState, ~Continues(state),
         \A t \in previous..(end - 1) : StateAt(t, scope, observations) = state,
         segments' = Append(segments, [range |-> [start |-> previous, end |-> end],
                                       state |-> state, scope |-> scope]),
         requested' = requested, observations' = observations, expected' = expected
  PROVE  /\ segments' \in Seq(DataStateSegment)
         /\ SegmentsOrdered' /\ SegmentsHaveState' /\ NeighboursDiffer'
         /\ \A i \in DOMAIN segments' :
              \/ segments'[i].scope < scope
              \/ segments'[i].scope = scope /\ segments'[i].range.end <= end
         /\ \A i \in DOMAIN segments : i \in DOMAIN segments' /\ segments'[i] = segments[i]
         /\ \E i \in DOMAIN segments' :
              segments'[i].scope = scope /\ segments'[i].range = [start |-> previous, end |-> end]
  <1> DEFINE r == [start |-> previous, end |-> end]
             g == [range |-> r, state |-> state, scope |-> scope]
             n == Len(segments)
  <1>1. /\ previous \in Timestamp /\ previous \in Int /\ end \in Int /\ previous < end
        /\ scope \in Scope \union {NoScope} /\ scope \in Int
        /\ requested.start <= previous
    BY RequestEnds, ScopeNumbers, TimeBounds DEF TypeOK, CutInOrder
  <1>2. r \in TimeRange /\ r.start = previous /\ r.end = end
    BY <1>1, MakeRange
  <1>3. g.range = r /\ g.state = state /\ g.scope = scope
    OBVIOUS
  <1>4. g \in DataStateSegment
    BY <1>1, <1>2 DEF DataStateSegment
  <1> HIDE DEF r
  <1>5. /\ segments' = Append(segments, g) /\ segments \in Seq(DataStateSegment)
    BY DEF TypeOK, r
  <1> HIDE DEF g
  <1>6. /\ segments' \in Seq(DataStateSegment) /\ n \in Nat
        /\ DOMAIN segments = 1..n /\ DOMAIN segments' = 1..(n + 1)
        /\ \A i \in DOMAIN segments : i \in DOMAIN segments' /\ segments'[i] = segments[i]
        /\ segments'[n + 1] = g
    BY <1>4, <1>5
  <1>7. \A i \in DOMAIN segments' : i \in DOMAIN segments \/ i = n + 1
    BY <1>6
  <1> HIDE DEF n
  <1>8. ASSUME NEW i \in DOMAIN segments
        PROVE  /\ segments[i].scope \in Int /\ segments[i].range.end \in Int
               /\ segments[i].range.start \in Int /\ segments[i].range.start < segments[i].range.end
               /\ \/ segments[i].scope < scope
                  \/ segments[i].scope = scope /\ segments[i].range.end <= previous
    BY SegmentTyped DEF CutInOrder
  <1>9. SegmentsOrdered'
    <2> SUFFICES ASSUME NEW i \in DOMAIN segments', NEW j \in DOMAIN segments', i < j
                 PROVE  \/ segments'[i].scope < segments'[j].scope
                        \/ /\ segments'[i].scope = segments'[j].scope
                           /\ segments'[i].range.end <= segments'[j].range.start
      BY DEF SegmentsOrdered
    <2>1. i \in DOMAIN segments
      BY <1>6
    <2>2. CASE j \in DOMAIN segments
      BY <1>6, <2>1, <2>2 DEF SegmentsOrdered
    <2>3. CASE j = n + 1
      BY <1>2, <1>3, <1>6, <1>8, <2>1, <2>3
    <2> QED BY <1>7, <2>2, <2>3
  <1>10. SegmentsHaveState'
    <2>1. ASSUME NEW t \in Instants(r)
          PROVE  StateAt(t, scope, observations) = state
      BY <1>2 DEF Instants
    <2>2. requested.start <= r.start /\ r.end <= requested.end
      BY <1>1, <1>2
    <2>3. ASSUME NEW i \in DOMAIN segments'
          PROVE  /\ segments'[i].scope \in ScopesOf(requested, observations, expected)
                 /\ requested.start <= segments'[i].range.start
                 /\ segments'[i].range.end <= requested.end
                 /\ \A t \in Instants(segments'[i].range) :
                      StateAt(t, segments'[i].scope, observations) = segments'[i].state
      <3>1. CASE i \in DOMAIN segments
        BY <1>6, <3>1 DEF SegmentsHaveState
      <3>2. CASE i = n + 1
        BY <1>3, <1>6, <2>1, <2>2, <3>2
      <3> QED BY <1>7, <3>1, <3>2
    <2> QED BY <2>3 DEF SegmentsHaveState
  <1>11. NeighboursDiffer'
    <2> SUFFICES ASSUME NEW i \in DOMAIN segments', NEW j \in DOMAIN segments', i < j,
                        segments'[i].scope = segments'[j].scope,
                        segments'[i].range.end = segments'[j].range.start,
                        segments'[i].state = segments'[j].state
                 PROVE  FALSE
      BY DEF NeighboursDiffer
    <2>1. i \in DOMAIN segments /\ i \in 1..n
      BY <1>6
    <2>2. CASE j \in DOMAIN segments
      BY <1>6, <2>1, <2>2 DEF NeighboursDiffer
    <2>3. CASE j = n + 1
      <3>1. /\ segments[i].scope = scope /\ segments[i].range.end = previous
            /\ segments[i].state = state
        BY <1>2, <1>3, <1>6, <2>1, <2>3
      <3>2. n \in DOMAIN segments /\ n \in Nat /\ i <= n
        BY <1>6, <2>1
      <3>3. i # n
        <4>1. segments # <<>>
          BY <1>6, <3>2
        <4> QED BY <3>1, <4>1 DEF Continues, n
      <3>4. \/ scope < segments[n].scope
            \/ segments[n].scope = scope /\ previous <= segments[n].range.start
        BY <1>6, <2>1, <3>1, <3>2, <3>3 DEF SegmentsOrdered
      <3> QED BY <1>1, <1>8, <3>2, <3>4
    <2> QED BY <1>7, <2>2, <2>3
  <1>12. \A i \in DOMAIN segments' :
           \/ segments'[i].scope < scope
           \/ segments'[i].scope = scope /\ segments'[i].range.end <= end
    <2> SUFFICES ASSUME NEW i \in DOMAIN segments'
                 PROVE  \/ segments'[i].scope < scope
                        \/ segments'[i].scope = scope /\ segments'[i].range.end <= end
      OBVIOUS
    <2>1. CASE i \in DOMAIN segments
      BY <1>1, <1>6, <1>8, <2>1
    <2>2. CASE i = n + 1
      BY <1>1, <1>2, <1>3, <1>6, <2>2
    <2> QED BY <1>7, <2>1, <2>2
  <1>13. n + 1 \in DOMAIN segments'
    BY <1>6
  <1> QED BY <1>3, <1>6, <1>9, <1>10, <1>11, <1>12, <1>13 DEF r

\* The interval continues the last segment.
LEMMA LongerSegment ==
  ASSUME TypeOK, SegmentsOrdered, SegmentsHaveState, NeighboursDiffer, CutInOrder,
         pc = "intervals",
         NEW end \in Timestamp, previous < end, end <= requested.end,
         NEW state \in DataState, Continues(state),
         \A t \in previous..(end - 1) : StateAt(t, scope, observations) = state,
         segments' = [segments EXCEPT ![Len(segments)].range.end = end],
         requested' = requested, observations' = observations, expected' = expected
  PROVE  /\ segments' \in Seq(DataStateSegment)
         /\ SegmentsOrdered' /\ SegmentsHaveState' /\ NeighboursDiffer'
         /\ \A i \in DOMAIN segments' :
              \/ segments'[i].scope < scope
              \/ segments'[i].scope = scope /\ segments'[i].range.end <= end
         /\ \A i \in DOMAIN segments :
              /\ i \in DOMAIN segments' /\ segments'[i].scope = segments[i].scope
              /\ segments'[i].range.start = segments[i].range.start
              /\ segments[i].range.end <= segments'[i].range.end
         /\ \E i \in DOMAIN segments' :
              segments'[i].scope = scope /\ segments'[i].range.start <= previous
                /\ segments'[i].range.end = end
  <1> DEFINE n == Len(segments)
             old == segments[n]
             r == [start |-> old.range.start, end |-> end]
             g == [range |-> r, state |-> old.state, scope |-> old.scope]
  <1>1. /\ n \in Nat /\ n \in DOMAIN segments /\ DOMAIN segments = 1..n
        /\ old.scope = scope /\ old.state = state /\ old.range.end = previous
    BY DEF Continues, TypeOK
  <1>2. /\ previous \in Int /\ end \in Int /\ previous < end /\ scope \in Int
        /\ old.range.start \in Int /\ old.range.start \in Timestamp
        /\ old.range.start < previous /\ old.scope \in Scope \union {NoScope}
        /\ old = [range |-> old.range, state |-> old.state, scope |-> old.scope]
        /\ old.range = [start |-> old.range.start, end |-> old.range.end]
    BY <1>1, RequestEnds, SegmentTyped, RangeEnds, TimeBounds
  <1>3. r \in TimeRange /\ r.start = old.range.start /\ r.end = end
    BY <1>2, MakeRange
  <1>4. g \in DataStateSegment /\ g.range = r /\ g.state = state /\ g.scope = scope
    BY <1>1, <1>2, <1>3 DEF DataStateSegment
  <1>5. [old EXCEPT !.range.end = end] = g
    <2>1. [old.range EXCEPT !.end = end] = r
      BY <1>2
    <2> QED BY <1>2, <2>1
  <1> HIDE DEF g, r
  <1>6. /\ segments' = [segments EXCEPT ![n] = g]
    BY <1>1, <1>5
  <1> HIDE DEF n, old
  <1>7. /\ segments' \in Seq(DataStateSegment) /\ DOMAIN segments' = DOMAIN segments
        /\ \A i \in DOMAIN segments : i # n => segments'[i] = segments[i]
        /\ segments'[n] = g /\ old = segments[n]
    BY <1>1, <1>4, <1>6 DEF TypeOK, old
  <1>8. ASSUME NEW i \in DOMAIN segments
        PROVE  /\ segments[i].scope \in Int /\ segments[i].range.end \in Int
               /\ segments[i].range.start \in Int /\ segments[i].range.start < segments[i].range.end
               /\ \/ segments[i].scope < scope
                  \/ segments[i].scope = scope /\ segments[i].range.end <= previous
    BY SegmentTyped DEF CutInOrder
  <1>9. \A i \in DOMAIN segments :
          /\ segments'[i].scope = segments[i].scope /\ segments'[i].state = segments[i].state
          /\ segments'[i].range.start = segments[i].range.start
          /\ segments[i].range.end <= segments'[i].range.end
          /\ i # n => segments'[i].range.end = segments[i].range.end
    BY <1>1, <1>2, <1>3, <1>4, <1>7, <1>8
  <1>10. SegmentsOrdered' /\ NeighboursDiffer'
    <2>1. ASSUME NEW i \in DOMAIN segments', NEW j \in DOMAIN segments', i < j
          PROVE  /\ i \in DOMAIN segments /\ j \in DOMAIN segments /\ i # n
      BY <1>1, <1>7, <2>1
    <2> QED BY <1>9, <2>1 DEF SegmentsOrdered, NeighboursDiffer
  <1>11. SegmentsHaveState'
    <2>1. ASSUME NEW t \in Instants(r)
          PROVE  StateAt(t, scope, observations) = state
      <3>1. t \in Instants(old.range) \/ t \in previous..(end - 1)
        BY <1>1, <1>2, <1>3, <2>1 DEF Instants
      <3> QED BY <1>1, <1>7, <3>1 DEF SegmentsHaveState
    <2>2. requested.start <= r.start /\ r.end <= requested.end
      BY <1>1, <1>3, <1>7 DEF SegmentsHaveState
    <2>3. ASSUME NEW i \in DOMAIN segments'
          PROVE  /\ segments'[i].scope \in ScopesOf(requested, observations, expected)
                 /\ requested.start <= segments'[i].range.start
                 /\ segments'[i].range.end <= requested.end
                 /\ \A t \in Instants(segments'[i].range) :
                      StateAt(t, segments'[i].scope, observations) = segments'[i].state
      <3>1. CASE i # n
        BY <1>7, <3>1 DEF SegmentsHaveState
      <3>2. CASE i = n
        <4>1. scope \in ScopesOf(requested, observations, expected)
          BY <1>1, <1>7 DEF SegmentsHaveState
        <4> QED BY <1>4, <1>7, <2>1, <2>2, <3>2, <4>1
      <3> QED BY <3>1, <3>2
    <2> SUFFICES ASSUME NEW i \in DOMAIN segments'
                 PROVE  /\ segments'[i].scope \in ScopesOf(requested', observations', expected')
                        /\ requested'.start <= segments'[i].range.start
                        /\ segments'[i].range.end <= requested'.end
                        /\ \A t \in Instants(segments'[i].range) :
                             StateAt(t, segments'[i].scope, observations') = segments'[i].state
      BY DEF SegmentsHaveState
    <2> QED BY <2>3
  <1>12. \A i \in DOMAIN segments :
           \/ segments'[i].scope < scope
           \/ segments'[i].scope = scope /\ segments'[i].range.end <= end
    BY <1>1, <1>2, <1>3, <1>4, <1>7, <1>8
  <1>13. segments'[n].scope = scope /\ segments'[n].range.start <= previous /\ segments'[n].range.end = end
    BY <1>2, <1>3, <1>4, <1>7
  <1> QED BY <1>1, <1>7, <1>9, <1>10, <1>11, <1>12, <1>13

LEMMA TakeIntervalPreserves ==
  ASSUME ReducerIInv, NEW end \in boundaries, TakeInterval(end)
  PROVE  ReducerIInv'
  <1> DEFINE interval == [start |-> previous, end |-> end]
             state    == ReduceInterval(interval, scope, observations)
  <1>1. /\ pc = "intervals" /\ pc' = pc /\ \A b \in boundaries : end <= b
        /\ scope' = scope /\ scopes' = scopes /\ previous' = end /\ boundaries' = boundaries \ {end}
        /\ requested' = requested /\ observations' = observations /\ expected' = expected
    BY DEF TakeInterval, args
  <1>2. segments' = IF Continues(state)
                    THEN [segments EXCEPT ![Len(segments)].range.end = end]
                    ELSE Append(segments, [range |-> interval, state |-> state, scope |-> scope])
    BY DEF TakeInterval
  <1>3. /\ TypeOK /\ SegmentsOrdered /\ ScopesInOrder /\ ScopesCovered /\ CutInOrder
        /\ SegmentsHaveState /\ NeighboursDiffer
    BY DEF ReducerIInv, ReducerInv
  <1>4. /\ end \in BoundariesOf(scope) /\ previous < end
        /\ end \in Timestamp /\ end \in Int /\ end <= requested.end
        /\ previous \in Int /\ requested.start <= previous
        /\ \A b \in BoundariesOf(scope) : previous < b => end <= b
    BY <1>1, <1>3, CutsInRequest, RequestEnds DEF CutInOrder
  <1>5. \A t \in previous..(end - 1) : StateAt(t, scope, observations) = state
    BY <1>3, <1>4, IntervalHasState
  <1>6. state \in DataState
    <2>1. previous \in previous..(end - 1)
      BY <1>4
    <2>2. StateAt(previous, scope, observations) \in DataState
      BY <1>3, RequestEnds, StateAtFacts
    <2> HIDE DEF state
    <2> QED BY <1>5, <2>1, <2>2
  <1>7. scope \in ScopesOf(requested, observations, expected)
    BY <1>1, <1>3 DEF ScopesInOrder
  <1> HIDE DEF state
  <1>8. /\ segments' \in Seq(DataStateSegment)
        /\ SegmentsOrdered' /\ SegmentsHaveState' /\ NeighboursDiffer'
        /\ \A i \in DOMAIN segments' :
             \/ segments'[i].scope < scope
             \/ segments'[i].scope = scope /\ segments'[i].range.end <= end
        /\ \A i \in DOMAIN segments :
             /\ i \in DOMAIN segments' /\ segments'[i].scope = segments[i].scope
             /\ segments'[i].range.start = segments[i].range.start
             /\ segments[i].range.end <= segments'[i].range.end
        /\ \E i \in DOMAIN segments' :
             segments'[i].scope = scope /\ segments'[i].range.start <= previous
               /\ segments'[i].range.end = end
    <2>1. CASE Continues(state)
      <3>1. segments' = [segments EXCEPT ![Len(segments)].range.end = end]
        BY <1>2, <2>1
      <3> QED BY <1>1, <1>3, <1>4, <1>5, <1>6, <2>1, <3>1, LongerSegment
    <2>2. CASE ~Continues(state)
      <3>1. segments' = Append(segments, [range |-> interval, state |-> state, scope |-> scope])
        BY <1>2, <2>2
      <3>2. /\ segments' \in Seq(DataStateSegment)
            /\ SegmentsOrdered' /\ SegmentsHaveState' /\ NeighboursDiffer'
            /\ \A i \in DOMAIN segments' :
                 \/ segments'[i].scope < scope
                 \/ segments'[i].scope = scope /\ segments'[i].range.end <= end
            /\ \A i \in DOMAIN segments : i \in DOMAIN segments' /\ segments'[i] = segments[i]
            /\ \E i \in DOMAIN segments' :
                 segments'[i].scope = scope /\ segments'[i].range = interval
        BY <1>1, <1>3, <1>4, <1>5, <1>6, <1>7, <2>2, <3>1, NewSegment
      <3>3. \A i \in DOMAIN segments : segments[i].range.end <= segments[i].range.end
        BY <1>3, SegmentTyped
      <3>4. interval.start = previous /\ interval.end = end /\ previous <= previous
        BY <1>4
      <3> HIDE DEF interval
      <3> QED BY <3>2, <3>3, <3>4
    <2> QED BY <2>1, <2>2
  <1>9. TypeOK'
    BY <1>1, <1>3, <1>4, <1>8 DEF TypeOK
  <1>10. ASSUME NEW s, NEW until \in Int, Visited(s, until)
         PROVE  \A t \in Timestamp : requested.start <= t /\ t < until =>
                  \E i \in DOMAIN segments' : segments'[i].scope = s /\ Contains(segments'[i].range, t)
    <2> SUFFICES ASSUME NEW t \in Timestamp, requested.start <= t, t < until
                 PROVE  \E i \in DOMAIN segments' :
                          segments'[i].scope = s /\ Contains(segments'[i].range, t)
      OBVIOUS
    <2>1. PICK i \in DOMAIN segments : segments[i].scope = s /\ Contains(segments[i].range, t)
      BY <1>10 DEF Visited
    <2>2. i \in DOMAIN segments' /\ segments'[i] \in DataStateSegment
      BY <1>8, <2>1
    <2>3. segments'[i].range \in TimeRange
      BY <2>2 DEF DataStateSegment
    <2>4. segments'[i].range.end \in Int /\ segments[i].range.end \in Int /\ t \in Int
      BY <1>3, <2>3, RangeEnds, SegmentTyped, TimeBounds
    <2>5. Contains(segments'[i].range, t)
      BY <1>8, <2>1, <2>4 DEF Contains
    <2> QED BY <1>8, <2>1, <2>2, <2>5
  <1>11. ScopesInOrder'
    <2>1. \A s \in scopes : \A i \in DOMAIN segments' : segments'[i].scope < s
      <3> SUFFICES ASSUME NEW s \in scopes, NEW i \in DOMAIN segments'
                   PROVE  segments'[i].scope < s
        OBVIOUS
      <3>1. segments'[i] \in DataStateSegment /\ s \in Int /\ scope \in Int /\ scope < s
        BY <1>1, <1>3, <1>8, ScopeNumbers DEF TypeOK, ScopesInOrder
      <3>2. segments'[i].scope \in Int
        BY <3>1, ScopeNumbers DEF DataStateSegment
      <3> QED BY <1>8, <3>1, <3>2
    <2> QED BY <1>1, <1>3, <2>1 DEF ScopesInOrder
  <1>12. ScopesCovered'
    <2>1. requested.end \in Int
      BY <1>3, RequestEnds
    <2>2. ASSUME NEW s \in ScopesOf(requested, observations, expected),
                 ~(s \in scopes \/ s = scope)
          PROVE  \A t \in Timestamp : requested.start <= t /\ t < requested.end =>
                   \E i \in DOMAIN segments' : segments'[i].scope = s /\ Contains(segments'[i].range, t)
      BY <1>3, <1>10, <2>1, <2>2 DEF ScopesCovered
    <2> QED BY <1>1, <2>2 DEF ScopesCovered, Visited
  <1>13. CutInOrder'
    <2>1. BoundariesOf(scope)' = BoundariesOf(scope)
      BY <1>1 DEF BoundariesOf
    <2>2. boundaries \ {end} = {b \in BoundariesOf(scope) : end < b}
      <3>1. boundaries = {b \in BoundariesOf(scope) : previous < b}
        BY <1>1, <1>3 DEF CutInOrder
      <3>2. \A b \in BoundariesOf(scope) : b \in Int
        BY <1>3, CutsInRequest
      <3>3. \A b \in BoundariesOf(scope) : previous < b /\ b # end <=> end < b
        BY <1>4, <3>2
      <3> QED BY <3>1, <3>3
    <2>3. \A t \in Timestamp : requested.start <= t /\ t < end =>
            \E i \in DOMAIN segments' : segments'[i].scope = scope /\ Contains(segments'[i].range, t)
      <3> SUFFICES ASSUME NEW t \in Timestamp, requested.start <= t, t < end
                   PROVE  \E i \in DOMAIN segments' :
                            segments'[i].scope = scope /\ Contains(segments'[i].range, t)
        OBVIOUS
      <3>1. t \in Int
        BY TimeBounds
      <3>2. CASE t < previous
        <4>1. Visited(scope, previous)
          BY <1>1, <1>3 DEF CutInOrder
        <4> QED BY <1>4, <1>10, <3>2, <4>1
      <3>3. CASE previous <= t
        <4>1. PICK i \in DOMAIN segments' :
                segments'[i].scope = scope /\ segments'[i].range.start <= previous
                  /\ segments'[i].range.end = end
          BY <1>8
        <4>2. segments'[i] \in DataStateSegment
          BY <1>8
        <4>3. segments'[i].range.start \in Int
          BY <4>2, RangeEnds DEF DataStateSegment
        <4>4. Contains(segments'[i].range, t)
          BY <1>4, <3>1, <3>3, <4>1, <4>3 DEF Contains
        <4> QED BY <4>1, <4>4
      <3> QED BY <1>4, <3>1, <3>2, <3>3
    <2>4. requested.start <= end
      BY <1>3, <1>4, RequestEnds
    <2> QED BY <1>1, <1>4, <1>8, <2>1, <2>2, <2>3, <2>4 DEF CutInOrder, Visited
  <1> QED BY <1>8, <1>9, <1>11, <1>12, <1>13 DEF ReducerIInv, ReducerInv

LEMMA ReducerStep == ReducerIInv /\ [Next]_vars => ReducerIInv'
  <1> SUFFICES ASSUME ReducerIInv, [Next]_vars PROVE ReducerIInv'
    OBVIOUS
  <1>1. ASSUME NEW s \in scopes, TakeScope(s)
        PROVE  ReducerIInv'
    BY <1>1, TakeScopePreserves
  <1>2. ASSUME NEW end \in boundaries, TakeInterval(end)
        PROVE  ReducerIInv'
    BY <1>2, TakeIntervalPreserves
  <1>3. CASE ScopeDone
    BY <1>3, ScopeDonePreserves
  <1>4. CASE Return
    BY <1>4, ReturnPreserves
  <1>5. CASE UNCHANGED vars
    BY <1>5 DEF vars, args, ReducerIInv, ReducerInv, TypeOK, SegmentsOrdered, SegmentsHaveState,
                NeighboursDiffer, ScopesInOrder, CutInOrder, ScopesCovered, Visited, BoundariesOf
  <1> QED BY <1>1, <1>2, <1>3, <1>4, <1>5 DEF Next

LEMMA ReducerInductive == Spec => []ReducerIInv
PROOF BY InitReducer, ReducerStep, PTL DEF Spec

\* At every step of reduce() its locals have their types, and what it has
\* emitted is ordered by scope and, within a scope, by time without overlap.
THEOREM ReducerInvariant == Spec => []ReducerInv
  <1>1. ReducerIInv => ReducerInv
    BY DEF ReducerIInv
  <1> QED BY <1>1, ReducerInductive, PTL

-----------------------------------------------------------------------------
\* Two maximal runs of a function of time that share an instant are the same.
LEMMA MaximalRunsAgree ==
  ASSUME NEW value, NEW r \in TimeRange, NEW s \in TimeRange,
         MaximalRun(r, value), MaximalRun(s, value),
         NEW t \in Int, t \in Instants(r), t \in Instants(s)
  PROVE  r = s
  <1>1. /\ r.start \in Int /\ r.end \in Int /\ s.start \in Int /\ s.end \in Int
        /\ r.start <= t /\ t < r.end /\ s.start <= t /\ t < s.end
    BY RangeEnds DEF Instants
  <1>2. /\ \A u \in Instants(r) : u \in DOMAIN value /\ value[u] = value[t]
        /\ \A u \in Instants(s) : u \in DOMAIN value /\ value[u] = value[t]
    BY DEF MaximalRun
  <1>3. /\ r.start \in Instants(r) /\ s.start \in Instants(s)
        /\ value[r.start] = value[t] /\ value[s.start] = value[t]
    BY <1>1, <1>2 DEF Instants
  <1>4. ~(r.start < s.start) /\ ~(s.start < r.start)
    <2>1. r.start < s.start => (s.start - 1) \in Instants(r)
      BY <1>1 DEF Instants
    <2>2. s.start < r.start => (r.start - 1) \in Instants(s)
      BY <1>1 DEF Instants
    <2> QED BY <1>2, <1>3, <2>1, <2>2 DEF MaximalRun
  <1>5. ~(r.end < s.end) /\ ~(s.end < r.end)
    <2>1. r.end < s.end => r.end \in Instants(s)
      BY <1>1 DEF Instants
    <2>2. s.end < r.end => s.end \in Instants(r)
      BY <1>1 DEF Instants
    <2> QED BY <1>2, <1>3, <2>1, <2>2 DEF MaximalRun
  <1>6. r.start = s.start /\ r.end = s.end
    BY <1>1, <1>4, <1>5
  <1> QED BY <1>6, RangeEnds

\* An emitted segment is one of the state segments once all is visited: what
\* stands before and after it in its scope has another state.
LEMMA EmittedIsMaximal ==
  ASSUME ReducerIInv, pc = "done", NEW i \in DOMAIN segments,
         NEW value,
         value = [t \in Instants(requested) |-> StateAt(t, segments[i].scope, observations)]
  PROVE  /\ MaximalRun(segments[i].range, value)
         /\ segments[i].range.start \in DOMAIN value
         /\ value[segments[i].range.start] = segments[i].state
  <1> DEFINE s == segments[i].scope
             r == segments[i].range
  <1>1. /\ TypeOK /\ SegmentsOrdered /\ SegmentsHaveState /\ NeighboursDiffer
        /\ s \in ScopesOf(requested, observations, expected)
        /\ Visited(s, requested.end)
    BY DEF ReducerIInv, ReducerInv, ScopesInOrder, ScopesCovered, SegmentsHaveState
  <1>2. /\ r \in TimeRange /\ r.start \in Int /\ r.end \in Int /\ r.start < r.end
        /\ requested.start \in Int /\ requested.end \in Int
        /\ requested.start \in Timestamp /\ requested.end \in Timestamp
        /\ requested.start <= r.start /\ r.end <= requested.end
    BY <1>1, SegmentTyped, RequestEnds DEF SegmentsHaveState
  <1>3. \A t \in Instants(r) : t \in DOMAIN value /\ value[t] = segments[i].state
    <2>1. \A t \in Instants(r) : t \in Instants(requested)
      BY <1>2 DEF Instants
    <2>2. \A t \in Instants(r) : StateAt(t, s, observations) = segments[i].state
      BY <1>1 DEF SegmentsHaveState
    <2> QED BY <2>1, <2>2
  <1>4. r.start \in Instants(r)
    BY <1>2 DEF Instants
  <1>5. ASSUME NEW t \in {r.start - 1, r.end}, t \in DOMAIN value
        PROVE  value[t] # segments[i].state
    <2>1. t \in Int /\ requested.start <= t /\ t < requested.end
      BY <1>2, <1>5 DEF Instants
    <2>2. t \in Timestamp
      BY <1>2, <2>1, TimeBounds
    <2>3. PICK j \in DOMAIN segments : segments[j].scope = s /\ Contains(segments[j].range, t)
      BY <1>1, <2>1, <2>2 DEF Visited
    <2>4. /\ segments[j].range.start \in Int /\ segments[j].range.end \in Int
          /\ segments[j].range.start <= t /\ t < segments[j].range.end
          /\ segments[j].scope \in Int
      BY <1>1, <2>3, SegmentTyped DEF Contains
    <2>5. value[t] = segments[j].state
      <3>1. t \in Instants(segments[j].range)
        BY <2>1, <2>4 DEF Instants
      <3> QED BY <1>1, <1>5, <2>3, <3>1 DEF SegmentsHaveState
    <2>6. i # j
      BY <1>2, <1>5, <2>4
    <2>7. i \in Int /\ j \in Int
      BY <1>1 DEF TypeOK
    <2>8. CASE i < j
      <3>1. r.end <= segments[j].range.start
        BY <1>1, <2>3, <2>4, <2>8 DEF SegmentsOrdered
      <3>2. t = r.end /\ segments[j].range.start = r.end
        BY <1>2, <1>5, <2>4, <3>1
      <3> QED BY <1>1, <2>3, <2>5, <2>8, <3>2 DEF NeighboursDiffer
    <2>9. CASE j < i
      <3>1. segments[j].range.end <= r.start
        BY <1>1, <2>3, <2>4, <2>9 DEF SegmentsOrdered
      <3>2. t = r.start - 1 /\ segments[j].range.end = r.start
        BY <1>2, <1>5, <2>4, <3>1
      <3> QED BY <1>1, <2>3, <2>5, <2>9, <3>2 DEF NeighboursDiffer
    <2> QED BY <2>6, <2>7, <2>8, <2>9
  <1> QED BY <1>3, <1>4, <1>5 DEF MaximalRun

LEMMA InvariantReturnsSegments ==
  ASSUME ReducerIInv
  PROVE  ReturnsTheStateSegments
  <1> SUFFICES ASSUME pc = "done"
               PROVE  Segments = StateSegments(requested, observations, expected)
    BY DEF ReturnsTheStateSegments
  <1>1. TypeOK /\ requested \in TimeRange /\ observations \in SUBSET QualityObservation
    BY DEF ReducerIInv, ReducerInv, TypeOK
  <1> DEFINE Value(s) == [t \in Instants(requested) |-> StateAt(t, s, observations)]
  <1>2. ASSUME NEW i \in DOMAIN segments
        PROVE  segments[i] \in StateSegments(requested, observations, expected)
    <2> DEFINE s == segments[i].scope
               r == segments[i].range
    <2>1. /\ s \in ScopesOf(requested, observations, expected)
          /\ r \in TimeRange /\ segments[i] = [range |-> r, state |-> segments[i].state, scope |-> s]
      BY <1>1, SegmentTyped DEF ReducerIInv, SegmentsHaveState
    <2>2. /\ MaximalRun(r, Value(s)) /\ r.start \in DOMAIN Value(s)
          /\ Value(s)[r.start] = segments[i].state
      BY EmittedIsMaximal
    <2>3. segments[i] \in SegmentsOfScope(requested, s, observations)
      BY <2>1, <2>2 DEF SegmentsOfScope
    <2> QED BY <2>1, <2>3 DEF StateSegments
  <1>3. ASSUME NEW g \in StateSegments(requested, observations, expected)
        PROVE  g \in Segments
    <2>1. PICK s \in ScopesOf(requested, observations, expected) :
            g \in SegmentsOfScope(requested, s, observations)
      BY DEF StateSegments
    <2>2. PICK r \in TimeRange :
            /\ r.start \in DOMAIN Value(s) /\ MaximalRun(r, Value(s))
            /\ g = [range |-> r, state |-> Value(s)[r.start], scope |-> s]
      BY <2>1 DEF SegmentsOfScope
    <2>3. /\ r.start \in Int /\ r.start \in Timestamp /\ r.start \in Instants(r)
          /\ requested.start <= r.start /\ r.start < requested.end
      BY <1>1, <2>2, RangeEnds DEF Instants
    <2>4. Visited(s, requested.end)
      BY DEF ReducerIInv, ScopesInOrder, ScopesCovered
    <2>5. PICK i \in DOMAIN segments : segments[i].scope = s /\ Contains(segments[i].range, r.start)
      BY <2>3, <2>4 DEF Visited
    <2>6. /\ segments[i].range \in TimeRange /\ r.start \in Instants(segments[i].range)
          /\ segments[i] = [range |-> segments[i].range, state |-> segments[i].state,
                            scope |-> segments[i].scope]
      BY <1>1, <2>3, <2>5, SegmentTyped DEF Contains, Instants
    <2>7. /\ MaximalRun(segments[i].range, Value(s))
          /\ Value(s)[segments[i].range.start] = segments[i].state
      BY <2>5, EmittedIsMaximal
    <2> HIDE DEF Value
    <2>8. segments[i].range = r
      BY <2>2, <2>3, <2>6, <2>7, MaximalRunsAgree
    <2>9. g = segments[i]
      BY <2>2, <2>5, <2>6, <2>7, <2>8
    <2> QED BY <2>9 DEF Segments
  <1> QED BY <1>2, <1>3 DEF Segments

\* reduce() returns exactly the maximal ranges of constant worst evidence of
\* every scope: no instant is left out, none is in two segments.
THEOREM ReducerReturnsTheStates == Spec => []ReturnsTheStateSegments
  <1>1. ReducerIInv => ReturnsTheStateSegments
    BY InvariantReturnsSegments
  <1> QED BY <1>1, ReducerInductive, PTL

-----------------------------------------------------------------------------
\* A bisection has an answer: the first index at which the predicate fails.
LEMMA PartitionFacts ==
  ASSUME NEW low \in Int, NEW high \in Int, low <= high, NEW holds
  PROVE  LET p == PartitionPoint(low, high, holds)
         IN  /\ p \in low..high
             /\ p = high \/ ~holds[p]
             /\ \A j \in low..(p - 1) : holds[j]
  <1> DEFINE Fails == {k \in Nat : low + k = high \/ ~holds[low + k]}
             Answer(i) == /\ i = high \/ ~holds[i]
                          /\ \A j \in low..(i - 1) : holds[j]
  <1>1. (high - low) \in Nat /\ low + (high - low) = high
    OBVIOUS
  <1>2. PICK k \in Fails : \A l \in Fails : k <= l
    <2>1. Fails \in SUBSET Nat /\ (high - low) \in Fails
      BY <1>1
    <2> HIDE DEF Fails
    <2> QED BY <2>1, LeastNatural
  <1>3. k \in Nat /\ k <= high - low /\ (low + k = high \/ ~holds[low + k])
    BY <1>1, <1>2
  <1>4. ASSUME NEW j \in low..(low + k - 1) PROVE holds[j]
    <2>1. (j - low) \in Nat /\ ~(k <= j - low) /\ low + (j - low) = j
      BY <1>3
    <2>2. (j - low) \notin Fails
      <3> HIDE DEF Fails
      <3> QED BY <1>2, <2>1
    <2> QED BY <2>1, <2>2
  <1>5. low + k \in low..high /\ Answer(low + k)
    BY <1>3, <1>4
  <1>6. \E i \in low..high : Answer(i)
    <2> HIDE DEF Answer
    <2> QED BY <1>5
  <1>7. PartitionPoint(low, high, holds) = CHOOSE i \in low..high : Answer(i)
    BY DEF PartitionPoint
  <1>8. PartitionPoint(low, high, holds) \in low..high /\ Answer(PartitionPoint(low, high, holds))
    <2> HIDE DEF Answer
    <2> QED BY <1>6, <1>7
  <1> QED BY <1>8

\* The segments of a scope are those from FirstOf to the one before LastOf.
LEMMA ScopeBounds ==
  ASSUME TypeOK, SegmentsOrdered, NEW s \in Scope \union {NoScope}
  PROVE  /\ FirstOf(s) \in 1..(Len(segments) + 1)
         /\ LastOf(s) \in FirstOf(s)..(Len(segments) + 1)
         /\ DOMAIN segments = 1..Len(segments) /\ Len(segments) \in Nat
         /\ \A i \in DOMAIN segments :
              segments[i].scope = s <=> FirstOf(s) <= i /\ i < LastOf(s)
  <1> DEFINE n     == Len(segments)
             below == [i \in DOMAIN segments |-> segments[i].scope < s]
             upto  == [i \in DOMAIN segments |-> ~(s < segments[i].scope)]
             first == FirstOf(s)
             last  == LastOf(s)
  <1>1. /\ DOMAIN segments = 1..n /\ n \in Nat /\ s \in Int
        /\ \A i \in DOMAIN segments : segments[i].scope \in Int
    BY ScopeNumbers, SegmentTyped DEF TypeOK
  <1>2. /\ first \in 1..(n + 1)
        /\ first = n + 1 \/ ~below[first]
        /\ \A j \in 1..(first - 1) : below[j]
    <2>1. first = PartitionPoint(1, n + 1, below)
      BY DEF FirstOf
    <2> HIDE DEF n, below, first
    <2>2. 1 \in Int /\ (n + 1) \in Int /\ 1 <= n + 1
      BY <1>1
    <2> QED BY <2>1, <2>2, PartitionFacts, Zenon
  <1>3. /\ last \in first..(n + 1)
        /\ last = n + 1 \/ ~upto[last]
        /\ \A j \in first..(last - 1) : upto[j]
    <2>1. last = PartitionPoint(first, n + 1, upto)
      BY DEF LastOf
    <2> HIDE DEF n, upto, first, last
    <2>2. first \in Int /\ (n + 1) \in Int /\ first <= n + 1
      BY <1>1, <1>2
    <2> QED BY <2>1, <2>2, PartitionFacts
  <1>4. \A i, j \in DOMAIN segments : i < j => segments[i].scope <= segments[j].scope
    BY <1>1 DEF SegmentsOrdered
  <1>tests. \A i \in DOMAIN segments : /\ below[i] <=> segments[i].scope < s
                                       /\ upto[i] <=> ~(s < segments[i].scope)
    OBVIOUS
  <1> HIDE DEF below, upto
  <1>5. ASSUME NEW i \in DOMAIN segments
        PROVE  segments[i].scope = s <=> first <= i /\ i < last
    <2> HIDE DEF n, first, last
    <2>1. i \in Int /\ first \in Int /\ last \in Int
      BY <1>1, <1>2, <1>3
    <2>2. i < first => segments[i].scope < s
      <3>1. i < first => i \in 1..(first - 1)
        BY <1>1, <2>1
      <3> QED BY <1>2, <1>tests, <3>1
    <2>3. first <= i => ~(segments[i].scope < s)
      <3>1. first <= i => first \in DOMAIN segments
        BY <1>1, <1>2, <2>1
      <3>2. first <= i => ~(segments[first].scope < s)
        BY <1>2, <1>tests, <3>1, <1>1
      <3> QED BY <1>1, <1>4, <2>1, <3>1, <3>2
    <2>4. first <= i /\ i < last => ~(s < segments[i].scope)
      <3>1. first <= i /\ i < last => i \in first..(last - 1)
        BY <2>1
      <3> QED BY <1>3, <1>tests, <3>1
    <2>5. last <= i => s < segments[i].scope
      <3>1. last <= i => last \in DOMAIN segments
        BY <1>1, <1>2, <1>3, <2>1
      <3>2. last <= i => s < segments[last].scope
        BY <1>1, <1>3, <1>tests, <3>1
      <3> QED BY <1>1, <1>4, <2>1, <3>1, <3>2
    <2> QED BY <1>1, <2>1, <2>2, <2>3, <2>4, <2>5
  <1> QED BY <1>1, <1>2, <1>3, <1>5

\* Within a scope the segments stand in order of time.
LEMMA ScopeInTimeOrder ==
  ASSUME TypeOK, SegmentsOrdered, NEW s \in Scope \union {NoScope},
         NEW i \in DOMAIN segments, NEW j \in DOMAIN segments, i < j,
         segments[i].scope = s, segments[j].scope = s
  PROVE  segments[i].range.end <= segments[j].range.start
PROOF BY ScopeNumbers DEF SegmentsOrdered

LEMMA PointLookupFinds ==
  ASSUME TypeOK, SegmentsOrdered, NEW s \in Scope \union {NoScope}, NEW t \in Int
  PROVE  PointLookup(s, t) = {g \in Segments : g.scope = s /\ Contains(g.range, t)}
  <1> DEFINE first  == FirstOf(s)
             last   == LastOf(s)
             begun  == [i \in DOMAIN segments |-> ~(t < segments[i].range.start)]
             p      == PartitionPoint(first, last, begun)
  <1>1. /\ first \in Int /\ last \in Int /\ 1 <= first /\ first <= last /\ last <= Len(segments) + 1
        /\ DOMAIN segments = 1..Len(segments) /\ Len(segments) \in Nat
        /\ \A i \in DOMAIN segments : segments[i].scope = s <=> first <= i /\ i < last
    BY ScopeBounds
  <1>2. PointLookup(s, t) = IF p = first THEN {}
                            ELSE {g \in {segments[p - 1]} : Contains(g.range, t)}
    BY DEF PointLookup
  <1>3. /\ p \in first..last
        /\ p = last \/ ~begun[p]
        /\ \A j \in first..(p - 1) : begun[j]
    <2> HIDE DEF first, last, begun
    <2> QED BY <1>1, PartitionFacts
  <1>tests. \A i \in DOMAIN segments : begun[i] <=> ~(t < segments[i].range.start)
    OBVIOUS
  <1> HIDE DEF first, last, p, begun
  <1>4. \A i \in DOMAIN segments : /\ segments[i].range.start \in Int /\ segments[i].range.end \in Int
                                   /\ segments[i].range.start < segments[i].range.end
    BY SegmentTyped
  <1>5. ASSUME NEW i \in DOMAIN segments, segments[i].scope = s, Contains(segments[i].range, t)
        PROVE  p # first /\ i = p - 1
    <2>1. i \in Int /\ first <= i /\ i < last
      BY <1>1, <1>5
    <2>2. segments[i].range.start <= t /\ t < segments[i].range.end
      BY <1>5 DEF Contains
    <2>3. ~(p <= i)
      <3> SUFFICES ASSUME p <= i PROVE FALSE
        OBVIOUS
      <3>1. p \in DOMAIN segments /\ p < last /\ t < segments[p].range.start
        <4>1. p \in DOMAIN segments /\ p < last
          BY <1>1, <1>3, <2>1
        <4> QED BY <1>3, <1>4, <1>tests, <4>1
      <3>2. p # i
        BY <1>4, <2>2, <3>1
      <3>3. segments[p].scope = s /\ p < i
        BY <1>1, <1>3, <2>1, <3>1, <3>2
      <3>4. segments[p].range.end <= segments[i].range.start
        BY <1>5, <3>1, <3>3, ScopeInTimeOrder
      <3> QED BY <1>4, <2>2, <3>1, <3>4
    <2>4. ~(i < p - 1)
      <3> SUFFICES ASSUME i < p - 1 PROVE FALSE
        OBVIOUS
      <3>1. (p - 1) \in first..(p - 1) /\ (p - 1) \in DOMAIN segments /\ p - 1 < last
        BY <1>1, <1>3, <2>1
      <3>2. segments[p - 1].range.start <= t /\ segments[p - 1].scope = s
        <4>1. ~(t < segments[p - 1].range.start)
          BY <1>3, <1>tests, <3>1
        <4>2. first <= p - 1
          BY <1>1, <1>3, <3>1
        <4> QED BY <1>1, <1>4, <3>1, <4>1, <4>2
      <3>3. segments[i].range.end <= segments[p - 1].range.start
        BY <1>5, <3>1, <3>2, ScopeInTimeOrder
      <3> QED BY <1>4, <2>2, <3>1, <3>2, <3>3
    <2> QED BY <1>1, <1>3, <2>1, <2>3, <2>4
  <1>6. p # first => (p - 1) \in DOMAIN segments /\ segments[p - 1].scope = s
    BY <1>1, <1>3
  <1>7. ASSUME NEW g \in Segments, g.scope = s, Contains(g.range, t)
        PROVE  g \in PointLookup(s, t)
    BY <1>2, <1>5, <1>7 DEF Segments
  <1>8. ASSUME NEW g \in PointLookup(s, t)
        PROVE  g \in Segments /\ g.scope = s /\ Contains(g.range, t)
    BY <1>2, <1>6, <1>8 DEF Segments
  <1> QED BY <1>7, <1>8

\* A range lookup keeps what a scan of the scope would: the segments before the
\* first it looks at, and after the last, do not meet the range.
LEMMA RangeLookupFinds ==
  ASSUME TypeOK, SegmentsOrdered, NEW s \in Scope \union {NoScope}, NEW r \in TimeRange
  PROVE  RangeLookup(s, r) =
           UNION {{[g EXCEPT !.range = c] : c \in Intersection(r, g.range)} :
                  g \in {g \in Segments : g.scope = s}}
  <1> DEFINE first == FirstOf(s)
             last  == LastOf(s)
             ended == [i \in DOMAIN segments |-> segments[i].range.end <= r.start]
             found == PartitionPoint(first, last, ended)
             from  == IF found # first /\ segments[found - 1].range.end > r.start
                      THEN found - 1 ELSE found
             Clipped(g) == {[g EXCEPT !.range = c] : c \in Intersection(r, g.range)}
             visited == {i \in from..(last - 1) : segments[i].range.start < r.end}
  <1>1. /\ first \in Int /\ last \in Int /\ 1 <= first /\ first <= last /\ last <= Len(segments) + 1
        /\ DOMAIN segments = 1..Len(segments) /\ Len(segments) \in Nat
        /\ \A i \in DOMAIN segments : segments[i].scope = s <=> first <= i /\ i < last
    BY ScopeBounds
  <1>2. RangeLookup(s, r) = UNION {Clipped(segments[i]) : i \in visited}
    BY DEF RangeLookup
  <1>3. /\ found \in first..last
        /\ found = last \/ ~ended[found]
        /\ \A j \in first..(found - 1) : ended[j]
    <2> HIDE DEF first, last, ended
    <2> QED BY <1>1, PartitionFacts
  <1>4. \A i \in DOMAIN segments : /\ segments[i].range.start \in Int /\ segments[i].range.end \in Int
                                   /\ segments[i].range.start < segments[i].range.end
                                   /\ segments[i].range \in TimeRange
    BY SegmentTyped
  <1>5. r.start \in Int /\ r.end \in Int
    BY RangeEnds
  <1>6. from \in Int /\ first <= from /\ from <= last /\ from <= found
    <2> HIDE DEF first, last, found
    <2> QED BY <1>1, <1>3
  <1>tests. \A i \in DOMAIN segments : ended[i] <=> segments[i].range.end <= r.start
    OBVIOUS
  <1> HIDE DEF Clipped, first, last, found, ended
  <1>7. \A i \in visited : i \in DOMAIN segments /\ segments[i].scope = s
    BY <1>1, <1>6
  <1>8. ASSUME NEW i \in DOMAIN segments, segments[i].scope = s, i \notin visited
        PROVE  Clipped(segments[i]) = {}
    <2>1. i \in Int /\ first <= i /\ i < last
      BY <1>1, <1>8
    <2>2. segments[i].range.end <= r.start \/ r.end <= segments[i].range.start
      <3>1. CASE i < from
        <4>1. i \in first..(found - 1)
          BY <1>1, <1>3, <1>6, <2>1, <3>1
        <4> QED BY <1>3, <1>8, <1>tests, <4>1
      <3>2. CASE from <= i
        BY <1>1, <1>4, <1>5, <1>6, <1>8, <2>1, <3>2
      <3> QED BY <1>6, <2>1, <3>1, <3>2
    <2>3. Intersection(r, segments[i].range) = {}
      BY <1>4, <1>5, <2>2 DEF Intersection
    <2> QED BY <2>3 DEF Clipped
  <1> HIDE DEF visited, from
  <1>9. UNION {Clipped(segments[i]) : i \in visited}
          = UNION {Clipped(g) : g \in {g \in Segments : g.scope = s}}
    <2>1. ASSUME NEW x \in UNION {Clipped(segments[i]) : i \in visited}
          PROVE  x \in UNION {Clipped(g) : g \in {g \in Segments : g.scope = s}}
      BY <1>7, <2>1 DEF Segments
    <2>2. ASSUME NEW x \in UNION {Clipped(g) : g \in {g \in Segments : g.scope = s}}
          PROVE  x \in UNION {Clipped(segments[i]) : i \in visited}
      <3>1. PICK i \in DOMAIN segments : segments[i].scope = s /\ x \in Clipped(segments[i])
        BY <2>2 DEF Segments
      <3>2. i \in visited
        BY <1>8, <3>1
      <3> QED BY <3>1, <3>2
    <2> QED BY <2>1, <2>2
  <1> QED BY <1>2, <1>9 DEF Clipped

\* The bisections of both lookups find what a scan of the segments would.
THEOREM LookupsFindTheState == Spec => []LookupsFind
  <1>1. ASSUME ReducerIInv PROVE LookupsFind
    <2>1. TypeOK /\ SegmentsOrdered
      BY <1>1 DEF ReducerIInv, ReducerInv
    <2>2. \A t \in Timestamp : t \in Int
      BY TimeBounds
    <2> QED BY <2>1, <2>2, PointLookupFinds, RangeLookupFinds DEF LookupsFind
  <1> QED BY <1>1, ReducerInductive, PTL
=============================================================================
