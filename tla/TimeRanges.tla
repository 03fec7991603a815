---------------------------- MODULE TimeRanges ----------------------------
(***************************************************************************)
(* Half-open ranges [start, end) of timestamps and the operations on them  *)
(* (quant/ingestion/query.hpp).  A timestamp is a signed 64-bit count of   *)
(* nanoseconds; the two ends of that type are the constants MinTime and    *)
(* MaxTime, so a run shrinks the type without losing its limits.  A        *)
(* std::optional<TimeRange> is a set with at most one range.               *)
(***************************************************************************)
EXTENDS Integers

CONSTANTS MinTime,  \* numeric_limits<int64_t>::min()
          MaxTime   \* numeric_limits<int64_t>::max()

ASSUME TimeBounds == MinTime \in Int /\ MaxTime \in Int /\ MinTime <= 0 /\ 0 < MaxTime

Timestamp == MinTime..MaxTime

\* The constructor rejects an empty or reversed range.
TimeRange == {r \in [start : Timestamp, end : Timestamp] : r.start < r.end}

\* The constructor rejects a negative margin.
TimeMargin == [before : 0..MaxTime, after : 0..MaxTime]

Contains(range, time) == range.start <= time /\ time < range.end

\* The instants of a range: what the properties compare.
Instants(range) == range.start .. (range.end - 1)

InstantsOf(ranges) == UNION {Instants(r) : r \in ranges}

Overlaps(lhs, rhs) == lhs.start < rhs.end /\ rhs.start < lhs.end

Intersection(lhs, rhs) ==
  LET start == IF lhs.start < rhs.start THEN rhs.start ELSE lhs.start
      end   == IF rhs.end < lhs.end THEN rhs.end ELSE lhs.end
  IN  IF end <= start THEN {} ELSE {[start |-> start, end |-> end]}

\* expand() throws std::overflow_error unless both new ends are timestamps.
CanExpand(range, margin) ==
  /\ ~(range.start < MinTime + margin.before)
  /\ ~(range.end > MaxTime - margin.after)

Expand(range, margin) ==
  [start |-> range.start - margin.before, end |-> range.end + margin.after]

\* The order of every sort of ranges in the code: by start, then by end.
RangeLeq(lhs, rhs) ==
  lhs.start < rhs.start \/ (lhs.start = rhs.start /\ lhs.end <= rhs.end)

-----------------------------------------------------------------------------
\* What subtract() promises: the maximal ranges of the request that no covered
\* range touches.  SubtractLoop shows that the loop computes exactly this.
Uncovered(requested, covered, time) ==
  /\ Contains(requested, time)
  /\ \A c \in covered : ~Contains(c, time)

Gaps(requested, covered) ==
  {g \in TimeRange : /\ \A t \in Instants(g) : Uncovered(requested, covered, t)
                     /\ ~Uncovered(requested, covered, g.start - 1)
                     /\ ~Uncovered(requested, covered, g.end)}
=============================================================================
