--------------------------- MODULE SubtractLoop ---------------------------
(***************************************************************************)
(* subtract(requested, covered) of quant/ingestion/query.hpp, one action   *)
(* per path through the loop body.  The covered ranges are clipped to the  *)
(* request and visited in the order (start, end); visiting a range twice   *)
(* does nothing the second time, so the span of covered ranges is a set.   *)
(***************************************************************************)
EXTENDS TimeRanges, Sequences

CONSTANT CoveredSets  \* the spans of covered ranges a caller may pass

ASSUME CoveredSetsAssumption == CoveredSets \subseteq SUBSET TimeRange

VARIABLES requested, covered,  \* the arguments
          remaining,           \* clipped ranges the loop has not visited
          cursor, missing,     \* the locals of the same names
          pc                   \* "loop", "tail" (after the loop), "done"

subtractVars == <<requested, covered, remaining, cursor, missing, pc>>

SubtractInit ==
  /\ requested \in TimeRange
  /\ covered \in CoveredSets
  /\ remaining = UNION {Intersection(requested, c) : c \in covered}
  /\ cursor = requested.start
  /\ missing = <<>>
  /\ pc = "loop"

\* The range the sorted iteration reaches next.
IsNext(c) == \A d \in remaining : RangeLeq(c, d)

GapBefore(start, end) ==
  IF start < end THEN Append(missing, [start |-> start, end |-> end]) ELSE missing

\* if (covered_range.end <= cursor) continue;
Skip(c) ==
  /\ c.end <= cursor
  /\ remaining' = remaining \ {c}
  /\ UNCHANGED <<requested, covered, cursor, missing, pc>>

\* Record the gap before the range, move the cursor past it, stop at the end.
MutVisitResets(c) ==
  /\ c.end > cursor
  /\ missing' = GapBefore(cursor, c.start)
  /\ cursor' = c.start
  /\ remaining' = remaining \ {c}
  /\ pc' = IF cursor' >= requested.end THEN "tail" ELSE "loop"
  /\ UNCHANGED <<requested, covered>>

MutVisitNoGap(c) ==
  /\ c.end > cursor
  /\ missing' = missing
  /\ cursor' = c.end
  /\ remaining' = remaining \ {c}
  /\ pc' = IF cursor' >= requested.end THEN "tail" ELSE "loop"
  /\ UNCHANGED <<requested, covered>>

Visit(c) ==
  /\ c.end > cursor
  /\ missing' = GapBefore(cursor, c.start)
  /\ cursor' = c.end
  /\ remaining' = remaining \ {c}
  /\ pc' = IF cursor' >= requested.end THEN "tail" ELSE "loop"
  /\ UNCHANGED <<requested, covered>>

Iterate ==
  /\ pc = "loop"
  /\ \E c \in remaining : IsNext(c) /\ (Skip(c) \/ Visit(c))

LoopEnds ==
  /\ pc = "loop"
  /\ remaining = {}
  /\ pc' = "tail"
  /\ UNCHANGED <<requested, covered, remaining, cursor, missing>>

TailGap ==
  /\ pc = "tail"
  /\ missing' = GapBefore(cursor, requested.end)
  /\ pc' = "done"
  /\ UNCHANGED <<requested, covered, remaining, cursor>>

SubtractNext == Iterate \/ LoopEnds \/ TailGap

SubtractSpec == SubtractInit /\ [][SubtractNext]_subtractVars
-----------------------------------------------------------------------------
Missing == {missing[i] : i \in DOMAIN missing}

\* Every value the loop emplaces satisfies the TimeRange constructor, which
\* throws otherwise, and no local leaves its type.
SubtractTypeOK ==
  /\ requested \in TimeRange
  /\ covered \subseteq TimeRange
  /\ remaining \subseteq TimeRange
  /\ cursor \in Timestamp
  /\ missing \in Seq(TimeRange)
  /\ pc \in {"loop", "tail", "done"}

\* The loop invariant.  The cursor stays inside the request; what was returned
\* so far is ordered and never adjacent; each returned range is a maximal gap;
\* every uncovered instant before the cursor was returned; and what is still
\* covered at or after the cursor is covered by a range yet to be visited.
CursorInRequest == requested.start <= cursor /\ cursor <= requested.end

CursorIsMaximal ==
  pc # "done" =>
    \/ cursor = requested.start
    \/ \E c \in covered : Contains(c, cursor - 1)

MissingOrdered ==
  /\ \A i, j \in DOMAIN missing : i < j => missing[i].end < missing[j].start
  /\ pc # "done" => \A i \in DOMAIN missing : missing[i].end < cursor

MissingAreGaps == \A i \in DOMAIN missing : missing[i] \in Gaps(requested, covered)

ReturnedBeforeCursor ==
  \A t \in Timestamp :
    /\ Uncovered(requested, covered, t)
    /\ t < cursor \/ pc = "done"
    => \E i \in DOMAIN missing : Contains(missing[i], t)

RemainingCovers ==
  /\ \A r \in remaining :
       \E c \in covered : Intersection(requested, c) = {r}
  /\ pc = "loop" =>
       \A c \in covered : \A r \in Intersection(requested, c) : r.end > cursor => r \in remaining
  /\ pc # "loop" =>
       \A c \in covered : \A r \in Intersection(requested, c) : r.end <= cursor

LoopInv ==
  /\ CursorInRequest
  /\ CursorIsMaximal
  /\ MissingOrdered
  /\ MissingAreGaps
  /\ ReturnedBeforeCursor
  /\ RemainingCovers

\* The inductive invariant of subtract(): the types of its locals and the loop
\* invariant.
SubtractInv == SubtractTypeOK /\ LoopInv

\* subtract() returns the missing ranges: every maximal uncovered range of the
\* request and nothing else, in order, with no two adjacent ones.
ReturnsTheGaps ==
  pc = "done" =>
    /\ Missing = Gaps(requested, covered)
    /\ \A i, j \in DOMAIN missing : i < j => missing[i].end < missing[j].start
=============================================================================
