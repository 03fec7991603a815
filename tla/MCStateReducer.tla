--------------------------- MODULE MCStateReducer -------------------------
(* StateReducer for TLC: up to three observations of two scopes and of no   *)
(* scope, over requests inside and at the ends of the clock.                *)
EXTENDS StateReducer

CONSTANT Kinds  \* the kinds of evidence of a run

MCRequests == {[start |-> 0, end |-> MaxTime], [start |-> 1, end |-> MaxTime]}

MCObservations == {o \in QualityObservation : o.kind \in Kinds /\ o.scope < 2}

\* Bound: two observations of any kind per request, or three that are Complete
\* or Missing.
MCObservationSets ==
  LET plain == {o \in MCObservations : o.kind \in {"Complete", "Missing"}}
  IN  {{}} \union {{o, p} : o, p \in MCObservations} \union {{o, p, q} : o, p, q \in plain}

MCExpectedSets == {{}, {2}, {NoScope, 1}}
=============================================================================
