------------------------- MODULE IngestorRefinement ------------------------
(***************************************************************************)
(* Ingestor implements AtomicIngest: the plan, the loop and the reduction  *)
(* are invisible until ingest() returns, and what it returns is the result *)
(* of the answers.                                                         *)
(***************************************************************************)
EXTENDS Ingestor

\* The answer to each segment that was fetched.
AnswerTo ==
  [s \in {calls[i].segment : i \in DOMAIN calls} |->
     (CHOOSE i \in DOMAIN calls : calls[i].segment = s)]

Returned == phase = "done"

Visible == phase \in {"done", "failed"}

Atomic ==
  INSTANCE AtomicIngest WITH
    plan    <- IF Visible THEN plan ELSE Planner!Failed("none"),
    status  <- IF Returned THEN "returned" ELSE IF phase = "failed" THEN "failed" ELSE "asked",
    answers <- IF Returned THEN [s \in DOMAIN AnswerTo |-> calls[AnswerTo[s]].response] ELSE <<>>,
    result  <- IF Returned THEN result ELSE <<>>

\* ingest() is atomic for its caller: whatever the provider answers to the calls
\* of the loop, and wherever it throws, ingest() leaves nothing or returns the
\* buffers of every stream in the provider's order, the other records, the
\* evidence, the sources and artifacts and the state that the answers determine.
IngestIsAtomic == Atomic!Spec
=============================================================================
