----------------------------- MODULE MCDispatch -----------------------------
(***************************************************************************)
(* Instances of DispatchSystem for TLC: one run with two episodes.         *)
(***************************************************************************)
EXTENDS DispatchSystem

CONSTANTS o1, r1, e1, e2, w1, w2, TotalTimeoutMs, Slots

MCSpec == [max_attempts |-> MaxAttemptId, initial_backoff_ms |-> 1,
           max_backoff_ms |-> 1, total_timeout_ms |-> TotalTimeoutMs]
MCRunSpec == {MCSpec}

Member(e, q) == [episode_id |-> e, request_id |-> q, body |-> 0]

MCSubmission ==
  {[owner |-> o1, batch_id |-> 1, run_id |-> r1, run_spec |-> MCSpec,
    episodes |-> {Member(e1, 1), Member(e2, 2)}]}

MCResult(e, a, status, cleanup, usage) ==
  [episode_id |-> e, attempt_id |-> a, execution_status |-> status,
   retryable |-> (status = "failed" /\ cleanup = "completed"),
   cleanup_status |-> cleanup, usage |-> usage, conforms |-> TRUE]

\* e1 completes or fails cleanly, and is then retried; e2 is cancelled or left
\* unclean, which ends it.  Each attempt has a result that recovery after a
\* crash may report.
MCResultSet ==
  {MCResult(e1, 1, "completed", "completed", 1),
   MCResult(e1, 1, "failed", "completed", 1),
   MCResult(e1, 2, "failed", "completed", 2),
   MCResult(e2, 1, "failed", "failed", 0),
   MCResult(e2, 1, "cancelled", "completed", 1)}

MCWorkerCapacity == [w \in WorkerId |-> Slots]
MCResourceCapacity == [w \in WorkerId |-> 2]
MCResourceNeed == [e \in EpisodeId |-> 1]
MCCompatible == {<<e1, w1>>, <<e1, w2>>, <<e2, w1>>}
MCCompatibleW1 == EpisodeId \X WorkerId
MCClockLag == [w \in WorkerId |-> IF w = w1 THEN 1 ELSE 0]
=============================================================================
