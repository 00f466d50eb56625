---------------------------- MODULE MCRepository ----------------------------
(***************************************************************************)
(* Instances of EpisodeRepository for TLC.                                 *)
(***************************************************************************)
EXTENDS EpisodeRepository

CONSTANTS o1, o2, r1, e1, e2, e3, w1, w2

MCSpecA == [max_attempts |-> 2, initial_backoff_ms |-> 1,
            max_backoff_ms |-> 2, total_timeout_ms |-> 3]
MCSpecB == [MCSpecA EXCEPT !.max_attempts = 1]
MCRunSpec == {MCSpecA, MCSpecB}

Member(e, q, b) == [episode_id |-> e, request_id |-> q, body |-> b]
Batch(o, b, spec, members) ==
  [owner |-> o, batch_id |-> b, run_id |-> r1, run_spec |-> spec,
   episodes |-> members]

\* Two overlapping batches of one client, a resubmission of e1 with another
\* body under a used batch_id, another client's attempt to join the run, and
\* a batch that changes the run's configuration.
MCSubmission ==
  {Batch(o1, 1, MCSpecA, {Member(e1, 1, 0), Member(e2, 2, 0)}),
   Batch(o1, 2, MCSpecA, {Member(e2, 2, 0), Member(e3, 3, 0)}),
   Batch(o1, 2, MCSpecA, {Member(e1, 3, 1)}),
   Batch(o2, 3, MCSpecA, {Member(e3, 3, 0)}),
   Batch(o1, 4, MCSpecB, {Member(e3, 3, 0)})}

MCResult(e, a, status, retryable, cleanup) ==
  [episode_id |-> e, attempt_id |-> a, execution_status |-> status,
   retryable |-> retryable, cleanup_status |-> cleanup, usage |-> 0,
   conforms |-> TRUE]

\* Each episode meets the results that matter for a different branch: e1 ends
\* well or is retried (one result does not conform to its plan), e2 is retried
\* or left dirty, e3 ends well or is cancelled.
MCResultSet ==
  UNION {{MCResult(e1, a, "completed", FALSE, "completed"),
          [MCResult(e1, a, "completed", FALSE, "completed")
             EXCEPT !.conforms = FALSE],
          MCResult(e1, a, "failed", TRUE, "completed"),
          MCResult(e2, a, "failed", TRUE, "completed"),
          MCResult(e2, a, "failed", TRUE, "failed"),
          MCResult(e3, a, "completed", FALSE, "completed"),
          MCResult(e3, a, "cancelled", FALSE, "completed")} :
         a \in AttemptId}

\* w1 runs out of resources before slots, w2 out of slots before resources.
MCWorkerCapacity == [w \in WorkerId |-> IF w = w1 THEN 2 ELSE 1]
MCResourceCapacity == [w \in WorkerId |-> IF w = w1 THEN 2 ELSE 3]
MCResourceNeed == [e \in EpisodeId |-> IF e = e2 THEN 2 ELSE 1]
MCCompatible == {<<e1, w1>>, <<e2, w1>>, <<e2, w2>>, <<e3, w2>>}

\* Counting units is adding up needs.
ASSUME TotalNeedIsSum ==
  \A E \in SUBSET EpisodeId :
    TotalNeed(E) = MapThenSumSet(LAMBDA e : ResourceNeed[e], E)
=============================================================================
