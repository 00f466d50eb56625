-------------------------- MODULE ControlContracts --------------------------
(***************************************************************************)
(* The data that Server and Worker exchange and store: the parameters of   *)
(* an instance and the records of the wire contract, reduced to the fields *)
(* that a guard or an assignment of repository.rs, lease.rs and worker.rs  *)
(* reads.  The three usage counters are one number, the four resource      *)
(* dimensions are one dimension, and a request's content is one number.    *)
(***************************************************************************)
EXTENDS Integers, Sequences, FiniteSets, FiniteSetsExt

CONSTANTS
  Owner,          \* clients that submit and cancel
  RunId,          \* run identities
  RunSpec,        \* the run configurations a client may send
  EpisodeId,      \* episode identities
  RequestId,      \* idempotency keys of the members of a batch
  Submission,     \* the BatchRequests a client may send
  WorkerId,       \* registered workers
  MaxAttemptId,   \* bound on RetryPolicy.max_attempts over all RunSpecs
  Capacity,       \* EpisodeRepository.capacity: unfinished episodes admitted
  WorkerCapacity, \* slots of each worker
  ResourceCapacity, \* resource_capacity of each worker (one dimension)
  ResourceNeed,   \* plan.backend.resources of each episode
  Compatible,     \* <<e, w>>: w has the capabilities and components of e's plan
  LeaseMs,        \* lease_ms given to dispatch
  Result,         \* the EpisodeResults a report may carry
  MaxTime,        \* bound on the clock
  None            \* SQL NULL

AttemptId == 1 .. MaxAttemptId

RunSpecs == [max_attempts : AttemptId, initial_backoff_ms : Nat \ {0},
             max_backoff_ms : Nat \ {0}, total_timeout_ms : Nat \ {0}]

EpisodeRequests == [episode_id : EpisodeId, request_id : RequestId, body : Nat]

Submissions ==
  [owner : Owner, batch_id : Nat, run_id : RunId, run_spec : RunSpec,
   episodes : SUBSET EpisodeRequests]

ExecutionStatus == {"completed", "failed", "timeout", "cancelled"}

\* An EpisodeResult: its identity, the fields retry decisions read, the
\* cumulative usage, and whether it passes the score and completeness checks
\* that validate_result_for_plan adds to the identity check.
Results ==
  [episode_id : EpisodeId, attempt_id : AttemptId,
   execution_status : ExecutionStatus, retryable : BOOLEAN,
   cleanup_status : {"completed", "failed"}, usage : Nat, conforms : BOOLEAN]

\* A lease is identified by its nonce; its HMAC token binds it to one worker
\* and to the plan (hence the episode and the attempt) of its dispatch.
Leases == [episode_id : EpisodeId, id : Nat, worker_id : WorkerId,
           expires_at_ms : Nat]

\* DispatchRequest: the plan (identity and deadline), lease, remaining
\* timeout and the usage that earlier attempts have consumed.
Dispatches == [episode_id : EpisodeId, attempt_id : AttemptId,
               deadline_at_ms : Nat, lease : Leases,
               remaining_timeout_ms : Nat, consumed_usage : Nat]

Reports == [lease : Leases, result : Result]

AttemptRows == [episode_id : EpisodeId, attempt_id : AttemptId,
                result : Result, lease : Leases]

RunRows == [owner : Owner, spec : RunSpec]

ActiveStates == {"queued", "dispatched", "cancel_requested"}
HeldStates == {"dispatched", "cancel_requested"}
States == ActiveStates \cup ExecutionStatus \cup {"absent"}

EpisodeRows ==
  [run_id : RunId \cup {None}, request : EpisodeRequests \cup {None},
   attempt_id : AttemptId, deadline_at_ms : Nat, state : States,
   lease : Leases \cup {None}, worker_id : WorkerId \cup {None},
   result : Result \cup {None}]

-----------------------------------------------------------------------------
ASSUME ConstantsAssumption ==
  /\ MaxAttemptId \in Nat \ {0}
  /\ Capacity \in Nat
  /\ WorkerCapacity \in [WorkerId -> Nat]
  /\ ResourceCapacity \in [WorkerId -> Nat]
  /\ ResourceNeed \in [EpisodeId -> Nat]
  /\ LeaseMs \in Nat
  /\ MaxTime \in Nat

ASSUME FiniteAssumption == IsFiniteSet(EpisodeId)

ASSUME RunSpecAssumption == RunSpec \subseteq RunSpecs

ASSUME SubmissionAssumption ==
  /\ Submission \subseteq Submissions
  /\ \A s \in Submission : IsFiniteSet(s.episodes)

\* A truth of arithmetic that the backoff's doubling needs: the proofs cite it
\* because the prover knows nothing of ^.
ASSUME PowerAssumption == \A a \in AttemptId : 2^(a - 1) \in Nat \ {0}

ASSUME ResultAssumption == Result \subseteq Results

\* NULL is none of the values a column can hold.
ASSUME NoneAssumption ==
  /\ None \notin Result
  /\ None \notin WorkerId
  /\ None \notin RunId
  /\ None \notin EpisodeRequests
  /\ None \notin RunRows
  /\ None \notin Leases
  /\ None \notin Dispatches
=============================================================================
