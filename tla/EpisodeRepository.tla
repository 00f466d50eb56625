------------------------- MODULE EpisodeRepository -------------------------
(***************************************************************************)
(* The Server's episode repository (reference-control/src/repository.rs,   *)
(* struct EpisodeRepository): a SQLite database in which every operation   *)
(* is one IMMEDIATE transaction.  A transaction that returns an error is   *)
(* rolled back, so an action stands for a committed transaction and its    *)
(* guard for the conjunction of the checks that would have returned one.   *)
(*                                                                         *)
(* Tables are modelled by their contents: the keyed tables runs, episodes, *)
(* retry_delays as functions on their key, batches and attempts (joined    *)
(* with attempt_leases) as sets of rows, notifications as the sequence of  *)
(* payloads inserted for each episode.                                     *)
(*                                                                         *)
(* A definition named X_Variant is X with a plausible bug.  No action uses *)
(* one; put in the place of X it makes TLC report a property violated,     *)
(* which shows that the property depends on X (README.md lists them).      *)
(***************************************************************************)
EXTENDS ControlContracts

VARIABLES
  now,            \* the wall clock every operation is given
  runs,           \* table runs: owner and stored RunSpec of a run, or None
  batches,        \* table batches: the submissions that got a receipt
  episodes,       \* table episodes
  attempts,       \* tables attempts and attempt_leases
  retryDelays,    \* table retry_delays: not_before_ms (0: no row)
  notifications,  \* table notifications: payloads inserted per episode
  nonce,          \* leases issued so far per episode: the next fresh lease_id
  dispatches      \* history: every DispatchRequest dispatch has returned

serverVars == <<now, runs, batches, episodes, attempts, retryDelays,
                notifications, nonce, dispatches>>

\* No row for this episode_id yet.
AbsentRow ==
  [run_id |-> None, request |-> None, attempt_id |-> 1, deadline_at_ms |-> 0,
   state |-> "absent", lease |-> None, worker_id |-> None, result |-> None]

ServerInit ==
  /\ now = 0
  /\ runs = [r \in RunId |-> None]
  /\ batches = {}
  /\ episodes = [e \in EpisodeId |-> AbsentRow]
  /\ attempts = {}
  /\ retryDelays = [e \in EpisodeId |-> 0]
  /\ notifications = [e \in EpisodeId |-> <<>>]
  /\ nonce = [e \in EpisodeId |-> 0]
  /\ dispatches = {}

-----------------------------------------------------------------------------
(* submit *)

ActiveEpisodes == {e \in EpisodeId : episodes[e].state \in ActiveStates}

\* SELECT ... WHERE request_id=? OR episode_id=?
Existing(m) ==
  {e \in EpisodeId :
     /\ episodes[e].state # "absent"
     /\ e = m.episode_id \/ episodes[e].request.request_id = m.request_id}

\* validate_batch_submission: the batch is not empty, no two members share an
\* identity, and a stored run has exactly this configuration.
ValidBatch(s) ==
  /\ s.episodes # {}
  /\ \A m, n \in s.episodes :
       m.request_id = n.request_id \/ m.episode_id = n.episode_id => m = n
  /\ runs[s.run_id] # None => runs[s.run_id].spec = s.run_spec

\* Members without a row: the ones this submission would insert.
NewMembers(s) == {m \in s.episodes : Existing(m) = {}}

\* A member with a row must be the very request stored in that row.
NoConflict_RunOnly(s) ==
  \A m \in s.episodes : \A e \in Existing(m) : episodes[e].run_id = s.run_id

NoConflict(s) ==
  \A m \in s.episodes : \A e \in Existing(m) :
    episodes[e].run_id = s.run_id /\ episodes[e].request = m

\* The loop counts the members it adds on top of all unfinished episodes.
HasRoom_Stale(s) == Cardinality(ActiveEpisodes) <= Capacity

HasRoom(s) ==
  NewMembers(s) # {} =>
    Cardinality(ActiveEpisodes) + Cardinality(NewMembers(s)) <= Capacity

\* PlanResolver.resolve fixes attempt 1 and the deadline, once.
ResolvedRow_FromZero(s, m) ==
  [run_id |-> s.run_id, request |-> m, attempt_id |-> 0,
   deadline_at_ms |-> now + s.run_spec.total_timeout_ms, state |-> "queued",
   lease |-> None, worker_id |-> None, result |-> None]

ResolvedRow(s, m) ==
  [run_id |-> s.run_id, request |-> m, attempt_id |-> 1,
   deadline_at_ms |-> now + s.run_spec.total_timeout_ms, state |-> "queued",
   lease |-> None, worker_id |-> None, result |-> None]

\* A replay of a stored batch returns its receipt and changes nothing.
Submit(s) ==
  /\ \A b \in batches : b.batch_id # s.batch_id
  /\ runs[s.run_id] # None => runs[s.run_id].owner = s.owner
  /\ ValidBatch(s)
  /\ NoConflict(s)
  /\ HasRoom(s)
  /\ runs' = [runs EXCEPT ![s.run_id] =
                [owner |-> s.owner, spec |-> s.run_spec]]
  /\ episodes' =
       [e \in EpisodeId |->
          IF \E m \in NewMembers(s) : m.episode_id = e
          THEN ResolvedRow(s, CHOOSE m \in NewMembers(s) : m.episode_id = e)
          ELSE episodes[e]]
  /\ batches' = batches \cup {s}
  /\ UNCHANGED <<now, attempts, retryDelays, notifications, nonce, dispatches>>

-----------------------------------------------------------------------------
(* dispatch *)

\* The episodes whose slot and resources worker w holds.
Assigned(w) ==
  {e \in EpisodeId :
     episodes[e].worker_id = w /\ episodes[e].state \in HeldStates}

\* The resources that the episodes of E need, one element per unit, and their
\* sum: the units of different episodes are disjoint.
Units(E) == UNION {{e} \X (1 .. ResourceNeed[e]) : e \in E}

TotalNeed(E) == Cardinality(Units(E))

ResourcesUsed(w) == TotalNeed(Assigned(w))

\* The slots and the resources of w suffice for one more episode.
Fits_CancelledFree(e, w) ==
  LET running == {f \in Assigned(w) : episodes[f].state = "dispatched"} IN
  /\ Cardinality(running) < WorkerCapacity[w]
  /\ TotalNeed(running) + ResourceNeed[e] <= ResourceCapacity[w]

Fits_OffByOne(e, w) ==
  /\ Cardinality(Assigned(w)) <= WorkerCapacity[w]
  /\ ResourcesUsed(w) + ResourceNeed[e] <= ResourceCapacity[w]

Fits(e, w) ==
  /\ Cardinality(Assigned(w)) < WorkerCapacity[w]
  /\ ResourcesUsed(w) + ResourceNeed[e] <= ResourceCapacity[w]

\* Only a queued episode is dispatched: an expired lease is not taken back.
Dispatchable_Expired(e) ==
  \/ episodes[e].state = "queued"
  \/ episodes[e].state = "dispatched" /\ episodes[e].lease.expires_at_ms <= now

Dispatchable(e) == episodes[e].state = "queued"

PriorUsage_Fresh(e) == 0

\* Usage of the latest accepted attempt, zero before the first.
PriorUsage(e) ==
  LET prior == {a \in attempts : a.episode_id = e}
  IN  IF prior = {} THEN 0
      ELSE (CHOOSE a \in prior : \A b \in prior :
              a.attempt_id >= b.attempt_id).result.usage

\* lease::issue: a fresh nonce, bound to the worker, never past the deadline.
IssueLease(e, w) ==
  [episode_id |-> e, id |-> nonce[e] + 1, worker_id |-> w,
   expires_at_ms |-> IF now + LeaseMs <= episodes[e].deadline_at_ms
                     THEN now + LeaseMs ELSE episodes[e].deadline_at_ms]

DispatchRequest(e, w) ==
  [episode_id |-> e, attempt_id |-> episodes[e].attempt_id,
   deadline_at_ms |-> episodes[e].deadline_at_ms, lease |-> IssueLease(e, w),
   remaining_timeout_ms |-> episodes[e].deadline_at_ms - now,
   consumed_usage |-> PriorUsage(e)]

Dispatch(e, w) ==
  /\ Dispatchable(e)
  /\ retryDelays[e] <= now
  /\ <<e, w>> \in Compatible
  /\ Fits(e, w)
  /\ now < episodes[e].deadline_at_ms
  /\ episodes' = [episodes EXCEPT ![e].state = "dispatched",
                                  ![e].lease = IssueLease(e, w),
                                  ![e].worker_id = w]
  /\ nonce' = [nonce EXCEPT ![e] = @ + 1]
  /\ dispatches' = dispatches \cup {DispatchRequest(e, w)}
  /\ UNCHANGED <<now, runs, batches, attempts, retryDelays, notifications>>

-----------------------------------------------------------------------------
(* accept_result *)

SavedAttempt(rep) ==
  {a \in attempts : /\ a.episode_id = rep.result.episode_id
                    /\ a.attempt_id = rep.result.attempt_id}

\* Looks only at the current attempt, which a retry has replaced.
AlreadyAccepted_CurrentOnly(rep) ==
  /\ episodes[rep.result.episode_id].lease = rep.lease
  /\ episodes[rep.result.episode_id].result = rep.result

\* The two early returns that answer Ok without touching the database.
AlreadyAccepted(rep) ==
  LET row == episodes[rep.result.episode_id] IN
  \/ \E a \in SavedAttempt(rep) : a.result = rep.result /\ a.lease = rep.lease
  \/ /\ SavedAttempt(rep) = {}
     /\ row.lease = rep.lease
     /\ row.result = rep.result

\* Every check between the early returns and the first INSERT.
Acceptable(rep) ==
  LET row == episodes[rep.result.episode_id] IN
  /\ SavedAttempt(rep) = {}
  /\ row.lease = rep.lease
  /\ row.result = None
  /\ rep.lease.expires_at_ms > now
  /\ row.state = "cancel_requested" =>
       rep.result.execution_status = "cancelled"
  /\ row.state \in HeldStates
  /\ rep.result.attempt_id = row.attempt_id
  /\ rep.result.conforms

Retry(e) == runs[episodes[e].run_id].spec

\* initial_backoff_ms * 2^(attempt-1), capped; the saturating arithmetic of
\* the code cannot be told from this once max_backoff_ms caps the product.
Backoff(e) ==
  LET raw == Retry(e).initial_backoff_ms * 2^(episodes[e].attempt_id - 1)
  IN  IF raw <= Retry(e).max_backoff_ms THEN raw ELSE Retry(e).max_backoff_ms

ShouldRetry_Unclean(rep) ==
  LET e == rep.result.episode_id IN
  /\ episodes[e].state = "dispatched"
  /\ rep.result.execution_status = "failed"
  /\ rep.result.retryable
  /\ episodes[e].attempt_id < Retry(e).max_attempts
  /\ now + Backoff(e) < episodes[e].deadline_at_ms

ShouldRetry(rep) ==
  LET e == rep.result.episode_id IN
  /\ episodes[e].state = "dispatched"
  /\ rep.result.execution_status = "failed"
  /\ rep.result.retryable
  /\ rep.result.cleanup_status = "completed"
  /\ episodes[e].attempt_id < Retry(e).max_attempts
  /\ now + Backoff(e) < episodes[e].deadline_at_ms

SaveAttempt(rep) ==
  attempts' = attempts \cup
    {[episode_id |-> rep.result.episode_id,
      attempt_id |-> rep.result.attempt_id,
      result |-> rep.result, lease |-> rep.lease]}

\* retry_execution_plan and the UPDATE after it: the same plan with the next
\* attempt_id goes back to the queue, lease, worker and result cleared.
RetriedRow_SameAttempt(row) ==
  [row EXCEPT !.state = "queued", !.lease = None, !.worker_id = None,
              !.result = None]

RetriedRow_NewDeadline(row) ==
  [row EXCEPT !.attempt_id = @ + 1, !.state = "queued", !.lease = None,
              !.worker_id = None, !.result = None,
              !.deadline_at_ms = now + runs[row.run_id].spec.total_timeout_ms]

RetriedRow(row) ==
  [row EXCEPT !.attempt_id = @ + 1, !.state = "queued", !.lease = None,
              !.worker_id = None, !.result = None]

RetryEpisode_Notifies(rep) ==
  LET e == rep.result.episode_id IN
  /\ ShouldRetry(rep)
  /\ episodes' = [episodes EXCEPT ![e] = RetriedRow(@)]
  /\ retryDelays' = [retryDelays EXCEPT ![e] = now + Backoff(e)]
  /\ notifications' = [notifications EXCEPT ![e] = Append(@, rep.result)]

\* The retry branch.
RetryEpisode(rep) ==
  LET e == rep.result.episode_id IN
  /\ ShouldRetry(rep)
  /\ episodes' = [episodes EXCEPT ![e] = RetriedRow(@)]
  /\ retryDelays' = [retryDelays EXCEPT ![e] = now + Backoff(e)]
  /\ UNCHANGED notifications

\* As a bug: the result of a cancelled episode is not announced.
SettleEpisode_CancelSilent(rep) ==
  LET e == rep.result.episode_id IN
  /\ ~ShouldRetry(rep)
  /\ episodes' = [episodes EXCEPT ![e].state = rep.result.execution_status,
                                  ![e].result = rep.result]
  /\ notifications' = [notifications EXCEPT ![e] =
       IF episodes[e].state = "dispatched" THEN Append(@, rep.result) ELSE @]
  /\ UNCHANGED retryDelays

\* Otherwise the result is the episode's final one and is announced.
SettleEpisode(rep) ==
  LET e == rep.result.episode_id IN
  /\ ~ShouldRetry(rep)
  /\ episodes' = [episodes EXCEPT ![e].state = rep.result.execution_status,
                                  ![e].result = rep.result]
  /\ notifications' = [notifications EXCEPT ![e] = Append(@, rep.result)]
  /\ UNCHANGED retryDelays

AcceptResult(rep) ==
  /\ Acceptable(rep)
  /\ SaveAttempt(rep)
  /\ RetryEpisode(rep) \/ SettleEpisode(rep)
  /\ UNCHANGED <<now, runs, batches, nonce, dispatches>>

-----------------------------------------------------------------------------
(* cancel_run *)

CancelledRow_Any(row) ==
  [row EXCEPT !.state = IF @ = "queued" THEN "cancelled"
                                        ELSE "cancel_requested"]

CancelledRow(row) ==
  IF row.state \in {"queued", "dispatched"}
  THEN [row EXCEPT !.state = IF @ = "queued" THEN "cancelled"
                                             ELSE "cancel_requested"]
  ELSE row

CancelRun(owner, run) ==
  /\ runs[run] # None
  /\ runs[run].owner = owner
  /\ episodes' =
       [e \in EpisodeId |->
          IF episodes[e].run_id = run THEN CancelledRow(episodes[e])
                                      ELSE episodes[e]]
  /\ UNCHANGED <<now, runs, batches, attempts, retryDelays, notifications,
                 nonce, dispatches>>

Tick ==
  /\ now < MaxTime
  /\ now' = now + 1
  /\ UNCHANGED <<runs, batches, episodes, attempts, retryDelays,
                 notifications, nonce, dispatches>>

\* On its own the repository is checked against workers that may answer
\* anything, at any time and any number of times, under a lease they hold.
ServerNext ==
  \/ \E s \in Submission : Submit(s)
  \/ \E e \in EpisodeId, w \in WorkerId : Dispatch(e, w)
  \/ \E d \in dispatches, res \in Result :
       AcceptResult([lease |-> d.lease, result |-> res])
  \/ \E o \in Owner, r \in RunId : CancelRun(o, r)
  \/ Tick

ServerSpec == ServerInit /\ [][ServerNext]_serverVars
-----------------------------------------------------------------------------
(* What the repository promises, whatever its workers report. *)

TypeOK ==
  /\ now \in Nat
  /\ runs \in [RunId -> RunRows \cup {None}]
  /\ batches \subseteq Submission
  /\ episodes \in [EpisodeId -> EpisodeRows]
  /\ attempts \subseteq AttemptRows
  /\ retryDelays \in [EpisodeId -> Nat]
  /\ notifications \in [EpisodeId -> Seq(Result)]
  /\ nonce \in [EpisodeId -> Nat]
  /\ dispatches \subseteq Dispatches

\* The queue bound of submit holds at all times, although a retry puts an
\* episode back into the queue without going through submit again.
CapacityRespected == Cardinality(ActiveEpisodes) <= Capacity

\* The slots and the resources reserved at a worker never exceed what it has,
\* also while cancelled episodes still hold theirs (dispatch).
WorkerReservations ==
  \A w \in WorkerId :
    /\ Cardinality(Assigned(w)) <= WorkerCapacity[w]
    /\ ResourcesUsed(w) <= ResourceCapacity[w]

\* A receipt stands for the whole batch: every member is stored, under the
\* run, the owner and the configuration the batch was submitted with (submit).
ReceiptCoversBatch ==
  \A s \in batches :
    /\ runs[s.run_id] = [owner |-> s.owner, spec |-> s.run_spec]
    /\ \A m \in s.episodes :
         /\ episodes[m.episode_id].request = m
         /\ episodes[m.episode_id].run_id = s.run_id

\* One attempt of an episode is authorised by one lease only: no schedule of
\* dispatch, accept_result and cancel_run issues a second one.
OneLeasePerAttempt ==
  \A c, d \in dispatches :
    c.episode_id = d.episode_id /\ c.attempt_id = d.attempt_id => c = d

\* The saved attempts of an episode are 1, 2, ... without gap or duplicate up
\* to the current one, and each attempt but the last failed, was retryable
\* and had been cleaned up (accept_result, retry_execution_plan).
RetryChain ==
  \A e \in EpisodeId :
    LET saved == {a \in attempts : a.episode_id = e}
        row == episodes[e]
    IN  /\ {a.attempt_id : a \in saved} =
             1 .. (IF row.result = None THEN row.attempt_id - 1
                                        ELSE row.attempt_id)
        /\ \A a, b \in saved : a.attempt_id = b.attempt_id => a = b
        /\ \A a \in saved : a.attempt_id < row.attempt_id =>
             /\ a.result.execution_status = "failed"
             /\ a.result.retryable
             /\ a.result.cleanup_status = "completed"

\* Exactly one notification for an episode with a final result, carrying that
\* result, and none for any other: duplicate reports and intermediate attempts
\* are not announced (accept_result).
NotifiedExactlyOnce ==
  \A e \in EpisodeId :
    notifications[e] = IF episodes[e].result = None THEN <<>>
                       ELSE <<episodes[e].result>>

\* A later attempt never gets more time, nor a lease beyond the deadline of
\* the first dispatch: the deadline is not reset by a retry (dispatch).
RetryGrantsNoTime ==
  \A c, d \in dispatches :
    c.episode_id = d.episode_id /\ c.attempt_id < d.attempt_id =>
      /\ d.remaining_timeout_ms < c.remaining_timeout_ms
      /\ d.lease.expires_at_ms <= c.deadline_at_ms

\* An accepted attempt and a settled or cancelled episode are never altered:
\* no late, repeated or conflicting report, cancellation or resubmission
\* touches them.
SettledIsFinal ==
  [][/\ attempts \subseteq attempts'
     /\ \A e \in EpisodeId :
          episodes[e].state \in ExecutionStatus => episodes'[e] = episodes[e]
    ]_serverVars

-----------------------------------------------------------------------------
(* The client's view of an episode's row, and the contract it implements.  *)

ContractPhase(state) ==
  CASE state = "absent" -> "unknown"
    [] state \in {"queued", "dispatched"} -> "pending"
    [] state = "cancel_requested" -> "withdrawing"
    [] OTHER -> "finished"

Contract == INSTANCE EpisodeContract WITH
  Episode <- EpisodeId, Outcome <- Result, NoOutcome <- None, MaxTries <- MaxAttemptId,
  phase <- [e \in EpisodeId |-> ContractPhase(episodes[e].state)],
  tries <- [e \in EpisodeId |-> episodes[e].attempt_id],
  outcome <- [e \in EpisodeId |-> episodes[e].result],
  announced <- notifications

\* Every behaviour of the repository is one of the contract: whatever batches,
\* cancellations, duplicate, late or dirty reports and retries do to the rows,
\* a client sees an episode admitted once, tried again only while it is neither
\* cancelled nor settled, settled once and told so once (submit, dispatch,
\* accept_result, cancel_run).
ImplementsContract == Contract!Spec
=============================================================================
