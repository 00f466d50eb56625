---------------------------- MODULE WorkerLedger ----------------------------
(***************************************************************************)
(* A Worker: its durable ledger of claimed dispatches and unreported       *)
(* results (repository.rs, struct WorkerLedger) and the process around it  *)
(* (worker.rs: execute_dispatch, recover_interrupted, flush_results).  The *)
(* ledger survives a crash, the process does not.  Each ledger operation   *)
(* is one SQLite transaction and one action; between two operations of one *)
(* function the process may crash and other threads may run.  As in        *)
(* EpisodeRepository, X_Variant is X with a plausible bug.                 *)
(***************************************************************************)
EXTENDS ControlContracts

CONSTANT MaxCrashes     \* bound on the crashes of all workers together

ASSUME CrashAssumption == MaxCrashes \in Nat

\* PRIMARY KEY(episode_id, attempt_id) of the table executions.
Key == EpisodeId \X AttemptId

VARIABLES
  executions,  \* table executions of each worker (durable)
  phase,       \* the process: "down", "recovering" (recover_interrupted) or "up"
  threads,     \* where execute_dispatch is for each key in this process
  outbox,      \* what flush_results has still to send of its snapshot
  crashes,     \* crashes so far, for the bound
  started      \* history: how often execute() was called for a key, anywhere

workerVars == <<executions, phase, threads, outbox, crashes, started>>

ExecutionRows ==
  [dispatch : Dispatches \cup {None}, result : Result \cup {None},
   acked : BOOLEAN, rowid : Nat]

NoExecution == [dispatch |-> None, result |-> None, acked |-> FALSE, rowid |-> 0]

WorkerInit ==
  /\ executions = [w \in WorkerId |-> [k \in Key |-> NoExecution]]
  /\ phase = [w \in WorkerId |-> "up"]
  /\ threads = [w \in WorkerId |-> [k \in Key |-> "idle"]]
  /\ outbox = [w \in WorkerId |-> {}]
  /\ crashes = 0
  /\ started = [k \in Key |-> 0]

KeyOf(d) == <<d.episode_id, d.attempt_id>>

Claimed(w) == {k \in Key : executions[w][k].dispatch # None}

\* WorkerLedger::unfinished
Unfinished(w) == {k \in Claimed(w) : executions[w][k].result = None}

\* WorkerLedger::pending_reports
Pending(w) ==
  {k \in Claimed(w) : /\ executions[w][k].result # None
                      /\ ~executions[w][k].acked}

Report(w, k) == [lease |-> executions[w][k].dispatch.lease,
                 result |-> executions[w][k].result]

-----------------------------------------------------------------------------
(* execute_dispatch *)

\* lease::verify with the worker's clock t: the token was issued to this
\* worker for exactly this plan, remaining time and usage, and is not expired.
\* The key and the epoch are one configuration of the whole instance, and the
\* remaining time is below the plan's total timeout by how dispatch computes it.
Verified(w, d, t) ==
  /\ d.lease.worker_id = w
  /\ d.lease.expires_at_ms > t
  /\ d.remaining_timeout_ms > 0

\* No row yet: with one, claim answers Ok(false) or DISPATCH_IDENTITY_CONFLICT
\* and writes nothing, whether the row is finished or not.
Fresh_Finished(w, k) == k \notin Unfinished(w)

Fresh_ByEpisode(w, k) == \A j \in Claimed(w) : j[1] # k[1]

Fresh(w, k) == executions[w][k].dispatch = None

\* WorkerLedger::claim of a dispatch that has no row yet.
Claim(w, d, t) ==
  LET k == KeyOf(d) IN
  /\ phase[w] = "up"
  /\ Verified(w, d, t)
  /\ Fresh(w, k)
  /\ Cardinality(Unfinished(w)) < WorkerCapacity[w]
  /\ executions' = [executions EXCEPT ![w][k] =
       [NoExecution EXCEPT !.dispatch = d,
                           !.rowid = Cardinality(Claimed(w)) + 1]]
  /\ threads' = [threads EXCEPT ![w][k] = "claimed"]
  /\ UNCHANGED <<phase, outbox, crashes, started>>

\* The claim is committed; execute(dispatch) is called.
StartExecution(w, k) ==
  /\ threads[w][k] = "claimed"
  /\ threads' = [threads EXCEPT ![w][k] = "executing"]
  /\ started' = [started EXCEPT ![k] = @ + 1]
  /\ UNCHANGED <<executions, phase, outbox, crashes>>

Finish_Overwrites(w, k, res) ==
  /\ k \in Claimed(w)
  /\ <<res.episode_id, res.attempt_id>> = k
  /\ res.conforms
  /\ executions' = [executions EXCEPT ![w][k].result = res]

\* WorkerLedger::finish of a row without result, after validate_result_for_plan.
Finish(w, k, res) ==
  /\ k \in Unfinished(w)
  /\ <<res.episode_id, res.attempt_id>> = k
  /\ res.conforms
  /\ executions' = [executions EXCEPT ![w][k].result = res]

\* execute() returned a result, which accounts on top of consumed_usage.
FinishExecution(w, k, res) ==
  /\ threads[w][k] = "executing"
  /\ Finish(w, k, res)
  /\ res.usage >= executions[w][k].dispatch.consumed_usage
  /\ threads' = [threads EXCEPT ![w][k] = "idle"]
  /\ UNCHANGED <<phase, outbox, crashes, started>>

\* execute() or finish() returned an error: `?` leaves the row unfinished.
AbandonExecution(w, k) ==
  /\ threads[w][k] = "executing"
  /\ threads' = [threads EXCEPT ![w][k] = "idle"]
  /\ UNCHANGED <<executions, phase, outbox, crashes, started>>

-----------------------------------------------------------------------------
(* crash, restart and recover_interrupted *)

\* The process dies at any point, recovery included; an error that makes
\* recover_interrupted return also ends here.
Crash(w) ==
  /\ phase[w] # "down"
  /\ crashes < MaxCrashes
  /\ crashes' = crashes + 1
  /\ phase' = [phase EXCEPT ![w] = "down"]
  /\ threads' = [threads EXCEPT ![w] = [k \in Key |-> "idle"]]
  /\ outbox' = [outbox EXCEPT ![w] = {}]
  /\ UNCHANGED <<executions, started>>

Restart(w) ==
  /\ phase[w] = "down"
  /\ phase' = [phase EXCEPT ![w] = "recovering"]
  /\ UNCHANGED <<executions, threads, outbox, crashes, started>>

\* One iteration of the loop of recover_interrupted: clean up, settle the usage
\* from the spool (never below consumed_usage) and finish with WORKER_RESTART,
\* retryable exactly when the cleanup completed.
RecoverInterrupted(w, k, res) ==
  /\ phase[w] = "recovering"
  /\ Finish(w, k, res)
  /\ res.execution_status = "failed"
  /\ res.retryable = (res.cleanup_status = "completed")
  /\ res.usage >= executions[w][k].dispatch.consumed_usage
  /\ UNCHANGED <<phase, threads, outbox, crashes, started>>

RecoveryDone(w) ==
  /\ phase[w] = "recovering"
  /\ Unfinished(w) = {}
  /\ phase' = [phase EXCEPT ![w] = "up"]
  /\ UNCHANGED <<executions, threads, outbox, crashes, started>>

-----------------------------------------------------------------------------
(* flush_results *)

\* The snapshot of pending_reports.
BeginFlush(w) ==
  /\ phase[w] = "up"
  /\ outbox[w] = {}
  /\ Pending(w) # {}
  /\ outbox' = [outbox EXCEPT ![w] = Pending(w)]
  /\ UNCHANGED <<executions, phase, threads, crashes, started>>

\* The loop visits the rows in table order.
IsHead(w, k) ==
  /\ k \in outbox[w]
  /\ \A j \in outbox[w] : executions[w][k].rowid <= executions[w][j].rowid

Acknowledge_Snapshot(w, k) ==
  /\ IsHead(w, k)
  /\ executions' = [executions EXCEPT ![w] =
       [j \in Key |-> [@[j] EXCEPT !.acked = @ \/ j \in outbox[w]]]]
  /\ outbox' = [outbox EXCEPT ![w] = {}]
  /\ UNCHANGED <<phase, threads, crashes, started>>

\* send(report) answered Ok: WorkerLedger::acknowledge the row.
Acknowledge(w, k) ==
  /\ IsHead(w, k)
  /\ executions' = [executions EXCEPT ![w][k].acked = TRUE]
  /\ outbox' = [outbox EXCEPT ![w] = @ \ {k}]
  /\ UNCHANGED <<phase, threads, crashes, started>>

\* send(report) answered an error, the Server's or the network's: `?` ends
\* the whole flush, the rows behind the head are not sent.
AbortFlush(w) ==
  /\ outbox[w] # {}
  /\ outbox' = [outbox EXCEPT ![w] = {}]
  /\ UNCHANGED <<executions, phase, threads, crashes, started>>
=============================================================================
