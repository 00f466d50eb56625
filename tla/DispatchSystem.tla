--------------------------- MODULE DispatchSystem ---------------------------
(***************************************************************************)
(* Server and Workers together.  They meet over a network that may lose,   *)
(* delay, reorder and duplicate: a DispatchRequest once returned by        *)
(* dispatch and a report once sent stay available for delivery, and        *)
(* nothing says that they are delivered; an ACK is the answer to a call    *)
(* and is lost when the worker gives the call up.  The transport itself is *)
(* not part of the repository; send in flush_results and the caller of     *)
(* dispatch stand for it.                                                  *)
(***************************************************************************)
EXTENDS EpisodeRepository, WorkerLedger

CONSTANT ClockLag    \* how far each worker's wall clock is behind the Server's

ASSUME ClockLagAssumption == ClockLag \in [WorkerId -> Int]

VARIABLES
  reports,   \* every report a worker has sent
  acks       \* the reports whose Ok from the Server is not lost

vars == <<serverVars, workerVars, reports, acks>>

Init ==
  /\ ServerInit
  /\ WorkerInit
  /\ reports = {}
  /\ acks = {}

-----------------------------------------------------------------------------
(* The Server's operations *)

ServerSubmit(s) == Submit(s) /\ UNCHANGED <<workerVars, reports, acks>>

ServerDispatch(e, w) ==
  Dispatch(e, w) /\ UNCHANGED <<workerVars, reports, acks>>

ServerCancel(o, r) == CancelRun(o, r) /\ UNCHANGED <<workerVars, reports, acks>>

ClockTick == Tick /\ UNCHANGED <<workerVars, reports, acks>>

\* A report arrives, possibly again: it is accepted, or it was before; any
\* other outcome is an error the worker sees as a failed send.
HandleReport(rep) ==
  /\ rep \in reports
  /\ AcceptResult(rep)
  /\ acks' = acks \cup {rep}
  /\ UNCHANGED <<workerVars, reports>>

HandleDuplicate(rep) ==
  /\ rep \in reports \ acks
  /\ AlreadyAccepted(rep)
  /\ acks' = acks \cup {rep}
  /\ UNCHANGED <<serverVars, workerVars, reports>>

-----------------------------------------------------------------------------
(* The Workers' operations *)

WorkerClaim(w, d) ==
  /\ d \in dispatches
  /\ Claim(w, d, now - ClockLag[w])
  /\ UNCHANGED <<serverVars, reports, acks>>

WorkerStart(w, k) ==
  StartExecution(w, k) /\ UNCHANGED <<serverVars, reports, acks>>

\* The cancellation the Supervisor polls can only be the Server's request.
WorkerFinish(w, k, res) ==
  /\ FinishExecution(w, k, res)
  /\ res.execution_status = "cancelled" =>
       episodes[res.episode_id].state = "cancel_requested"
  /\ UNCHANGED <<serverVars, reports, acks>>

WorkerAbandon(w, k) ==
  AbandonExecution(w, k) /\ UNCHANGED <<serverVars, reports, acks>>

WorkerCrash(w) == Crash(w) /\ UNCHANGED <<serverVars, reports, acks>>

WorkerRestart(w) == Restart(w) /\ UNCHANGED <<serverVars, reports, acks>>

WorkerRecover(w, k, res) ==
  RecoverInterrupted(w, k, res) /\ UNCHANGED <<serverVars, reports, acks>>

WorkerRecovered(w) == RecoveryDone(w) /\ UNCHANGED <<serverVars, reports, acks>>

WorkerBeginFlush(w) == BeginFlush(w) /\ UNCHANGED <<serverVars, reports, acks>>

WorkerSend(w, k) ==
  /\ IsHead(w, k)
  /\ Report(w, k) \notin reports
  /\ reports' = reports \cup {Report(w, k)}
  /\ UNCHANGED <<serverVars, workerVars, acks>>

WorkerReceiveAck(w, k) ==
  /\ IsHead(w, k)
  /\ Report(w, k) \in acks
  /\ Acknowledge(w, k)
  /\ UNCHANGED <<serverVars, reports, acks>>

\* The call fails: the Server refused the report, or the report or its answer
\* was lost (a report lost on the way counts as sent).
WorkerAbortFlush(w, k) ==
  /\ IsHead(w, k)
  /\ Report(w, k) \in reports
  /\ AbortFlush(w)
  /\ acks' = acks \ {Report(w, k)}
  /\ UNCHANGED <<serverVars, reports>>

-----------------------------------------------------------------------------

ServerStep ==
  \/ \E s \in Submission : ServerSubmit(s)
  \/ \E e \in EpisodeId, w \in WorkerId : ServerDispatch(e, w)
  \/ \E rep \in reports : HandleReport(rep) \/ HandleDuplicate(rep)
  \/ \E o \in Owner, r \in RunId : ServerCancel(o, r)

WorkerStep(w) ==
  \/ \E d \in dispatches : WorkerClaim(w, d)
  \/ \E k \in Key :
       \/ WorkerStart(w, k)
       \/ WorkerAbandon(w, k)
       \/ WorkerSend(w, k)
       \/ WorkerReceiveAck(w, k)
       \/ WorkerAbortFlush(w, k)
       \/ \E res \in Result : WorkerFinish(w, k, res) \/ WorkerRecover(w, k, res)
  \/ WorkerCrash(w)
  \/ WorkerRestart(w)
  \/ WorkerRecovered(w)
  \/ WorkerBeginFlush(w)

Next ==
  \/ ServerStep
  \/ \E w \in WorkerId : WorkerStep(w)
  \/ ClockTick

Spec == Init /\ [][Next]_vars

\* Fairness: the scheduler keeps trying to place a queued episode (strongly
\* fair: a worker's slot may come and go), a delivered dispatch is claimed and
\* executed, an execution ends because its budget does, a supervisor restarts
\* a dead worker, recovery and flushing go on, and the network delivers what
\* is sent again and again (an aborted flush may come between, so the receipt
\* of an ACK is strongly fair).  Crashes, cancellations, submissions and
\* abandoned executions are never forced; nor is the clock, except that a
\* waiting retry needs it to advance.
Fairness ==
  /\ WF_vars(ClockTick)
  /\ \A e \in EpisodeId :
       SF_vars(\E w \in WorkerId : ServerDispatch(e, w))
  /\ WF_vars(\E rep \in reports : HandleReport(rep))
  /\ WF_vars(\E rep \in reports : HandleDuplicate(rep))
  /\ \A w \in WorkerId :
       /\ WF_vars(\E d \in dispatches : WorkerClaim(w, d))
       /\ WF_vars(WorkerRestart(w))
       /\ WF_vars(\E k \in Key, res \in Result : WorkerRecover(w, k, res))
       /\ WF_vars(WorkerRecovered(w))
       /\ WF_vars(WorkerBeginFlush(w))
       /\ WF_vars(\E k \in Key : WorkerSend(w, k))
       /\ SF_vars(\E k \in Key : WorkerReceiveAck(w, k))
       /\ WF_vars(\E k \in Key : WorkerAbortFlush(w, k))
       /\ \A k \in Key :
            /\ WF_vars(WorkerStart(w, k))
            /\ WF_vars(\E res \in Result : WorkerFinish(w, k, res))

FairSpec == Spec /\ Fairness

-----------------------------------------------------------------------------
(* What the two sides guarantee together. *)

SystemTypeOK ==
  /\ TypeOK
  /\ executions \in [WorkerId -> [Key -> ExecutionRows]]
  /\ phase \in [WorkerId -> {"up", "recovering", "down"}]
  /\ threads \in [WorkerId -> [Key -> {"idle", "claimed", "executing"}]]
  /\ outbox \in [WorkerId -> SUBSET Key]
  /\ crashes \in Nat
  /\ started \in [Key -> Nat]
  /\ reports \subseteq Reports
  /\ acks \subseteq Reports

\* An attempt is executed at most once: not after a duplicated or late
\* dispatch, not after a worker restart, not by two workers (claim,
\* execute_dispatch, recover_interrupted).
AtMostOnceExecution == \A k \in Key : started[k] <= 1

\* Whatever a worker has claimed and not finished - running, abandoned or
\* interrupted by a crash - is still what the Server holds for the episode:
\* no newer attempt was queued or dispatched beside it and it is not settled.
UnfinishedIsCurrent ==
  \A w \in WorkerId : \A k \in Unfinished(w) :
    LET row == episodes[k[1]] IN
    /\ row.state \in HeldStates
    /\ row.attempt_id = k[2]
    /\ row.lease = executions[w][k].dispatch.lease
    /\ row.worker_id = w

\* The worker marks a row acked, and stops reporting it, only when the Server
\* has this very result saved under this lease: the only copy is never lost
\* between the two databases (flush_results, acknowledge, accept_result).
AckedIsSaved ==
  \A w \in WorkerId : \A k \in Key :
    executions[w][k].acked =>
      [episode_id |-> k[1], attempt_id |-> k[2],
       result |-> executions[w][k].result,
       lease |-> executions[w][k].dispatch.lease] \in attempts

\* What the Server saved is the result that the leased worker finished with,
\* and the worker still has it: late, repeated and reordered reports, crashes
\* and recoveries never make the two ledgers disagree about an attempt.
SavedIsWorkersResult ==
  \A a \in attempts :
    LET row == executions[a.lease.worker_id][<<a.episode_id, a.attempt_id>>]
    IN  row.dispatch # None /\ row.dispatch.lease = a.lease
                           /\ row.result = a.result

\* The two ledgers agree about every result that has reached the Server.
LedgersAgree == AckedIsSaved /\ SavedIsWorkersResult

\* A retry starts from exactly the usage the attempt before it reported, so
\* the reported usage never goes down: no attempt gets a fresh budget
\* (dispatch's consumed_usage, recover_interrupted).
UsageCarriesOver ==
  /\ \A d \in dispatches :
       IF d.attempt_id = 1 THEN d.consumed_usage = 0
       ELSE \E a \in attempts :
              /\ a.episode_id = d.episode_id
              /\ a.attempt_id = d.attempt_id - 1
              /\ a.result.usage = d.consumed_usage
  /\ \A a, b \in attempts :
       a.episode_id = b.episode_id /\ a.attempt_id < b.attempt_id =>
         a.result.usage <= b.result.usage

\* A worker always has a free slot for a dispatch that the Server still holds
\* for it and that it has not claimed: the Server's count of the slots and the
\* ledger's count of unfinished rows never disagree to the worker's loss, so
\* claim does not answer WORKER_CAPACITY_EXCEEDED to a live dispatch.
LiveDispatchHasSlot ==
  \A d \in dispatches :
    LET w == d.lease.worker_id IN
    /\ episodes[d.episode_id].state \in HeldStates
    /\ episodes[d.episode_id].lease = d.lease
    /\ executions[w][KeyOf(d)].dispatch = None
    => Cardinality(Unfinished(w)) < WorkerCapacity[w]

-----------------------------------------------------------------------------
(* What eventually happens, in an instance whose leases outlive the clock. *)

CancelPending == \E e \in EpisodeId : episodes[e].state = "cancel_requested"

\* A row that execute_dispatch gave up: nothing finishes it while the process
\* lives, and it keeps the slot.
Abandoned(w) ==
  \E k \in Unfinished(w) : phase[w] = "up" /\ threads[w][k] = "idle"

\* The instance's clock ends before the backoff does.
ClockExhausted(e) == retryDelays[e] > MaxTime

\* Every queued episode is settled in the end, over crashes, restarts, lost
\* answers and retries, unless a cancellation is left unanswered or a worker
\* has abandoned an execution (dispatch ... accept_result).
EpisodeSettles ==
  \A e \in EpisodeId :
    episodes[e].state = "queued" ~>
      \/ episodes[e].state \in ExecutionStatus
      \/ CancelPending
      \/ \E w \in WorkerId : Abandoned(w)
      \/ ClockExhausted(e)

\* Every finished result is acknowledged in the end, also when the first ACK
\* is lost and the attempt has been superseded by a retry meanwhile, unless a
\* cancellation is left unanswered (flush_results, accept_result).
OutboxDrains ==
  \A w \in WorkerId, k \in Key :
    k \in Pending(w) ~> executions[w][k].acked \/ CancelPending

\* The design's "retransmit until the Server's ACK": every finished result is
\* sent to the Server in the end, whatever becomes of the other results of
\* its worker (flush_results).
EveryResultIsSent ==
  \A w \in WorkerId, k \in Key :
    k \in Pending(w) ~>
      \E rep \in reports : rep.result = executions[w][k].result

\* The design's cancellation path ends with an ACK: a result that is finished
\* when the cancellation is requested is acknowledged in the end
\* (accept_result, cancel_run).
CancelledResultIsAcked ==
  \A w \in WorkerId, k \in Key :
    k \in Pending(w) /\ episodes[k[1]].state = "cancel_requested"
      ~> executions[w][k].acked
=============================================================================
