--------------------------- MODULE DispatchProofs ---------------------------
(***************************************************************************)
(* Proofs about Server and Workers together (DispatchSystem), for any      *)
(* number of episodes, workers, slots, attempts and crashes, any skew of   *)
(* the workers' clocks and a network that loses, repeats and reorders.     *)
(***************************************************************************)
EXTENDS DispatchSystem, EpisodeRepositoryProofs

USE DEF AttemptId, ActiveStates, HeldStates, ExecutionStatus, Dispatchable

-----------------------------------------------------------------------------
(***************************************************************************)
(* What the Server alone keeps, beyond LeaseInv.                           *)
(***************************************************************************)

\* A dispatch whose episode is neither held nor settled by a result belongs to
\* an attempt that is over, also when the retry was cancelled in the queue.
DispatchPassed(d) ==
  LET row == episodes[d.episode_id] IN
  row.state \notin HeldStates /\ row.result = None =>
    d.attempt_id < row.attempt_id

\* A lease names its dispatch.
LeaseUnique == \A c, d \in dispatches : c.lease = d.lease => c = d

\* The result in the row of an episode is the saved one of its last attempt.
FinalIsSaved ==
  \A e \in EpisodeId : episodes[e].result # None =>
    [episode_id |-> e, attempt_id |-> episodes[e].attempt_id,
     result |-> episodes[e].result, lease |-> episodes[e].lease] \in attempts

\* The first half of UsageCarriesOver.
DispatchUsage(d) ==
  IF d.attempt_id = 1 THEN d.consumed_usage = 0
  ELSE \E a \in attempts :
         /\ a.episode_id = d.episode_id
         /\ a.attempt_id = d.attempt_id - 1
         /\ a.result.usage = d.consumed_usage

HolderInv ==
  /\ LeaseInv
  /\ \A d \in dispatches : DispatchPassed(d) /\ DispatchUsage(d)
  /\ LeaseUnique
  /\ FinalIsSaved

\* Nothing is dispatched or saved initially.
LEMMA HolderInit == ServerInit => HolderInv
  BY LeaseInit DEF ServerInit, HolderInv, LeaseUnique, FinalIsSaved, AbsentRow

\* The usage a dispatch hands on is the one that the attempt before reported.
LEMMA PriorUsageValue ==
  ASSUME RepoInv, NEW e \in EpisodeId, episodes[e].state = "queued"
  PROVE  IF episodes[e].attempt_id = 1 THEN PriorUsage(e) = 0
         ELSE \E a \in attempts :
                /\ a.episode_id = e
                /\ a.attempt_id = episodes[e].attempt_id - 1
                /\ a.result.usage = PriorUsage(e)
<1> DEFINE prior == {a \in attempts : a.episode_id = e}
           last == CHOOSE a \in prior : \A b \in prior :
                     a.attempt_id >= b.attempt_id
<1>1. /\ SavedOK
      /\ episodes[e].attempt_id \in AttemptId
      /\ LastSaved(e) = episodes[e].attempt_id - 1
      /\ \A a \in attempts : a.attempt_id \in AttemptId
  BY DEF RepoInv, TypeOK, RowOK, LastSaved, EpisodeRows, AttemptRows
<1>2. CASE episodes[e].attempt_id = 1
  <2>1. prior = {}
    BY <1>1, <1>2 DEF SavedOK
  <2> QED
    BY <1>2, <2>1 DEF PriorUsage
<1>3. CASE episodes[e].attempt_id # 1
  <2>1. LastSaved(e) \in AttemptId
    BY <1>1, <1>3, ConstantsAssumption
  <2>2. PICK a \in attempts : a.episode_id = e /\ a.attempt_id = LastSaved(e)
    BY <1>1, <2>1 DEF SavedOK
  <2>3. \A b \in prior : a.attempt_id >= b.attempt_id
    BY <1>1, <2>2 DEF SavedOK
  <2>4. last \in prior /\ \A b \in prior : last.attempt_id >= b.attempt_id
    BY <2>2, <2>3
  <2>5. last.attempt_id = a.attempt_id
    BY <1>1, <2>2, <2>3, <2>4
  <2>6. last = a
    BY <1>1, <2>2, <2>4, <2>5 DEF SavedOK
  <2>7. PriorUsage(e) = last.result.usage
    BY <2>2 DEF PriorUsage
  <2> QED
    BY <1>1, <1>3, <2>2, <2>6, <2>7
<1> QED
  BY <1>2, <1>3

\* A step that issues no lease: what it must leave true of the rows.
LEMMA HolderKept ==
  ASSUME HolderInv, LeaseInv', dispatches' = dispatches,
         attempts \subseteq attempts',
         \A d \in dispatches : DispatchPassed(d)',
         FinalIsSaved'
  PROVE  HolderInv'
<1>1. ASSUME NEW d \in dispatches PROVE DispatchUsage(d)'
  BY DEF HolderInv, DispatchUsage
<1> QED
  BY <1>1 DEF HolderInv, LeaseUnique

\* submit makes rows only where there was none.
LEMMA HolderSubmit ==
  ASSUME HolderInv, NEW s \in Submission, Submit(s)
  PROVE  HolderInv'
<1>1. /\ LeaseInv /\ RepoInv /\ TypeOK /\ LeaseInv'
      /\ UNCHANGED <<attempts, dispatches>>
  BY LeaseSubmit DEF HolderInv, LeaseInv, RepoInv, Submit
<1>2. ASSUME NEW d \in dispatches PROVE DispatchPassed(d)'
  <2>1. /\ DispatchPassed(d) /\ d.episode_id \in EpisodeId
        /\ episodes[d.episode_id].state # "absent"
    BY <1>1 DEF HolderInv, LeaseInv, DispatchOK, TypeOK, Dispatches
  <2>2. episodes'[d.episode_id] = episodes[d.episode_id]
    BY <1>1, <2>1, SubmitRows
  <2> QED
    BY <1>1, <2>1, <2>2 DEF DispatchPassed
<1>3. FinalIsSaved'
  <2> SUFFICES ASSUME NEW e \in EpisodeId, episodes'[e].result # None
               PROVE  [episode_id |-> e, attempt_id |-> episodes'[e].attempt_id,
                       result |-> episodes'[e].result,
                       lease |-> episodes'[e].lease] \in attempts
    BY <1>1 DEF FinalIsSaved
  <2>1. \/ episodes'[e] = episodes[e]
        \/ \E m \in EpisodeRequests : episodes'[e] = ResolvedRow(s, m)
    BY <1>1, SubmitRows
  <2>2. episodes'[e] = episodes[e]
    BY <1>1, <2>1, ResolvedRowShape
  <2> QED
    BY <2>2 DEF HolderInv, FinalIsSaved
<1> QED
  BY <1>1, <1>2, <1>3, HolderKept

\* cancel_run keeps every column but the state, which stays held if it was.
LEMMA HolderCancel ==
  ASSUME HolderInv, NEW o \in Owner, NEW r \in RunId, CancelRun(o, r)
  PROVE  HolderInv'
<1>1. /\ LeaseInv /\ RepoInv /\ TypeOK /\ LeaseInv'
      /\ UNCHANGED <<attempts, dispatches>>
  BY LeaseCancel DEF HolderInv, LeaseInv, RepoInv, CancelRun
<1>2. ASSUME NEW d \in dispatches PROVE DispatchPassed(d)'
  <2>1. DispatchPassed(d) /\ d.episode_id \in EpisodeId
    BY <1>1 DEF HolderInv, TypeOK, Dispatches
  <2>2. LET old == episodes[d.episode_id]
            row == episodes'[d.episode_id] IN
        /\ row.attempt_id = old.attempt_id
        /\ row.result = old.result
        /\ \/ row.state = old.state
           \/ old.state = "queued" /\ row.state = "cancelled"
           \/ old.state = "dispatched" /\ row.state = "cancel_requested"
    BY <1>1, <2>1, CancelColumns
  <2> QED
    BY <2>1, <2>2 DEF DispatchPassed
<1>3. FinalIsSaved'
  <2> SUFFICES ASSUME NEW e \in EpisodeId, episodes'[e].result # None
               PROVE  [episode_id |-> e, attempt_id |-> episodes'[e].attempt_id,
                       result |-> episodes'[e].result,
                       lease |-> episodes'[e].lease] \in attempts
    BY <1>1 DEF FinalIsSaved
  <2>1. /\ episodes'[e].attempt_id = episodes[e].attempt_id
        /\ episodes'[e].lease = episodes[e].lease
        /\ episodes'[e].result = episodes[e].result
    BY <1>1, CancelColumns
  <2> QED
    BY <2>1 DEF HolderInv, FinalIsSaved
<1> QED
  BY <1>1, <1>2, <1>3, HolderKept

\* accept_result saves the result it stores in the row, and queues an episode
\* again only under a new attempt.
LEMMA HolderAccept ==
  ASSUME HolderInv, NEW d0 \in dispatches, NEW res \in Result,
         AcceptResult([lease |-> d0.lease, result |-> res])
  PROVE  HolderInv'
<1> DEFINE rep == [lease |-> d0.lease, result |-> res]
           e == res.episode_id
           saved == [episode_id |-> e, attempt_id |-> res.attempt_id,
                     result |-> res, lease |-> d0.lease]
<1>1. /\ LeaseInv /\ RepoInv /\ TypeOK
  BY DEF HolderInv, LeaseInv, RepoInv
<1>2. /\ LeaseInv'
      /\ e \in EpisodeId
      /\ res \in Results
      /\ episodes[e].state \in HeldStates
      /\ episodes[e].lease = d0.lease
      /\ episodes[e].attempt_id = res.attempt_id
      /\ attempts' = attempts \cup {saved}
      /\ RetryEpisode(rep) \/ SettleEpisode(rep)
      /\ dispatches' = dispatches
  BY <1>1, LeaseAccept, AcceptFacts
<1>3. rep.result.episode_id = e /\ rep.result = res
  OBVIOUS
<1>4. \A f \in EpisodeId \ {e} : episodes'[f] = episodes[f]
  BY <1>1, <1>2, <1>3, RetryRows, SettleRows
<1>5. \/ /\ episodes'[e].result = None
         /\ episodes'[e].attempt_id = episodes[e].attempt_id + 1
      \/ /\ episodes'[e].result = res
         /\ episodes'[e].attempt_id = episodes[e].attempt_id
         /\ episodes'[e].lease = episodes[e].lease
  <2>1. CASE RetryEpisode(rep)
    <3>1. episodes'[e] = [run_id |-> episodes[e].run_id,
                          request |-> episodes[e].request,
                          attempt_id |-> episodes[e].attempt_id + 1,
                          deadline_at_ms |-> episodes[e].deadline_at_ms,
                          state |-> "queued", lease |-> None,
                          worker_id |-> None, result |-> None]
      BY <1>1, <1>2, <1>3, <2>1, RetryRows
    <3> QED
      BY <3>1
  <2>2. CASE SettleEpisode(rep)
    <3>1. episodes'[e] = [run_id |-> episodes[e].run_id,
                          request |-> episodes[e].request,
                          attempt_id |-> episodes[e].attempt_id,
                          deadline_at_ms |-> episodes[e].deadline_at_ms,
                          state |-> res.execution_status,
                          lease |-> episodes[e].lease,
                          worker_id |-> episodes[e].worker_id,
                          result |-> res]
      BY <1>1, <1>2, <1>3, <2>2, SettleRows
    <3> QED
      BY <3>1
  <2> QED
    BY <1>2, <2>1, <2>2
<1>6. ASSUME NEW d \in dispatches PROVE DispatchPassed(d)'
  <2>1. /\ DispatchPassed(d) /\ d.episode_id \in EpisodeId
        /\ d.attempt_id \in AttemptId
        /\ d.attempt_id <= episodes[d.episode_id].attempt_id
        /\ episodes[d.episode_id].attempt_id \in AttemptId
    BY <1>1 DEF HolderInv, LeaseInv, DispatchOK, TypeOK, Dispatches, EpisodeRows
  <2>2. CASE d.episode_id # e
    BY <1>4, <2>1, <2>2 DEF DispatchPassed
  <2>3. CASE d.episode_id = e
    BY <1>5, <2>1, <2>3, NoneAssumption DEF DispatchPassed
  <2> QED
    BY <2>2, <2>3
<1>7. FinalIsSaved'
  <2> SUFFICES ASSUME NEW f \in EpisodeId, episodes'[f].result # None
               PROVE  [episode_id |-> f, attempt_id |-> episodes'[f].attempt_id,
                       result |-> episodes'[f].result,
                       lease |-> episodes'[f].lease] \in attempts'
    BY DEF FinalIsSaved
  <2>1. CASE f # e
    BY <1>2, <1>4, <2>1 DEF HolderInv, FinalIsSaved
  <2>2. CASE f = e
    BY <1>2, <1>5, <2>2
  <2> QED
    BY <2>1, <2>2
<1> QED
  BY <1>2, <1>6, <1>7, HolderKept

\* dispatch issues a lease that no earlier dispatch carries, with the usage of
\* the attempt before.
LEMMA HolderDispatch ==
  ASSUME HolderInv, NEW e \in EpisodeId, NEW w \in WorkerId, Dispatch(e, w)
  PROVE  HolderInv'
<1>0. PICK new : new = DispatchRequest(e, w)
  OBVIOUS
<1>1. /\ LeaseInv /\ RepoInv /\ TypeOK /\ LeaseInv'
      /\ UNCHANGED attempts
      /\ dispatches' = dispatches \cup {new}
      /\ episodes[e].state = "queued"
      /\ episodes[e].result = None
  BY <1>0, LeaseDispatch DEF HolderInv, LeaseInv, RepoInv, RowOK, Dispatch
<1>2. /\ new.episode_id = e
      /\ new.attempt_id = episodes[e].attempt_id
      /\ new.consumed_usage = PriorUsage(e)
      /\ new.lease = IssueLease(e, w)
  BY <1>0 DEF DispatchRequest
<1>3. /\ new.lease.episode_id = e
      /\ new.lease.id = nonce[e] + 1
      /\ nonce[e] \in Nat
  BY <1>1, <1>2 DEF IssueLease, TypeOK
<1>4. /\ \A f \in EpisodeId \ {e} : episodes'[f] = episodes[f]
      /\ episodes'[e].state = "dispatched"
      /\ episodes'[e].attempt_id = episodes[e].attempt_id
      /\ episodes'[e].result = None
  <2>1. /\ \A f \in EpisodeId \ {e} : episodes'[f] = episodes[f]
        /\ episodes'[e] = [run_id |-> episodes[e].run_id,
                           request |-> episodes[e].request,
                           attempt_id |-> episodes[e].attempt_id,
                           deadline_at_ms |-> episodes[e].deadline_at_ms,
                           state |-> "dispatched",
                           lease |-> IssueLease(e, w),
                           worker_id |-> w,
                           result |-> episodes[e].result]
    BY <1>1, DispatchRows
  <2> QED
    BY <1>1, <2>1
<1>5. ASSUME NEW d \in dispatches
      PROVE  /\ DispatchPassed(d)' /\ DispatchUsage(d)'
             /\ d.lease # new.lease
  <2>1. /\ DispatchPassed(d) /\ DispatchUsage(d)
        /\ d.episode_id \in EpisodeId
        /\ d.lease.episode_id = d.episode_id
        /\ d.lease.id <= nonce[d.episode_id]
        /\ d.lease.id \in Nat
    BY <1>1 DEF HolderInv, LeaseInv, DispatchOK, TypeOK, Dispatches, Leases
  <2>2. d.lease # new.lease
    BY <1>3, <2>1
  <2>3. DispatchPassed(d)'
    BY <1>4, <2>1 DEF DispatchPassed
  <2> QED
    BY <1>1, <2>1, <2>2, <2>3 DEF DispatchUsage
<1>6. DispatchPassed(new)'
  BY <1>2, <1>4 DEF DispatchPassed
<1>7. DispatchUsage(new)'
  BY <1>1, <1>2, PriorUsageValue DEF DispatchUsage
<1>8. LeaseUnique'
  BY <1>1, <1>5 DEF HolderInv, LeaseUnique
<1>9. FinalIsSaved'
  BY <1>1, <1>4 DEF HolderInv, FinalIsSaved
<1> QED
  BY <1>1, <1>5, <1>6, <1>7, <1>8, <1>9 DEF HolderInv

\* Every step of the Server keeps it.
LEMMA HolderStep == HolderInv /\ [ServerNext]_serverVars => HolderInv'
<1> SUFFICES ASSUME HolderInv, [ServerNext]_serverVars PROVE HolderInv'
  OBVIOUS
<1>1. CASE Tick \/ UNCHANGED serverVars
  <2>1. LeaseInv' /\ UNCHANGED <<episodes, attempts, dispatches>>
    BY <1>1, LeaseStep DEF HolderInv, Tick, serverVars
  <2> QED
    BY <2>1, HolderKept DEF HolderInv, DispatchPassed, FinalIsSaved
<1> QED
  BY <1>1, HolderSubmit, HolderDispatch, HolderAccept, HolderCancel DEF ServerNext

-----------------------------------------------------------------------------
(***************************************************************************)
(* The Workers' ledgers.                                                   *)
(***************************************************************************)

\* A claimed row holds a dispatch that the Server made for this worker and
\* this attempt; a finished one a result of this attempt, on top of the usage
\* the dispatch handed on.
ClaimOK ==
  \A w \in WorkerId : \A k \in Key :
    LET row == executions[w][k] IN
    /\ row.dispatch # None =>
         /\ row.dispatch \in dispatches
         /\ KeyOf(row.dispatch) = k
         /\ row.dispatch.lease.worker_id = w
    /\ row.result # None =>
         /\ row.dispatch # None
         /\ row.result.episode_id = k[1]
         /\ row.result.attempt_id = k[2]
         /\ row.result.usage >= row.dispatch.consumed_usage

\* A thread works on a claimed and unfinished row of a process that is up.
ThreadOK ==
  \A w \in WorkerId : \A k \in Key :
    threads[w][k] # "idle" =>
      /\ phase[w] = "up"
      /\ executions[w][k].dispatch # None
      /\ executions[w][k].result = None

\* An execution that was started belongs to a claim that is past its start.
StartOK ==
  \A k \in Key :
    /\ started[k] \in {0, 1}
    /\ started[k] = 1 =>
         \E w \in WorkerId : /\ executions[w][k].dispatch # None
                             /\ threads[w][k] # "claimed"

\* Only finished rows are being flushed.
OutboxOK ==
  \A w \in WorkerId : \A k \in outbox[w] : executions[w][k].result # None

LedgerInv == SystemTypeOK /\ ClaimOK /\ ThreadOK /\ StartOK /\ OutboxOK

\* Initially no row is claimed.
LEMMA LedgerInit == Init => LedgerInv
<1> SUFFICES ASSUME Init PROVE LedgerInv
  OBVIOUS
<1>1. TypeOK
  BY RepoInit DEF Init, RepoInv
<1>2. NoExecution \in ExecutionRows
  BY DEF NoExecution, ExecutionRows
<1>3. SystemTypeOK
  BY <1>1, <1>2 DEF SystemTypeOK, Init, WorkerInit
<1>4. \A w \in WorkerId : \A k \in Key :
        executions[w][k].dispatch = None /\ executions[w][k].result = None
  BY DEF Init, WorkerInit, NoExecution
<1> QED
  BY <1>3, <1>4 DEF LedgerInv, ClaimOK, ThreadOK, StartOK, OutboxOK, Init, WorkerInit

\* Writing one row of one ledger.
LEMMA RowWritten ==
  ASSUME executions \in [WorkerId -> [Key -> ExecutionRows]],
         NEW w \in WorkerId, NEW k \in Key, NEW row \in ExecutionRows,
         executions' = [executions EXCEPT ![w][k] = row]
  PROVE  /\ executions' \in [WorkerId -> [Key -> ExecutionRows]]
         /\ executions'[w][k] = row
         /\ \A v \in WorkerId : \A j \in Key :
              v # w \/ j # k => executions'[v][j] = executions[v][j]
  OBVIOUS

\* There are finitely many keys, so the next rowid is a number.
LEMMA RowidType ==
  ASSUME NEW w \in WorkerId
  PROVE  IsFiniteSet(Claimed(w)) /\ Cardinality(Claimed(w)) + 1 \in Nat
<1>1. IsFiniteSet(Key)
  <2>1. IsFiniteSet(AttemptId)
    BY ConstantsAssumption, FS_Interval
  <2> QED
    BY <2>1, FiniteAssumption, FS_Product, Zenon DEF Key
<1>2. IsFiniteSet(Claimed(w))
  BY <1>1, FS_Subset DEF Claimed
<1> QED
  BY <1>2, FS_CardinalityType

\* The key of a dispatch.
LEMMA KeyType ==
  ASSUME NEW d \in Dispatches
  PROVE  /\ KeyOf(d) \in Key
         /\ KeyOf(d)[1] = d.episode_id /\ KeyOf(d)[2] = d.attempt_id
  BY DEF KeyOf, Key, Dispatches

\* Two dispatches with one key are the same.
LEMMA KeyUnique ==
  ASSUME LeaseInv, NEW c \in dispatches, NEW d \in dispatches, KeyOf(c) = KeyOf(d)
  PROVE  c = d
  BY DEF LeaseInv, OneLeasePerAttempt, KeyOf

\* claim writes a row without result.
LEMMA ClaimRow ==
  ASSUME SystemTypeOK, NEW w \in WorkerId, NEW d \in dispatches, NEW t,
         Claim(w, d, t)
  PROVE  LET k == KeyOf(d) IN
         /\ d \in Dispatches /\ k \in Key
         /\ executions' \in [WorkerId -> [Key -> ExecutionRows]]
         /\ executions'[w][k].dispatch = d
         /\ executions'[w][k].result = None
         /\ ~executions'[w][k].acked
         /\ \A v \in WorkerId : \A j \in Key :
              v # w \/ j # k => executions'[v][j] = executions[v][j]
<1>1. d \in Dispatches
  BY DEF SystemTypeOK, TypeOK
<1>2. PICK n : n = Cardinality(Claimed(w)) + 1
  OBVIOUS
<1>3. PICK row : row = [NoExecution EXCEPT !.dispatch = d, !.rowid = n]
  OBVIOUS
<1>4. /\ row \in ExecutionRows
      /\ row.dispatch = d /\ row.result = None /\ ~row.acked
  BY <1>1, <1>2, <1>3, RowidType DEF NoExecution, ExecutionRows
<1>5. executions' = [executions EXCEPT ![w][KeyOf(d)] = row]
  BY <1>2, <1>3, Zenon DEF Claim
<1> QED
  BY <1>1, <1>4, <1>5, KeyType, RowWritten DEF SystemTypeOK

\* finish writes the result of an unfinished row.
LEMMA FinishRow ==
  ASSUME SystemTypeOK, NEW w \in WorkerId, NEW k \in Key, NEW res \in Result,
         Finish(w, k, res)
  PROVE  /\ executions' \in [WorkerId -> [Key -> ExecutionRows]]
         /\ executions[w][k].dispatch # None
         /\ executions[w][k].result = None
         /\ executions'[w][k].dispatch = executions[w][k].dispatch
         /\ executions'[w][k].result = res
         /\ executions'[w][k].acked = executions[w][k].acked
         /\ \A v \in WorkerId : \A j \in Key :
              v # w \/ j # k => executions'[v][j] = executions[v][j]
<1>1. executions[w][k] \in ExecutionRows
  BY DEF SystemTypeOK
<1>2. PICK row : row = [dispatch |-> executions[w][k].dispatch, result |-> res,
                        acked |-> executions[w][k].acked,
                        rowid |-> executions[w][k].rowid]
  OBVIOUS
<1>3. row \in ExecutionRows
  BY <1>1, <1>2 DEF ExecutionRows
<1>4. row = [executions[w][k] EXCEPT !.result = res]
  BY <1>1, <1>2 DEF ExecutionRows
<1>5. executions' = [executions EXCEPT ![w][k] = row]
  BY <1>4 DEF Finish
<1>6. executions[w][k].dispatch # None /\ executions[w][k].result = None
  BY DEF Finish, Unfinished, Claimed
<1>7. /\ executions'[w][k] = row
      /\ executions' \in [WorkerId -> [Key -> ExecutionRows]]
      /\ \A v \in WorkerId : \A j \in Key :
           v # w \/ j # k => executions'[v][j] = executions[v][j]
  BY <1>3, <1>5, RowWritten DEF SystemTypeOK
<1> QED
  BY <1>2, <1>6, <1>7

\* acknowledge sets the flag only.
LEMMA AcknowledgeRow ==
  ASSUME SystemTypeOK, NEW w \in WorkerId, NEW k \in Key, Acknowledge(w, k)
  PROVE  /\ executions' \in [WorkerId -> [Key -> ExecutionRows]]
         /\ executions'[w][k].dispatch = executions[w][k].dispatch
         /\ executions'[w][k].result = executions[w][k].result
         /\ \A v \in WorkerId : \A j \in Key :
              v # w \/ j # k => executions'[v][j] = executions[v][j]
<1>1. executions[w][k] \in ExecutionRows
  BY DEF SystemTypeOK
<1>2. PICK row : row = [executions[w][k] EXCEPT !.acked = TRUE]
  OBVIOUS
<1>3. /\ row \in ExecutionRows
      /\ row.dispatch = executions[w][k].dispatch
      /\ row.result = executions[w][k].result
  BY <1>1, <1>2 DEF ExecutionRows
<1>4. executions' = [executions EXCEPT ![w][k] = row]
  BY <1>2 DEF Acknowledge
<1>5. /\ executions'[w][k] = row
      /\ executions' \in [WorkerId -> [Key -> ExecutionRows]]
      /\ \A v \in WorkerId : \A j \in Key :
           v # w \/ j # k => executions'[v][j] = executions[v][j]
  BY <1>3, <1>4, RowWritten DEF SystemTypeOK
<1> QED
  BY <1>3, <1>5

\* No step of the Server touches a ledger; it only adds dispatches.
LEMMA LedgerServer ==
  ASSUME LedgerInv, LeaseInv', UNCHANGED <<workerVars, reports>>,
         dispatches \subseteq dispatches', acks' \subseteq acks \cup reports
  PROVE  LedgerInv'
<1>1. UNCHANGED <<executions, phase, threads, outbox, crashes, started, reports>>
  BY DEF workerVars
<1>2. SystemTypeOK'
  BY <1>1 DEF LedgerInv, SystemTypeOK, LeaseInv, RepoInv
<1>3. ClaimOK'
  BY <1>1 DEF LedgerInv, ClaimOK
<1> QED
  BY <1>1, <1>2, <1>3 DEF LedgerInv, ThreadOK, StartOK, OutboxOK

\* A claim finds no execution of its attempt started: the one that could have
\* been started would be claimed by the same dispatch, hence at this worker.
LEMMA LedgerClaim ==
  ASSUME LedgerInv, LeaseInv, NEW w \in WorkerId, NEW d \in dispatches,
         WorkerClaim(w, d)
  PROVE  LedgerInv'
<1> DEFINE k == KeyOf(d)
<1>1. /\ Claim(w, d, now - ClockLag[w])
      /\ UNCHANGED <<now, runs, batches, episodes, attempts, retryDelays,
                     notifications, nonce, dispatches, reports, acks>>
  BY DEF WorkerClaim, serverVars
<1>2. /\ SystemTypeOK /\ ClaimOK /\ ThreadOK /\ StartOK /\ OutboxOK
  BY DEF LedgerInv
<1>3. /\ d \in Dispatches /\ k \in Key
      /\ executions' \in [WorkerId -> [Key -> ExecutionRows]]
      /\ executions'[w][k].dispatch = d
      /\ executions'[w][k].result = None
      /\ \A v \in WorkerId : \A j \in Key :
           v # w \/ j # k => executions'[v][j] = executions[v][j]
  BY <1>1, <1>2, ClaimRow
<1>4. /\ phase[w] = "up"
      /\ d.lease.worker_id = w
      /\ executions[w][k].dispatch = None
      /\ threads' = [threads EXCEPT ![w][k] = "claimed"]
      /\ UNCHANGED <<phase, outbox, crashes, started>>
  BY <1>1 DEF Claim, Verified, Fresh
<1>5. /\ threads'[w][k] = "claimed"
      /\ \A v \in WorkerId : \A j \in Key :
           v # w \/ j # k => threads'[v][j] = threads[v][j]
      /\ threads' \in [WorkerId -> [Key -> {"idle", "claimed", "executing"}]]
  BY <1>2, <1>3, <1>4 DEF SystemTypeOK
<1>6. executions[w][k].result = None
  BY <1>2, <1>3, <1>4 DEF ClaimOK
<1>7. SystemTypeOK'
  BY <1>1, <1>2, <1>3, <1>4, <1>5 DEF SystemTypeOK, TypeOK
<1>8. ClaimOK'
  BY <1>1, <1>2, <1>3, <1>4 DEF ClaimOK
<1>9. ThreadOK'
  BY <1>2, <1>3, <1>4, <1>5, NoneAssumption DEF ThreadOK
<1>10. StartOK'
  <2> SUFFICES ASSUME NEW j \in Key, started[j] = 1
               PROVE  \E v \in WorkerId : /\ executions'[v][j].dispatch # None
                                          /\ threads'[v][j] # "claimed"
    BY <1>2, <1>4 DEF StartOK
  <2>1. PICK v \in WorkerId : /\ executions[v][j].dispatch # None
                              /\ threads[v][j] # "claimed"
    BY <1>2 DEF StartOK
  <2>2. v # w \/ j # k
    BY <1>4, <2>1
  <2> QED
    BY <1>3, <1>5, <2>1, <2>2
<1>11. OutboxOK'
  <2> SUFFICES ASSUME NEW v \in WorkerId, NEW j \in outbox[v]
               PROVE  executions'[v][j].result # None
    BY <1>4 DEF OutboxOK
  <2>1. j \in Key /\ executions[v][j].result # None
    BY <1>2 DEF OutboxOK, SystemTypeOK
  <2> QED
    BY <1>3, <1>6, <2>1
<1> QED
  BY <1>7, <1>8, <1>9, <1>10, <1>11 DEF LedgerInv

\* An execution starts once: another start of its attempt would belong to a
\* claim of the same dispatch, hence to this row, which has not started yet.
LEMMA LedgerStart ==
  ASSUME LedgerInv, LeaseInv, NEW w \in WorkerId, NEW k \in Key,
         WorkerStart(w, k)
  PROVE  LedgerInv'
<1>1. /\ threads[w][k] = "claimed"
      /\ threads' = [threads EXCEPT ![w][k] = "executing"]
      /\ started' = [started EXCEPT ![k] = @ + 1]
      /\ UNCHANGED <<executions, phase, outbox, crashes>>
      /\ UNCHANGED <<now, runs, batches, episodes, attempts, retryDelays,
                     notifications, nonce, dispatches, reports, acks>>
  BY DEF WorkerStart, StartExecution, serverVars
<1>2. SystemTypeOK /\ ClaimOK /\ ThreadOK /\ StartOK /\ OutboxOK
  BY DEF LedgerInv
<1>3. /\ threads'[w][k] = "executing"
      /\ \A v \in WorkerId : \A j \in Key :
           v # w \/ j # k => threads'[v][j] = threads[v][j]
      /\ threads' \in [WorkerId -> [Key -> {"idle", "claimed", "executing"}]]
  BY <1>1, <1>2 DEF SystemTypeOK
<1>4. executions[w][k].dispatch # None
  BY <1>1, <1>2 DEF ThreadOK
<1>5. started[k] = 0
  <2> SUFFICES ASSUME started[k] = 1 PROVE FALSE
    BY <1>2 DEF StartOK
  <2>1. PICK v \in WorkerId : /\ executions[v][k].dispatch # None
                              /\ threads[v][k] # "claimed"
    BY <1>2 DEF StartOK
  <2>2. executions[v][k].dispatch = executions[w][k].dispatch
    BY <1>2, <1>4, <2>1, KeyUnique DEF ClaimOK
  <2>3. v = w
    BY <1>2, <1>4, <2>1, <2>2 DEF ClaimOK
  <2> QED
    BY <1>1, <2>1, <2>3
<1>6. /\ started' \in [Key -> Nat]
      /\ started'[k] = 1
      /\ \A j \in Key \ {k} : started'[j] = started[j]
  BY <1>1, <1>2, <1>5 DEF SystemTypeOK
<1>7. SystemTypeOK'
  BY <1>1, <1>2, <1>3, <1>6 DEF SystemTypeOK, TypeOK
<1>8. ClaimOK' /\ OutboxOK'
  BY <1>1, <1>2 DEF ClaimOK, OutboxOK
<1>9. ThreadOK'
  BY <1>1, <1>2, <1>3 DEF ThreadOK
<1>10. StartOK'
  BY <1>1, <1>2, <1>3, <1>4, <1>6 DEF StartOK
<1> QED
  BY <1>7, <1>8, <1>9, <1>10 DEF LedgerInv

\* A row is finished with a result of its attempt, by its own thread or, when
\* the process has restarted, by recovery, which runs beside no thread.
LEMMA LedgerFinish ==
  ASSUME LedgerInv, NEW w \in WorkerId, NEW k \in Key, NEW res \in Result,
         WorkerFinish(w, k, res) \/ WorkerRecover(w, k, res)
  PROVE  LedgerInv'
<1>1. /\ Finish(w, k, res)
      /\ res.episode_id = k[1] /\ res.attempt_id = k[2]
      /\ res.usage >= executions[w][k].dispatch.consumed_usage
      /\ UNCHANGED <<phase, outbox, crashes, started>>
      /\ UNCHANGED <<now, runs, batches, episodes, attempts, retryDelays,
                     notifications, nonce, dispatches, reports, acks>>
  BY DEF WorkerFinish, WorkerRecover, FinishExecution, RecoverInterrupted,
         Finish, serverVars, Key
<1>2. SystemTypeOK /\ ClaimOK /\ ThreadOK /\ StartOK /\ OutboxOK
  BY DEF LedgerInv
<1>3. /\ executions' \in [WorkerId -> [Key -> ExecutionRows]]
      /\ executions[w][k].dispatch # None
      /\ executions'[w][k].dispatch = executions[w][k].dispatch
      /\ executions'[w][k].result = res
      /\ \A v \in WorkerId : \A j \in Key :
           v # w \/ j # k => executions'[v][j] = executions[v][j]
  BY <1>1, <1>2, FinishRow
<1>4. /\ threads'[w][k] = "idle"
      /\ \A v \in WorkerId : \A j \in Key :
           v # w \/ j # k => threads'[v][j] = threads[v][j]
      /\ threads' \in [WorkerId -> [Key -> {"idle", "claimed", "executing"}]]
  <2>1. CASE WorkerFinish(w, k, res)
    BY <1>2, <2>1 DEF WorkerFinish, FinishExecution, SystemTypeOK
  <2>2. CASE WorkerRecover(w, k, res)
    <3>1. phase[w] = "recovering" /\ threads' = threads
      BY <2>2 DEF WorkerRecover, RecoverInterrupted
    <3> QED
      BY <1>2, <3>1 DEF ThreadOK, SystemTypeOK
  <2> QED
    BY <2>1, <2>2
<1>5. SystemTypeOK'
  BY <1>1, <1>2, <1>3, <1>4 DEF SystemTypeOK, TypeOK
<1>6. ClaimOK'
  BY <1>1, <1>2, <1>3 DEF ClaimOK
<1>7. ThreadOK'
  BY <1>1, <1>2, <1>3, <1>4 DEF ThreadOK
<1>8. StartOK'
  <2> SUFFICES ASSUME NEW j \in Key, started[j] = 1
               PROVE  \E v \in WorkerId : /\ executions'[v][j].dispatch # None
                                          /\ threads'[v][j] # "claimed"
    BY <1>1, <1>2 DEF StartOK
  <2>1. PICK v \in WorkerId : /\ executions[v][j].dispatch # None
                              /\ threads[v][j] # "claimed"
    BY <1>2 DEF StartOK
  <2> QED
    BY <1>3, <1>4, <2>1
<1>9. OutboxOK'
  <2> SUFFICES ASSUME NEW v \in WorkerId, NEW j \in outbox[v]
               PROVE  executions'[v][j].result # None
    BY <1>1 DEF OutboxOK
  <2>1. j \in Key /\ executions[v][j].result # None
    BY <1>2 DEF OutboxOK, SystemTypeOK
  <2> QED
    BY <1>3, <2>1, NoneAssumption
<1> QED
  BY <1>5, <1>6, <1>7, <1>8, <1>9 DEF LedgerInv

\* A process that dies, comes back or gives up an execution leaves its ledger
\* as it is; a process that is not up has no threads.
LEMMA LedgerProcess ==
  ASSUME LedgerInv, NEW w \in WorkerId,
         \/ \E k \in Key : WorkerAbandon(w, k)
         \/ WorkerCrash(w) \/ WorkerRestart(w) \/ WorkerRecovered(w)
  PROVE  LedgerInv'
<1>1. /\ UNCHANGED <<executions, started>>
      /\ UNCHANGED <<now, runs, batches, episodes, attempts, retryDelays,
                     notifications, nonce, dispatches, reports, acks>>
  BY DEF WorkerAbandon, AbandonExecution, WorkerCrash, Crash, WorkerRestart,
         Restart, WorkerRecovered, RecoveryDone, serverVars
<1>2. SystemTypeOK /\ ClaimOK /\ ThreadOK /\ StartOK /\ OutboxOK
  BY DEF LedgerInv
<1>3. /\ phase' \in [WorkerId -> {"up", "recovering", "down"}]
      /\ threads' \in [WorkerId -> [Key -> {"idle", "claimed", "executing"}]]
      /\ outbox' \in [WorkerId -> SUBSET Key]
      /\ crashes' \in Nat
      /\ \A v \in WorkerId : outbox'[v] \subseteq outbox[v]
      /\ \A v \in WorkerId : \A j \in Key :
           threads'[v][j] # "idle" =>
             threads'[v][j] = threads[v][j] /\ phase'[v] = phase[v]
      /\ \A v \in WorkerId : \A j \in Key :
           threads'[v][j] \in {threads[v][j], "idle"}
  <2>1. ASSUME NEW k \in Key, WorkerAbandon(w, k)
        PROVE  /\ threads' = [threads EXCEPT ![w][k] = "idle"]
               /\ UNCHANGED <<phase, outbox, crashes>>
    BY <2>1 DEF WorkerAbandon, AbandonExecution
  <2>2. CASE WorkerCrash(w)
    BY <1>2, <2>2 DEF WorkerCrash, Crash, SystemTypeOK
  <2>3. CASE WorkerRestart(w)
    <3>1. /\ phase[w] = "down" /\ phase' = [phase EXCEPT ![w] = "recovering"]
          /\ UNCHANGED <<threads, outbox, crashes>>
      BY <2>3 DEF WorkerRestart, Restart
    <3> QED
      BY <1>2, <3>1 DEF ThreadOK, SystemTypeOK
  <2>4. CASE WorkerRecovered(w)
    <3>1. /\ phase[w] = "recovering" /\ phase' = [phase EXCEPT ![w] = "up"]
          /\ UNCHANGED <<threads, outbox, crashes>>
      BY <2>4 DEF WorkerRecovered, RecoveryDone
    <3> QED
      BY <1>2, <3>1 DEF ThreadOK, SystemTypeOK
  <2>5. ASSUME NEW k \in Key, threads' = [threads EXCEPT ![w][k] = "idle"]
        PROVE  /\ threads' \in [WorkerId -> [Key -> {"idle", "claimed", "executing"}]]
               /\ \A v \in WorkerId : \A j \in Key :
                    threads'[v][j] \in {threads[v][j], "idle"}
    BY <1>2, <2>5 DEF SystemTypeOK
  <2>6. CASE \E k \in Key : WorkerAbandon(w, k)
    BY <1>2, <2>1, <2>5, <2>6 DEF SystemTypeOK
  <2> QED
    BY <2>2, <2>3, <2>4, <2>6
<1>4. SystemTypeOK'
  BY <1>1, <1>2, <1>3 DEF SystemTypeOK, TypeOK
<1>5. ClaimOK' /\ OutboxOK'
  BY <1>1, <1>2, <1>3 DEF ClaimOK, OutboxOK
<1>6. ThreadOK'
  BY <1>1, <1>2, <1>3 DEF ThreadOK
<1>7. StartOK'
  <2> SUFFICES ASSUME NEW j \in Key, started[j] = 1
               PROVE  \E v \in WorkerId : /\ executions[v][j].dispatch # None
                                          /\ threads'[v][j] # "claimed"
    BY <1>1, <1>2 DEF StartOK
  <2>1. PICK v \in WorkerId : /\ executions[v][j].dispatch # None
                              /\ threads[v][j] # "claimed"
    BY <1>2 DEF StartOK
  <2> QED
    BY <1>3, <2>1
<1> QED
  BY <1>4, <1>5, <1>6, <1>7 DEF LedgerInv

\* What a worker sends is a report of a finished row.
LEMMA ReportType ==
  ASSUME LedgerInv, NEW w \in WorkerId, NEW k \in Key, IsHead(w, k)
  PROVE  /\ Report(w, k) \in Reports
         /\ executions[w][k].dispatch # None
         /\ executions[w][k].result # None
<1>1. /\ executions[w][k] \in ExecutionRows
      /\ executions[w][k].result # None
      /\ executions[w][k].dispatch # None
  BY DEF LedgerInv, SystemTypeOK, OutboxOK, ClaimOK, IsHead
<1> QED
  BY <1>1 DEF Report, Reports, ExecutionRows, Dispatches

\* Flushing changes nothing of a row but the flag acked.
LEMMA LedgerFlush ==
  ASSUME LedgerInv, NEW w \in WorkerId,
         \/ WorkerBeginFlush(w)
         \/ \E k \in Key : \/ WorkerSend(w, k) \/ WorkerReceiveAck(w, k)
                           \/ WorkerAbortFlush(w, k)
  PROVE  LedgerInv'
<1>1. /\ UNCHANGED <<phase, threads, crashes, started>>
      /\ UNCHANGED <<now, runs, batches, episodes, attempts, retryDelays,
                     notifications, nonce, dispatches>>
  BY DEF WorkerBeginFlush, BeginFlush, WorkerSend, WorkerReceiveAck,
         Acknowledge, WorkerAbortFlush, AbortFlush, serverVars, workerVars
<1>2. SystemTypeOK /\ ClaimOK /\ ThreadOK /\ StartOK /\ OutboxOK
  BY DEF LedgerInv
<1>3. /\ executions' \in [WorkerId -> [Key -> ExecutionRows]]
      /\ \A v \in WorkerId : \A j \in Key :
           /\ executions'[v][j].dispatch = executions[v][j].dispatch
           /\ executions'[v][j].result = executions[v][j].result
  <2>1. ASSUME NEW k \in Key, WorkerReceiveAck(w, k)
        PROVE  /\ executions' \in [WorkerId -> [Key -> ExecutionRows]]
               /\ \A v \in WorkerId : \A j \in Key :
                    /\ executions'[v][j].dispatch = executions[v][j].dispatch
                    /\ executions'[v][j].result = executions[v][j].result
    <3>1. Acknowledge(w, k)
      BY <2>1 DEF WorkerReceiveAck
    <3> QED
      BY <1>2, <3>1, AcknowledgeRow
  <2>2. CASE ~\E k \in Key : WorkerReceiveAck(w, k)
    <3>1. executions' = executions
      BY <2>2 DEF WorkerBeginFlush, BeginFlush, WorkerSend, WorkerAbortFlush,
                  AbortFlush, workerVars
    <3> QED
      BY <1>2, <3>1 DEF SystemTypeOK
  <2> QED
    BY <2>1, <2>2
<1>4. /\ outbox' \in [WorkerId -> SUBSET Key]
      /\ \A v \in WorkerId : \A j \in outbox'[v] :
           j \in outbox[v] \/ executions[v][j].result # None
  <2>1. CASE WorkerBeginFlush(w)
    <3>1. outbox' = [outbox EXCEPT ![w] = Pending(w)]
      BY <2>1 DEF WorkerBeginFlush, BeginFlush
    <3>2. Pending(w) \subseteq Key
          /\ \A j \in Pending(w) : executions[w][j].result # None
      BY DEF Pending, Claimed
    <3> QED
      BY <1>2, <3>1, <3>2 DEF SystemTypeOK
  <2>2. CASE ~WorkerBeginFlush(w)
    <3>1. \/ outbox' = outbox
          \/ \E k \in Key : outbox' = [outbox EXCEPT ![w] = @ \ {k}]
          \/ outbox' = [outbox EXCEPT ![w] = {}]
      BY <2>2 DEF WorkerSend, WorkerReceiveAck, Acknowledge, WorkerAbortFlush,
                  AbortFlush, workerVars
    <3> QED
      BY <1>2, <3>1 DEF SystemTypeOK
  <2> QED
    BY <2>1, <2>2
<1>5. reports' \subseteq Reports /\ acks' \subseteq Reports
  <2>1. \/ reports' = reports
        \/ \E k \in Key : /\ IsHead(w, k)
                          /\ reports' = reports \cup {Report(w, k)}
    BY DEF WorkerBeginFlush, WorkerSend, WorkerReceiveAck, WorkerAbortFlush
  <2>2. acks' \subseteq acks
    BY DEF WorkerBeginFlush, WorkerSend, WorkerReceiveAck, WorkerAbortFlush
  <2> QED
    BY <1>2, <2>1, <2>2, ReportType DEF SystemTypeOK
<1>6. SystemTypeOK'
  BY <1>1, <1>2, <1>3, <1>4, <1>5 DEF SystemTypeOK, TypeOK
<1>7. ClaimOK' /\ ThreadOK' /\ StartOK'
  <2>1. ClaimOK'
    BY <1>1, <1>2, <1>3 DEF ClaimOK
  <2>2. ThreadOK'
    BY <1>1, <1>2, <1>3 DEF ThreadOK
  <2>3. StartOK'
    BY <1>1, <1>2, <1>3 DEF StartOK
  <2> QED
    BY <2>1, <2>2, <2>3
<1>8. OutboxOK'
  <2>1. SUFFICES ASSUME NEW v \in WorkerId, NEW j \in outbox'[v]
                 PROVE  executions'[v][j].result # None
    BY DEF OutboxOK
  <2>2. outbox'[v] \subseteq Key
    BY <1>4
  <2>3. executions[v][j].result # None
    <3>1. j \in outbox[v] \/ executions[v][j].result # None
      BY <1>4
    <3> QED
      BY <1>2, <3>1 DEF OutboxOK
  <2>4. executions'[v][j].result = executions[v][j].result
    BY <1>3, <2>2
  <2> QED
    BY <2>3, <2>4
<1> QED
  BY <1>6, <1>7, <1>8 DEF LedgerInv

-----------------------------------------------------------------------------
(***************************************************************************)
(* Server and Workers agree.                                               *)
(***************************************************************************)

\* What was reported is what the ledger of the leased worker holds.
ReportOK(rep) ==
  LET row == executions[rep.lease.worker_id]
                       [<<rep.result.episode_id, rep.result.attempt_id>>] IN
  /\ row.dispatch # None
  /\ row.dispatch.lease = rep.lease
  /\ row.result = rep.result

\* What was answered Ok is saved.
AckOK(rep) ==
  [episode_id |-> rep.result.episode_id, attempt_id |-> rep.result.attempt_id,
   result |-> rep.result, lease |-> rep.lease] \in attempts

SystemInv ==
  /\ HolderInv
  /\ LedgerInv
  /\ \A rep \in reports : ReportOK(rep)
  /\ \A rep \in acks : rep \in reports /\ AckOK(rep)
  /\ UnfinishedIsCurrent
  /\ AckedIsSaved
  /\ SavedIsWorkersResult
  /\ UsageCarriesOver

\* Nothing is held, reported or saved initially.
LEMMA SystemInit == Init => SystemInv
<1> SUFFICES ASSUME Init PROVE SystemInv
  OBVIOUS
<1>1. /\ attempts = {} /\ dispatches = {} /\ reports = {} /\ acks = {}
      /\ \A w \in WorkerId : \A k \in Key :
           executions[w][k].dispatch = None /\ ~executions[w][k].acked
  BY DEF Init, ServerInit, WorkerInit, NoExecution
<1>2. HolderInv /\ LedgerInv
  BY HolderInit, LedgerInit DEF Init
<1> QED
  BY <1>1, <1>2 DEF SystemInv, UnfinishedIsCurrent, Unfinished, Claimed,
                    AckedIsSaved, SavedIsWorkersResult, UsageCarriesOver

\* A report carries the lease of a dispatch, and is of its attempt.
LEMMA ReportedDispatch ==
  ASSUME SystemInv, NEW rep \in reports
  PROVE  LET w == rep.lease.worker_id
             k == <<rep.result.episode_id, rep.result.attempt_id>> IN
         /\ w \in WorkerId /\ k \in Key
         /\ rep.result \in Result
         /\ executions[w][k].dispatch \in dispatches
         /\ KeyOf(executions[w][k].dispatch) = k
         /\ executions[w][k].result = rep.result
         /\ rep = [lease |-> executions[w][k].dispatch.lease,
                   result |-> rep.result]
<1>1. rep \in Reports
  BY DEF SystemInv, LedgerInv, SystemTypeOK
<1>2. /\ rep.lease \in Leases /\ rep.result \in Results /\ rep.result \in Result
      /\ rep = [lease |-> rep.lease, result |-> rep.result]
  BY <1>1, ResultAssumption DEF Reports
<1>3. /\ rep.lease.worker_id \in WorkerId
      /\ <<rep.result.episode_id, rep.result.attempt_id>> \in Key
  BY <1>2 DEF Leases, Results, Key
<1>4. ReportOK(rep) /\ ClaimOK
  BY DEF SystemInv, LedgerInv
<1> QED
  BY <1>2, <1>3, <1>4 DEF ReportOK, ClaimOK

\* Server and Workers together take only steps the repository alone could take
\* against workers that may report anything.
LEMMA SystemStepIsServerStep ==
  SystemInv /\ [Next]_vars => [ServerNext]_serverVars
<1> SUFFICES ASSUME SystemInv, [Next]_vars PROVE [ServerNext]_serverVars
  OBVIOUS
<1>1. ASSUME NEW rep \in reports, HandleReport(rep) PROVE ServerNext
  <2>1. PICK d \in dispatches : rep = [lease |-> d.lease, result |-> rep.result]
    BY ReportedDispatch
  <2>2. rep.result \in Result
    BY ReportedDispatch
  <2>3. AcceptResult(rep)
    BY <1>1 DEF HandleReport
  <2> QED
    BY <2>1, <2>2, <2>3 DEF ServerNext
<1>2. ASSUME NEW w \in WorkerId, WorkerStep(w) PROVE UNCHANGED serverVars
  BY <1>2 DEF WorkerStep, WorkerClaim, WorkerStart, WorkerAbandon, WorkerSend,
              WorkerReceiveAck, WorkerAbortFlush, WorkerFinish, WorkerRecover,
              WorkerCrash, WorkerRestart, WorkerRecovered, WorkerBeginFlush
<1>3. CASE ServerStep
  BY <1>1, <1>3 DEF ServerStep, ServerSubmit, ServerDispatch, ServerCancel,
                    HandleDuplicate, ServerNext
<1>4. CASE ClockTick
  BY <1>4 DEF ClockTick, ServerNext
<1>5. CASE UNCHANGED vars
  BY <1>5 DEF vars
<1> QED
  BY <1>2, <1>3, <1>4, <1>5 DEF Next

\* A ledger only grows: a claim and a result, once written, stay.
RowsExtend ==
  \A v \in WorkerId : \A j \in Key :
    /\ executions[v][j].dispatch # None =>
         executions'[v][j].dispatch = executions[v][j].dispatch
    /\ executions[v][j].result # None =>
         executions'[v][j].result = executions[v][j].result

\* Every step of a worker extends the ledgers, keeps what LedgerInv says and
\* leaves the Server alone.
LEMMA WorkerExtends ==
  ASSUME SystemInv, NEW w \in WorkerId, WorkerStep(w)
  PROVE  RowsExtend /\ LedgerInv' /\ UNCHANGED serverVars
<1>1. LedgerInv /\ LeaseInv /\ SystemTypeOK /\ ClaimOK
  BY DEF SystemInv, HolderInv, LedgerInv
<1>2. ASSUME NEW d \in dispatches, WorkerClaim(w, d)
      PROVE  RowsExtend /\ LedgerInv' /\ UNCHANGED serverVars
  <2>1. /\ Claim(w, d, now - ClockLag[w])
        /\ executions[w][KeyOf(d)].dispatch = None
    BY <1>2 DEF WorkerClaim, Claim, Fresh
  <2>2. /\ KeyOf(d) \in Key
        /\ \A v \in WorkerId : \A j \in Key :
             v # w \/ j # KeyOf(d) => executions'[v][j] = executions[v][j]
    BY <1>1, <2>1, ClaimRow
  <2>3. executions[w][KeyOf(d)].result = None
    BY <1>1, <2>1, <2>2 DEF ClaimOK
  <2>4. LedgerInv'
    BY <1>1, <1>2, LedgerClaim
  <2> QED
    BY <1>2, <2>1, <2>2, <2>3, <2>4 DEF RowsExtend, WorkerClaim
<1>3. ASSUME NEW k \in Key, NEW res \in Result,
             WorkerFinish(w, k, res) \/ WorkerRecover(w, k, res)
      PROVE  RowsExtend /\ LedgerInv' /\ UNCHANGED serverVars
  <2>1. Finish(w, k, res) /\ UNCHANGED serverVars
    BY <1>3 DEF WorkerFinish, WorkerRecover, FinishExecution, RecoverInterrupted
  <2>2. /\ executions[w][k].result = None
        /\ executions'[w][k].dispatch = executions[w][k].dispatch
        /\ \A v \in WorkerId : \A j \in Key :
             v # w \/ j # k => executions'[v][j] = executions[v][j]
    BY <1>1, <2>1, FinishRow
  <2>3. LedgerInv'
    BY <1>1, <1>3, LedgerFinish
  <2> QED
    BY <2>1, <2>2, <2>3 DEF RowsExtend
<1>4. ASSUME NEW k \in Key, WorkerReceiveAck(w, k)
      PROVE  RowsExtend /\ LedgerInv' /\ UNCHANGED serverVars
  <2>1. Acknowledge(w, k) /\ UNCHANGED serverVars
    BY <1>4 DEF WorkerReceiveAck
  <2>2. LedgerInv'
    BY <1>1, <1>4, LedgerFlush
  <2> QED
    BY <1>1, <2>1, <2>2, AcknowledgeRow DEF RowsExtend
<1>5. CASE \/ \E k \in Key : \/ WorkerStart(w, k) \/ WorkerAbandon(w, k)
                             \/ WorkerSend(w, k) \/ WorkerAbortFlush(w, k)
           \/ WorkerCrash(w) \/ WorkerRestart(w) \/ WorkerRecovered(w)
           \/ WorkerBeginFlush(w)
  <2>1. UNCHANGED serverVars /\ executions' = executions
    BY <1>5 DEF WorkerStart, StartExecution, WorkerAbandon, AbandonExecution,
         WorkerSend, WorkerAbortFlush, AbortFlush, WorkerCrash, Crash,
         WorkerRestart, Restart, WorkerRecovered, RecoveryDone,
         WorkerBeginFlush, BeginFlush, workerVars
  <2>2. LedgerInv'
    BY <1>1, <1>5, LedgerStart, LedgerProcess, LedgerFlush
  <2> QED
    BY <2>1, <2>2 DEF RowsExtend
<1> QED
  BY <1>2, <1>3, <1>4, <1>5 DEF WorkerStep

\* A dispatch that a worker has not claimed is of an attempt the Server still
\* holds, or of none: a saved attempt would be claimed, by this very dispatch.
LEMMA UnclaimedIsHeld ==
  ASSUME SystemInv, NEW d \in dispatches,
         executions[d.lease.worker_id][KeyOf(d)].dispatch = None
  PROVE  LET row == episodes[d.episode_id] IN
         /\ row.state \in HeldStates
         /\ row.attempt_id = d.attempt_id
         /\ row.lease = d.lease
         /\ row.worker_id = d.lease.worker_id
<1> DEFINE e == d.episode_id
           i == d.attempt_id
<1>1. /\ HolderInv /\ LeaseInv /\ RepoInv /\ TypeOK /\ SavedOK /\ ClaimOK
      /\ SavedIsWorkersResult /\ FinalIsSaved
  BY DEF SystemInv, HolderInv, LeaseInv, RepoInv, LedgerInv
<1>2. /\ d \in Dispatches /\ e \in EpisodeId /\ i \in AttemptId
      /\ KeyOf(d) \in Key /\ d.lease.worker_id \in WorkerId
      /\ KeyOf(d) = <<e, i>>
      /\ DispatchOK(d) /\ DispatchPassed(d) /\ RowOK(e)
      /\ episodes[e] \in EpisodeRows
  BY <1>1 DEF HolderInv, LeaseInv, RepoInv, TypeOK, Dispatches, Leases, KeyOf, Key
<1>3. ASSUME NEW a \in attempts, a.episode_id = e, a.attempt_id = i
      PROVE  FALSE
  <2>1. /\ a.lease.worker_id \in WorkerId
        /\ executions[a.lease.worker_id][KeyOf(d)].dispatch # None
    BY <1>1, <1>2, <1>3 DEF SavedIsWorkersResult, TypeOK, AttemptRows, Leases
  <2>2. PICK c \in dispatches :
             /\ c = executions[a.lease.worker_id][KeyOf(d)].dispatch
             /\ KeyOf(c) = KeyOf(d) /\ c.lease.worker_id = a.lease.worker_id
    BY <1>1, <1>2, <2>1 DEF ClaimOK
  <2>3. c = d
    BY <1>1, <2>2, KeyUnique
  <2> QED
    BY <2>1, <2>2, <2>3
<1>4. episodes[e].attempt_id = i
  <2> SUFFICES ASSUME i < episodes[e].attempt_id PROVE FALSE
    BY <1>2 DEF DispatchOK, EpisodeRows
  <2>1. i <= LastSaved(e)
    BY <1>2 DEF LastSaved, EpisodeRows
  <2> QED
    BY <1>1, <1>2, <1>3, <2>1 DEF SavedOK
<1>5. episodes[e].result = None
  <2> SUFFICES ASSUME episodes[e].result # None PROVE FALSE
    OBVIOUS
  <2>1. PICK a \in attempts : a.episode_id = e /\ a.attempt_id = i
    BY <1>1, <1>2, <1>4 DEF FinalIsSaved
  <2> QED
    BY <1>3, <2>1
<1>6. episodes[e].state \in HeldStates
  BY <1>2, <1>4, <1>5 DEF DispatchPassed
<1> QED
  BY <1>2, <1>4, <1>6 DEF DispatchOK, RowOK

\* A step of a worker keeps the agreement.
LEMMA AgreementWorker ==
  ASSUME SystemInv, NEW w \in WorkerId, WorkerStep(w)
  PROVE  SystemInv'
<1>1. /\ RowsExtend /\ LedgerInv' /\ UNCHANGED serverVars
      /\ UNCHANGED <<episodes, attempts, dispatches>>
  BY WorkerExtends DEF serverVars
<1>2. /\ HolderInv /\ LedgerInv /\ SystemTypeOK /\ TypeOK /\ ClaimOK /\ OutboxOK
      /\ LeaseInv
  BY DEF SystemInv, LedgerInv, SystemTypeOK, HolderInv
<1>3. HolderInv'
  BY <1>1, <1>2, HolderStep
<1>4. ASSUME NEW rep \in reports PROVE ReportOK(rep)'
  <2>1. /\ rep.lease.worker_id \in WorkerId
        /\ <<rep.result.episode_id, rep.result.attempt_id>> \in Key
        /\ rep.result \in Result
    BY ReportedDispatch
  <2>2. ReportOK(rep)
    BY DEF SystemInv
  <2> QED
    BY <1>1, <2>1, <2>2, NoneAssumption DEF ReportOK, RowsExtend
<1>5. ASSUME NEW rep \in reports' PROVE ReportOK(rep)'
  <2>1. CASE rep \in reports
    BY <1>4, <2>1
  <2>2. CASE rep \notin reports
    <3>1. PICK k \in Key : /\ IsHead(w, k)
                           /\ rep = Report(w, k)
                           /\ UNCHANGED workerVars
      BY <2>2 DEF WorkerStep, WorkerClaim, WorkerStart, WorkerAbandon,
              WorkerSend, WorkerReceiveAck, WorkerAbortFlush, WorkerFinish,
              WorkerRecover, WorkerCrash, WorkerRestart, WorkerRecovered,
              WorkerBeginFlush
    <3>2. /\ executions[w][k].dispatch # None
          /\ executions[w][k].result # None
      BY <1>2, <3>1, ReportType
    <3>3. /\ executions[w][k].dispatch.lease.worker_id = w
          /\ executions[w][k].result.episode_id = k[1]
          /\ executions[w][k].result.attempt_id = k[2]
          /\ k = <<k[1], k[2]>>
      BY <1>2, <3>2 DEF ClaimOK, Key
    <3> QED
      BY <3>1, <3>2, <3>3 DEF ReportOK, Report, workerVars
  <2> QED
    BY <2>1, <2>2
<1>6. reports \subseteq reports' /\ acks' \subseteq acks
  BY DEF WorkerStep, WorkerClaim, WorkerStart, WorkerAbandon,
         WorkerSend, WorkerReceiveAck, WorkerAbortFlush, WorkerFinish,
         WorkerRecover, WorkerCrash, WorkerRestart, WorkerRecovered,
         WorkerBeginFlush
<1>7. \A rep \in acks' : rep \in reports' /\ AckOK(rep)'
  BY <1>1, <1>6 DEF SystemInv, AckOK
<1>8. UnfinishedIsCurrent'
  <2> SUFFICES ASSUME NEW v \in WorkerId, NEW k \in Key,
                      executions'[v][k].dispatch # None,
                      executions'[v][k].result = None
               PROVE  LET row == episodes[k[1]] IN
                      /\ row.state \in HeldStates
                      /\ row.attempt_id = k[2]
                      /\ row.lease = executions'[v][k].dispatch.lease
                      /\ row.worker_id = v
    BY <1>1 DEF UnfinishedIsCurrent, Unfinished, Claimed
  <2>1. executions[v][k].result = None
    BY <1>1 DEF RowsExtend
  <2>2. CASE executions[v][k].dispatch # None
    <3>1. k \in Unfinished(v)
      BY <2>1, <2>2 DEF Unfinished, Claimed
    <3> QED
      BY <1>1, <2>2, <3>1 DEF SystemInv, UnfinishedIsCurrent, RowsExtend
  <2>3. CASE executions[v][k].dispatch = None
    <3>1. PICK d \in dispatches : /\ d = executions'[v][k].dispatch
                                  /\ KeyOf(d) = k /\ d.lease.worker_id = v
      BY <1>1 DEF LedgerInv, ClaimOK
    <3>2. d.episode_id = k[1] /\ d.attempt_id = k[2]
      BY <3>1 DEF KeyOf
    <3> QED
      BY <2>3, <3>1, <3>2, UnclaimedIsHeld
  <2> QED
    BY <2>2, <2>3
<1>9. AckedIsSaved'
  <2> SUFFICES ASSUME NEW v \in WorkerId, NEW k \in Key, executions'[v][k].acked
               PROVE  [episode_id |-> k[1], attempt_id |-> k[2],
                       result |-> executions'[v][k].result,
                       lease |-> executions'[v][k].dispatch.lease] \in attempts
    BY <1>1 DEF AckedIsSaved
  <2>1. CASE executions[v][k].acked
    <3>1. [episode_id |-> k[1], attempt_id |-> k[2],
           result |-> executions[v][k].result,
           lease |-> executions[v][k].dispatch.lease] \in AttemptRows
      BY <1>2, <2>1 DEF SystemInv, AckedIsSaved, TypeOK
    <3>2. executions[v][k].result # None
      BY <3>1, NoneAssumption DEF AttemptRows
    <3>3. executions[v][k].dispatch # None
      BY <1>2, <3>2 DEF ClaimOK
    <3> QED
      BY <1>1, <2>1, <3>2, <3>3 DEF SystemInv, AckedIsSaved, RowsExtend
  <2>2. CASE ~executions[v][k].acked
    <3>1. PICK j \in Key : WorkerReceiveAck(w, j)
      <4>1. ASSUME NEW d \in dispatches, WorkerClaim(w, d) PROVE FALSE
        BY <1>2, <2>2, <4>1, ClaimRow DEF WorkerClaim
      <4>2. ASSUME NEW j \in Key, NEW res \in Result,
                   WorkerFinish(w, j, res) \/ WorkerRecover(w, j, res)
            PROVE  FALSE
        <5>1. Finish(w, j, res)
          BY <4>2 DEF WorkerFinish, WorkerRecover, FinishExecution,
                      RecoverInterrupted
        <5> QED
          BY <1>2, <2>2, <5>1, FinishRow
      <4>3. \/ executions' = executions
            \/ \E d \in dispatches : WorkerClaim(w, d)
            \/ \E j \in Key, res \in Result :
                 WorkerFinish(w, j, res) \/ WorkerRecover(w, j, res)
            \/ \E j \in Key : WorkerReceiveAck(w, j)
        BY DEF WorkerStep, WorkerStart, StartExecution, WorkerAbandon,
               AbandonExecution, WorkerSend, WorkerAbortFlush, AbortFlush,
               WorkerCrash, Crash, WorkerRestart, Restart, WorkerRecovered,
               RecoveryDone, WorkerBeginFlush, BeginFlush, workerVars
      <4> QED
        BY <2>2, <4>1, <4>2, <4>3
    <3>2. IsHead(w, j) /\ Report(w, j) \in acks /\ Acknowledge(w, j)
      BY <3>1 DEF WorkerReceiveAck
    <3>3. v = w /\ k = j
      BY <1>2, <2>2, <3>2, AcknowledgeRow
    <3>4. executions[w][j].dispatch # None /\ executions[w][j].result # None
      BY <1>2, <3>2, ReportType
    <3>5. AckOK(Report(w, j))
      BY <3>2 DEF SystemInv
    <3>6. [episode_id |-> j[1], attempt_id |-> j[2],
           result |-> executions[w][j].result,
           lease |-> executions[w][j].dispatch.lease] \in attempts
      BY <1>2, <3>4, <3>5 DEF AckOK, Report, ClaimOK
    <3> QED
      BY <1>1, <3>3, <3>4, <3>6 DEF RowsExtend
  <2> QED
    BY <2>1, <2>2
<1>10. SavedIsWorkersResult'
  <2> SUFFICES ASSUME NEW a \in attempts
               PROVE  LET row == executions'[a.lease.worker_id]
                                            [<<a.episode_id, a.attempt_id>>]
                      IN  /\ row.dispatch # None
                          /\ row.dispatch.lease = a.lease
                          /\ row.result = a.result
    BY <1>1 DEF SavedIsWorkersResult
  <2>1. /\ a.lease.worker_id \in WorkerId
        /\ <<a.episode_id, a.attempt_id>> \in Key
        /\ a.result \in Result
    BY <1>2 DEF TypeOK, AttemptRows, Leases, Key
  <2> QED
    BY <1>1, <2>1, NoneAssumption DEF SystemInv, SavedIsWorkersResult, RowsExtend
<1>11. UsageCarriesOver'
  BY <1>1 DEF SystemInv, UsageCarriesOver
<1> QED
  BY <1>1, <1>3, <1>5, <1>7, <1>8, <1>9, <1>10, <1>11 DEF SystemInv

\* What a step of the Server leaves of a row it holds, unless it settles or
\* retries the episode.
HeldKept(e) ==
  episodes[e].state \in HeldStates =>
    /\ episodes'[e].state \in HeldStates
    /\ episodes'[e].attempt_id = episodes[e].attempt_id
    /\ episodes'[e].lease = episodes[e].lease
    /\ episodes'[e].worker_id = episodes[e].worker_id

\* Submissions, dispatches and cancellations keep every held row held.
LEMMA HeldRows ==
  ASSUME HolderInv,
         \/ \E s \in Submission : Submit(s)
         \/ \E e \in EpisodeId, w \in WorkerId : Dispatch(e, w)
         \/ \E o \in Owner, r \in RunId : CancelRun(o, r)
         \/ Tick
         \/ UNCHANGED serverVars
  PROVE  /\ \A e \in EpisodeId : HeldKept(e)
         /\ dispatches \subseteq dispatches'
         /\ attempts' = attempts
<1>1. TypeOK
  BY DEF HolderInv, LeaseInv, RepoInv
<1>2. ASSUME NEW s \in Submission, Submit(s), NEW e \in EpisodeId
      PROVE  HeldKept(e)
  <2>1. episodes[e].state \in HeldStates => episodes'[e] = episodes[e]
    BY <1>1, <1>2, SubmitRows
  <2> QED
    BY <2>1 DEF HeldKept
<1>3. ASSUME NEW f \in EpisodeId, NEW w \in WorkerId, Dispatch(f, w),
             NEW e \in EpisodeId
      PROVE  HeldKept(e)
  <2>1. episodes[f].state = "queued"
    BY <1>3 DEF Dispatch
  <2>2. e # f => episodes'[e] = episodes[e]
    BY <1>1, <1>3, DispatchRows
  <2> QED
    BY <2>1, <2>2 DEF HeldKept
<1>4. ASSUME NEW o \in Owner, NEW r \in RunId, CancelRun(o, r),
             NEW e \in EpisodeId
      PROVE  HeldKept(e)
  <2>1. LET old == episodes[e]
            row == episodes'[e] IN
        /\ row.attempt_id = old.attempt_id
        /\ row.lease = old.lease
        /\ row.worker_id = old.worker_id
        /\ \/ row.state = old.state
           \/ old.state = "queued" /\ row.state = "cancelled"
           \/ old.state = "dispatched" /\ row.state = "cancel_requested"
    BY <1>1, <1>4, CancelColumns
  <2> QED
    BY <2>1 DEF HeldKept
<1>5. CASE Tick \/ UNCHANGED serverVars
  BY <1>5 DEF Tick, serverVars, HeldKept
<1>6. dispatches \subseteq dispatches' /\ attempts' = attempts
  BY DEF Submit, Dispatch, CancelRun, Tick, serverVars
<1> QED
  BY <1>2, <1>3, <1>4, <1>5, <1>6

\* A step of the Server that saves no attempt keeps the agreement.
LEMMA AgreementKept ==
  ASSUME SystemInv, HolderInv', UNCHANGED <<workerVars, reports>>,
         \A e \in EpisodeId : HeldKept(e),
         dispatches \subseteq dispatches', attempts' = attempts,
         \A rep \in acks' : rep \in reports /\ AckOK(rep)
  PROVE  SystemInv'
<1>1. executions' = executions /\ reports' = reports
  BY DEF workerVars
<1>2. LedgerInv'
  <2>1. LedgerInv /\ LeaseInv'
    BY DEF SystemInv, HolderInv
  <2> QED
    BY <2>1, LedgerServer
<1>3. \A rep \in reports' : ReportOK(rep)'
  BY <1>1 DEF SystemInv, ReportOK
<1>4. \A rep \in acks' : rep \in reports' /\ AckOK(rep)'
  BY <1>1 DEF AckOK
<1>5. UnfinishedIsCurrent'
  <2> SUFFICES ASSUME NEW w \in WorkerId, NEW k \in Unfinished(w)
               PROVE  LET row == episodes'[k[1]] IN
                      /\ row.state \in HeldStates
                      /\ row.attempt_id = k[2]
                      /\ row.lease = executions[w][k].dispatch.lease
                      /\ row.worker_id = w
    BY <1>1 DEF UnfinishedIsCurrent, Unfinished, Claimed
  <2>1. k[1] \in EpisodeId
    BY DEF Unfinished, Claimed, Key
  <2> QED
    BY <2>1 DEF SystemInv, UnfinishedIsCurrent, HeldKept
<1>6. AckedIsSaved' /\ SavedIsWorkersResult'
  BY <1>1 DEF SystemInv, AckedIsSaved, SavedIsWorkersResult
<1>7. UsageCarriesOver'
  BY DEF SystemInv, UsageCarriesOver, HolderInv, DispatchUsage
<1> QED
  BY <1>2, <1>3, <1>4, <1>5, <1>6, <1>7 DEF SystemInv

\* A report that is answered Ok without a change was accepted before: the
\* second early return finds the result in the row, which is a saved one.
LEMMA DuplicateIsSaved ==
  ASSUME SystemInv, NEW rep \in reports, AlreadyAccepted(rep)
  PROVE  AckOK(rep)
<1> DEFINE e == rep.result.episode_id
           i == rep.result.attempt_id
<1>1. /\ TypeOK /\ FinalIsSaved /\ SavedIsWorkersResult /\ ClaimOK
  BY DEF SystemInv, HolderInv, LeaseInv, RepoInv, LedgerInv
<1>2. e \in EpisodeId /\ rep.result \in Result
  BY ReportedDispatch DEF Key
<1>3. CASE \E a \in SavedAttempt(rep) : a.result = rep.result /\ a.lease = rep.lease
  <2>1. PICK a \in attempts : /\ a.episode_id = e /\ a.attempt_id = i
                              /\ a.result = rep.result /\ a.lease = rep.lease
    BY <1>3 DEF SavedAttempt
  <2>2. a = [episode_id |-> e, attempt_id |-> i, result |-> rep.result,
             lease |-> rep.lease]
    BY <1>1, <2>1 DEF TypeOK, AttemptRows
  <2> QED
    BY <2>1, <2>2 DEF AckOK
<1>4. CASE SavedAttempt(rep) = {} /\ episodes[e].result = rep.result
  <2>1. PICK a \in attempts : /\ a.episode_id = e
                              /\ a.attempt_id = episodes[e].attempt_id
                              /\ a.result = rep.result
    <3>1. [episode_id |-> e, attempt_id |-> episodes[e].attempt_id,
           result |-> episodes[e].result, lease |-> episodes[e].lease] \in attempts
      BY <1>1, <1>2, <1>4, NoneAssumption DEF FinalIsSaved
    <3> QED
      BY <1>4, <3>1
  <2>2. a.result.attempt_id = a.attempt_id
    <3>1. /\ a.lease.worker_id \in WorkerId
          /\ <<a.episode_id, a.attempt_id>> \in Key
          /\ a.result \in Result
      BY <1>1 DEF TypeOK, AttemptRows, Leases, Key
    <3>2. executions[a.lease.worker_id][<<a.episode_id, a.attempt_id>>].result
            = a.result
      BY <1>1 DEF SavedIsWorkersResult
    <3> QED
      BY <1>1, <3>1, <3>2, NoneAssumption DEF ClaimOK
  <2>3. a \in SavedAttempt(rep)
    BY <2>1, <2>2 DEF SavedAttempt
  <2> QED
    BY <1>4, <2>3
<1> QED
  BY <1>3, <1>4 DEF AlreadyAccepted

\* accept_result saves what the ledger of the leased worker holds: the row is
\* finished there, no other worker has the attempt, and its usage is at least
\* that of every attempt before it.
LEMMA AgreementAccept ==
  ASSUME SystemInv, HolderInv', NEW rep \in reports, HandleReport(rep)
  PROVE  SystemInv'
<1> DEFINE res == rep.result
           w0 == rep.lease.worker_id
           e == res.episode_id
           i == res.attempt_id
           saved == [episode_id |-> e, attempt_id |-> i, result |-> res,
                     lease |-> rep.lease]
<1>1. /\ LeaseInv /\ RepoInv /\ TypeOK /\ SavedOK /\ LedgerInv /\ ClaimOK
      /\ LeaseInv'
  BY DEF SystemInv, HolderInv, LeaseInv, RepoInv, LedgerInv
<1>2. PICK d \in dispatches :
           /\ w0 \in WorkerId /\ <<e, i>> \in Key /\ res \in Result
           /\ d = executions[w0][<<e, i>>].dispatch
           /\ KeyOf(d) = <<e, i>>
           /\ executions[w0][<<e, i>>].result = res
           /\ rep = [lease |-> d.lease, result |-> res]
  BY ReportedDispatch
<1>3. /\ e \in EpisodeId /\ i \in AttemptId
      /\ d.episode_id = e /\ d.attempt_id = i
  BY <1>2 DEF Key, KeyOf
<1>4. /\ AcceptResult([lease |-> d.lease, result |-> res])
      /\ acks' = acks \cup {rep}
      /\ UNCHANGED <<workerVars, reports>>
      /\ executions' = executions
  <2>1. /\ AcceptResult(rep)
        /\ acks' = acks \cup {rep}
        /\ UNCHANGED <<workerVars, reports>>
    BY DEF HandleReport
  <2> QED
    BY <1>2, <2>1 DEF workerVars
<1>5. /\ episodes[e].state \in HeldStates
      /\ episodes[e].lease = d.lease
      /\ episodes[e].result = None
      /\ episodes[e].attempt_id = i
      /\ attempts' = attempts \cup
           {[episode_id |-> e, attempt_id |-> i, result |-> res,
             lease |-> d.lease]}
      /\ RetryEpisode([lease |-> d.lease, result |-> res])
           \/ SettleEpisode([lease |-> d.lease, result |-> res])
      /\ dispatches' = dispatches
  BY <1>1, <1>2, <1>4, AcceptFacts
<1>6. attempts' = attempts \cup {saved}
  <2>1. rep.lease = d.lease
    BY <1>2 DEF SystemInv, ReportOK
  <2> QED
    BY <1>5, <2>1, Zenon
<1>7. \A f \in EpisodeId \ {e} : episodes'[f] = episodes[f]
  <2>1. PICK r : r = [lease |-> d.lease, result |-> res]
    OBVIOUS
  <2>2. r.result.episode_id = e
    BY <2>1
  <2>3. RetryEpisode(r) \/ SettleEpisode(r)
    BY <1>5, <2>1, Zenon
  <2> QED
    BY <1>1, <1>3, <2>2, <2>3, RetryRows, SettleRows
<1>8. LedgerInv'
  BY <1>1, <1>4, <1>5, LedgerServer
<1>9. \A r \in reports' : ReportOK(r)'
  BY <1>4 DEF SystemInv, ReportOK
<1>10. \A r \in acks' : r \in reports' /\ AckOK(r)'
  BY <1>4, <1>6 DEF SystemInv, AckOK
<1>11. UnfinishedIsCurrent'
  <2> SUFFICES ASSUME NEW w \in WorkerId, NEW k \in Unfinished(w)
               PROVE  LET row == episodes'[k[1]] IN
                      /\ row.state \in HeldStates
                      /\ row.attempt_id = k[2]
                      /\ row.lease = executions[w][k].dispatch.lease
                      /\ row.worker_id = w
    BY <1>4 DEF UnfinishedIsCurrent, Unfinished, Claimed
  <2>1. /\ k \in Key /\ k = <<k[1], k[2]>> /\ k[1] \in EpisodeId
        /\ executions[w][k].dispatch # None /\ executions[w][k].result = None
        /\ episodes[k[1]].attempt_id = k[2]
        /\ episodes[k[1]].worker_id = w
    BY DEF Unfinished, Claimed, Key, SystemInv, UnfinishedIsCurrent
  <2>2. k[1] # e
    <3> SUFFICES ASSUME k[1] = e PROVE FALSE
      OBVIOUS
    <3>1. k = <<e, i>>
      BY <1>5, <2>1
    <3>2. /\ executions[w][k].dispatch \in dispatches
          /\ KeyOf(executions[w][k].dispatch) = KeyOf(d)
          /\ executions[w][k].dispatch.lease.worker_id = w
      BY <1>1, <1>2, <2>1, <3>1 DEF ClaimOK
    <3>3. executions[w][k].dispatch = d
      BY <1>1, <3>2, KeyUnique
    <3>4. w = w0
      BY <1>2, <3>2, <3>3
    <3> QED
      BY <1>2, <2>1, <3>1, <3>4, NoneAssumption
  <2> QED
    BY <1>7, <2>1, <2>2 DEF SystemInv, UnfinishedIsCurrent
<1>12. AckedIsSaved'
  BY <1>4, <1>6 DEF SystemInv, AckedIsSaved
<1>13. SavedIsWorkersResult'
  <2>1. LET row == executions[w0][<<e, i>>]
        IN  row.dispatch # None /\ row.dispatch.lease = rep.lease
                                /\ row.result = res
    BY DEF SystemInv, ReportOK
  <2>2. ASSUME NEW a \in attempts'
        PROVE  LET row == executions[a.lease.worker_id]
                                    [<<a.episode_id, a.attempt_id>>]
               IN  row.dispatch # None /\ row.dispatch.lease = a.lease
                                       /\ row.result = a.result
    <3>1. CASE a \in attempts
      BY <3>1 DEF SystemInv, SavedIsWorkersResult
    <3>2. CASE a = saved
      <4>1. /\ a.lease.worker_id = w0 /\ a.episode_id = e /\ a.attempt_id = i
            /\ a.lease = rep.lease /\ a.result = res
        BY <3>2
      <4> QED
        BY <2>1, <4>1
    <3> QED
      BY <1>6, <3>1, <3>2
  <2> QED
    BY <1>4, <2>2 DEF SavedIsWorkersResult
<1>14. UsageCarriesOver'
  <2>1. \A c \in dispatches' : DispatchUsage(c)'
    BY DEF HolderInv
  <2>2. ASSUME NEW a \in attempts
        PROVE  /\ a.result.usage \in Nat
               /\ a.attempt_id \in AttemptId
               /\ a.episode_id = e => a.attempt_id <= i - 1
    BY <1>1, <1>5, ResultAssumption
       DEF TypeOK, AttemptRows, Results, SavedOK, LastSaved
  <2>3. res.usage \in Nat /\ d.consumed_usage \in Nat /\ d.consumed_usage <= res.usage
    <3>1. res \in Results /\ d \in Dispatches
      BY <1>1, <1>2, ResultAssumption DEF TypeOK
    <3>2. executions[w0][<<e, i>>].result # None
      BY <1>2, NoneAssumption
    <3>3. res.usage >= d.consumed_usage
      BY <1>1, <1>2, <3>2 DEF ClaimOK
    <3> QED
      BY <3>1, <3>3 DEF Results, Dispatches
  <2>4. ASSUME NEW a \in attempts, a.episode_id = e
        PROVE  a.result.usage <= res.usage
    <3>1. i # 1 /\ a.attempt_id <= i - 1
      BY <1>3, <2>2, <2>4
    <3>2. DispatchUsage(d)
      BY DEF SystemInv, HolderInv
    <3>3. PICK b \in attempts : /\ b.episode_id = e
                                /\ b.attempt_id = i - 1
                                /\ b.result.usage = d.consumed_usage
      BY <1>3, <3>1, <3>2 DEF DispatchUsage
    <3>4. a.result.usage <= b.result.usage
      <4>1. CASE a.attempt_id = i - 1
        <5>1. a = b
          BY <1>1, <2>4, <3>3, <4>1 DEF SavedOK
        <5> QED
          BY <2>2, <5>1
      <4>2. CASE a.attempt_id < i - 1
        BY <2>4, <3>3, <4>2 DEF SystemInv, UsageCarriesOver
      <4> QED
        BY <1>3, <2>2, <3>1, <4>1, <4>2
    <3> QED
      BY <2>2, <2>3, <3>3, <3>4
  <2>5. ASSUME NEW a \in attempts', NEW b \in attempts',
               a.episode_id = b.episode_id, a.attempt_id < b.attempt_id
        PROVE  a.result.usage <= b.result.usage
    <3>1. CASE a \in attempts /\ b \in attempts
      BY <2>5, <3>1 DEF SystemInv, UsageCarriesOver
    <3>2. CASE b = saved
      <4>1. a \in attempts
        BY <1>3, <1>6, <2>5, <3>2
      <4> QED
        BY <2>4, <2>5, <3>2, <4>1
    <3>3. CASE a = saved /\ b \in attempts
      BY <1>3, <2>2, <2>5, <3>3
    <3> QED
      BY <1>6, <3>1, <3>2, <3>3
  <2> QED
    BY <2>1, <2>5 DEF UsageCarriesOver, DispatchUsage
<1> QED
  BY <1>8, <1>9, <1>10, <1>11, <1>12, <1>13, <1>14 DEF SystemInv

\* Every step keeps the agreement.
LEMMA SystemStep == SystemInv /\ [Next]_vars => SystemInv'
<1> SUFFICES ASSUME SystemInv, [Next]_vars PROVE SystemInv'
  OBVIOUS
<1>1. HolderInv /\ HolderInv'
  BY SystemStepIsServerStep, HolderStep DEF SystemInv
<1>2. ASSUME \/ \E s \in Submission : Submit(s)
             \/ \E e \in EpisodeId, w \in WorkerId : Dispatch(e, w)
             \/ \E o \in Owner, r \in RunId : CancelRun(o, r)
             \/ Tick
             \/ UNCHANGED serverVars,
             UNCHANGED <<workerVars, reports>>,
             \A rep \in acks' : rep \in reports /\ AckOK(rep)
      PROVE  SystemInv'
  <2>1. /\ \A e \in EpisodeId : HeldKept(e)
        /\ dispatches \subseteq dispatches'
        /\ attempts' = attempts
    BY <1>1, <1>2, HeldRows
  <2> QED
    BY <1>1, <1>2, <2>1, AgreementKept
<1>3. ASSUME NEW s \in Submission, ServerSubmit(s) PROVE SystemInv'
  BY <1>2, <1>3 DEF ServerSubmit, SystemInv
<1>4. ASSUME NEW e \in EpisodeId, NEW w \in WorkerId, ServerDispatch(e, w)
      PROVE  SystemInv'
  BY <1>2, <1>4 DEF ServerDispatch, SystemInv
<1>5. ASSUME NEW o \in Owner, NEW r \in RunId, ServerCancel(o, r)
      PROVE  SystemInv'
  BY <1>2, <1>5 DEF ServerCancel, SystemInv
<1>6. ASSUME NEW rep \in reports, HandleDuplicate(rep) PROVE SystemInv'
  <2>1. /\ AckOK(rep)
        /\ acks' = acks \cup {rep}
        /\ UNCHANGED serverVars /\ UNCHANGED <<workerVars, reports>>
    BY <1>6, DuplicateIsSaved DEF HandleDuplicate
  <2>2. \A r \in acks' : r \in reports /\ AckOK(r)
    BY <2>1 DEF SystemInv
  <2> QED
    BY <1>2, <2>1, <2>2
<1>7. CASE ClockTick \/ UNCHANGED vars
  BY <1>2, <1>7 DEF ClockTick, SystemInv, vars
<1> QED
  BY <1>1, <1>3, <1>4, <1>5, <1>6, <1>7, AgreementAccept, AgreementWorker
     DEF Next, ServerStep

\* The invariant of Server and Workers together.
THEOREM SystemInvariant == Spec => []SystemInv
  BY SystemInit, SystemStep, PTL DEF Spec

\* Tables, ledgers, processes and messages keep their types.
THEOREM SystemTypeCorrect == Spec => []SystemTypeOK
<1>1. SystemInv => SystemTypeOK
  BY DEF SystemInv, LedgerInv
<1> QED
  BY <1>1, SystemInvariant, PTL

\* No duplicated or late dispatch, restart or second worker makes an attempt be
\* executed twice.
THEOREM AtMostOnceExecutionHolds == Spec => []AtMostOnceExecution
<1>1. SystemInv => AtMostOnceExecution
  BY DEF SystemInv, LedgerInv, StartOK, AtMostOnceExecution
<1> QED
  BY <1>1, SystemInvariant, PTL

\* The Server never moves on from an attempt that a worker has claimed and not
\* finished.
THEOREM UnfinishedIsCurrentHolds == Spec => []UnfinishedIsCurrent
<1>1. SystemInv => UnfinishedIsCurrent
  BY DEF SystemInv
<1> QED
  BY <1>1, SystemInvariant, PTL

\* A worker forgets no result that the Server has not saved.
THEOREM AckedIsSavedHolds == Spec => []AckedIsSaved
<1>1. SystemInv => AckedIsSaved
  BY DEF SystemInv
<1> QED
  BY <1>1, SystemInvariant, PTL

\* The two databases never disagree about an attempt.
THEOREM SavedIsWorkersResultHolds == Spec => []SavedIsWorkersResult
<1>1. SystemInv => SavedIsWorkersResult
  BY DEF SystemInv
<1> QED
  BY <1>1, SystemInvariant, PTL

\* No order of reports, crashes and recoveries makes the ledgers disagree about a
\* result: neither what is acknowledged nor what is saved.
THEOREM LedgersAgreeHolds == Spec => []LedgersAgree
<1>1. AckedIsSaved /\ SavedIsWorkersResult => LedgersAgree
  BY DEF LedgersAgree
<1> QED
  BY <1>1, AckedIsSavedHolds, SavedIsWorkersResultHolds, PTL

\* A retry starts from the usage of the attempt before it, and the reported
\* usage of an episode never goes down.
THEOREM UsageCarriesOverHolds == Spec => []UsageCarriesOver
<1>1. SystemInv => UsageCarriesOver
  BY DEF SystemInv
<1> QED
  BY <1>1, SystemInvariant, PTL

\* Composed with these workers the repository does nothing that it could not do
\* alone: all its theorems hold of the composed system.
THEOREM SystemImplementsRepository == Spec => ServerSpec
<1>1. Init => ServerInit
  BY DEF Init
<1> QED
  BY <1>1, SystemInvariant, SystemStepIsServerStep, PTL DEF Spec, ServerSpec

-----------------------------------------------------------------------------
(***************************************************************************)
(* Slots: the unfinished rows of a ledger are among the episodes that the  *)
(* Server counts against the worker.                                       *)
(***************************************************************************)

\* A dispatch that is live and unclaimed is one of the episodes the Server
\* counts, and none of those the ledger counts.
LEMMA SlotIsFree ==
  ASSUME SystemInv, SlotsRespected, NEW d \in dispatches,
         episodes[d.episode_id].state \in HeldStates,
         episodes[d.episode_id].lease = d.lease,
         executions[d.lease.worker_id][KeyOf(d)].dispatch = None
  PROVE  Cardinality(Unfinished(d.lease.worker_id))
           < WorkerCapacity[d.lease.worker_id]
<1> DEFINE w == d.lease.worker_id
           rest == Assigned(w) \ {d.episode_id}
           f == [k \in Unfinished(w) |-> k[1]]
<1>1. /\ w \in WorkerId /\ d.episode_id \in EpisodeId
      /\ RowOK(d.episode_id)
      /\ ClaimOK /\ LeaseUnique /\ UnfinishedIsCurrent
  BY DEF SystemInv, HolderInv, LeaseInv, RepoInv, TypeOK, Dispatches, Leases,
         LedgerInv
<1>2. /\ IsFiniteSet(Assigned(w)) /\ Cardinality(Assigned(w)) \in Nat
      /\ Cardinality(Assigned(w)) <= WorkerCapacity[w]
      /\ WorkerCapacity[w] \in Nat
  BY <1>1, AssignedFinite, ConstantsAssumption DEF SlotsRespected
<1>3. d.episode_id \in Assigned(w)
  BY <1>1 DEF Assigned, RowOK
<1>4. ASSUME NEW k \in Unfinished(w)
      PROVE  /\ k \in Key /\ k = <<k[1], k[2]>>
             /\ k[1] \in rest
             /\ k[2] = episodes[k[1]].attempt_id
  <2>1. /\ k \in Key /\ k = <<k[1], k[2]>> /\ k[1] \in EpisodeId
        /\ executions[w][k].dispatch # None
    BY DEF Unfinished, Claimed, Key
  <2>2. /\ episodes[k[1]].state \in HeldStates
        /\ episodes[k[1]].attempt_id = k[2]
        /\ episodes[k[1]].lease = executions[w][k].dispatch.lease
        /\ episodes[k[1]].worker_id = w
    BY <1>1 DEF UnfinishedIsCurrent
  <2>3. k[1] # d.episode_id
    <3> SUFFICES ASSUME k[1] = d.episode_id PROVE FALSE
      OBVIOUS
    <3>1. /\ executions[w][k].dispatch \in dispatches
          /\ KeyOf(executions[w][k].dispatch) = k
      BY <1>1, <2>1 DEF ClaimOK
    <3>2. executions[w][k].dispatch = d
      BY <1>1, <2>2, <3>1 DEF LeaseUnique
    <3> QED
      BY <2>1, <3>1, <3>2
  <2> QED
    BY <2>1, <2>2, <2>3 DEF Assigned
<1>5. f \in Injection(Unfinished(w), rest)
  <2>1. f \in [Unfinished(w) -> rest]
    BY <1>4
  <2>2. ASSUME NEW j \in Unfinished(w), NEW k \in Unfinished(w), f[j] = f[k]
        PROVE  j = k
    BY <1>4, <2>2
  <2> QED
    BY <2>1, <2>2 DEF Injection, IsInjective
<1>6. /\ IsFiniteSet(rest)
      /\ Cardinality(rest) = Cardinality(Assigned(w)) - 1
  BY <1>2, <1>3, FS_RemoveElement
<1>7. /\ IsFiniteSet(Unfinished(w))
      /\ Cardinality(Unfinished(w)) <= Cardinality(rest)
  BY <1>5, <1>6, FS_Injection
<1>8. Cardinality(Unfinished(w)) \in Nat
  BY <1>7, FS_CardinalityType
<1> QED
  BY <1>2, <1>6, <1>7, <1>8

\* claim never answers WORKER_CAPACITY_EXCEEDED to a dispatch that is live.
THEOREM LiveDispatchHasSlotHolds == Spec => []LiveDispatchHasSlot
<1>1. Init => SlotsRespected
  BY SlotsInit DEF Init
<1>2. SystemInv /\ SlotsRespected /\ [Next]_vars => SlotsRespected'
  BY SystemStepIsServerStep, SlotsStep DEF SystemInv, HolderInv, LeaseInv
<1>3. SystemInv /\ SlotsRespected => LiveDispatchHasSlot
  BY SlotIsFree DEF LiveDispatchHasSlot
<1> QED
  BY <1>1, <1>2, <1>3, SystemInvariant, PTL DEF Spec
=============================================================================
