---------------------- MODULE EpisodeRepositoryProofs ----------------------
(***************************************************************************)
(* Proofs about EpisodeRepository, for every set of clients, runs,         *)
(* submissions, episodes and workers and every value of the bounds, and    *)
(* for workers that may report anything under a lease they were given.     *)
(***************************************************************************)
EXTENDS EpisodeRepository, FiniteSetTheorems, TLAPS

(***************************************************************************)
(* The inductive invariant.                                                *)
(***************************************************************************)

\* What the state of a row says about its other columns and its run.
RowOK(e) ==
  LET row == episodes[e] IN
  /\ row.state = "absent" => row = AbsentRow
  /\ row.state # "absent" =>
       /\ row.run_id \in RunId
       /\ runs[row.run_id] # None
       /\ row.request \in EpisodeRequests
       /\ row.request.episode_id = e
  /\ row.state = "queued" => row.lease = None /\ row.worker_id = None
  /\ row.state \in HeldStates =>
       row.lease # None /\ row.worker_id = row.lease.worker_id
  /\ row.state \in ActiveStates => row.result = None

\* The last attempt of e that is saved.
LastSaved(e) ==
  IF episodes[e].result = None THEN episodes[e].attempt_id - 1
                               ELSE episodes[e].attempt_id

\* RetryChain, without set constructors.
SavedOK ==
  /\ \A a \in attempts :
       /\ a.attempt_id <= LastSaved(a.episode_id)
       /\ a.attempt_id < episodes[a.episode_id].attempt_id =>
            /\ a.result.execution_status = "failed"
            /\ a.result.retryable
            /\ a.result.cleanup_status = "completed"
  /\ \A a, b \in attempts :
       a.episode_id = b.episode_id /\ a.attempt_id = b.attempt_id => a = b
  /\ \A e \in EpisodeId : \A i \in AttemptId :
       i <= LastSaved(e) =>
         \E a \in attempts : a.episode_id = e /\ a.attempt_id = i

RepoInv ==
  /\ TypeOK
  /\ \A e \in EpisodeId : RowOK(e)
  /\ SavedOK

-----------------------------------------------------------------------------

USE DEF AttemptId, ActiveStates, HeldStates, ExecutionStatus, Dispatchable

\* PriorUsage of a queued episode is a number: the saved attempts have a last
\* one.
LEMMA PriorUsageType ==
  ASSUME RepoInv, NEW e \in EpisodeId, episodes[e].state = "queued"
  PROVE  PriorUsage(e) \in Nat
<1> DEFINE prior == {a \in attempts : a.episode_id = e}
           last == CHOOSE a \in prior : \A b \in prior :
                     a.attempt_id >= b.attempt_id
<1>1. CASE prior = {}
  BY <1>1 DEF PriorUsage
<1>2. CASE prior # {}
  <2>1. PICK a0 \in prior : TRUE
    BY <1>2
  <2>2. /\ a0 \in AttemptRows
        /\ episodes[e] \in EpisodeRows
        /\ LastSaved(e) = episodes[e].attempt_id - 1
    BY DEF RepoInv, TypeOK, RowOK, LastSaved
  <2>3. /\ LastSaved(e) \in AttemptId
        /\ a0.attempt_id <= LastSaved(e)
    BY <2>2, ConstantsAssumption DEF RepoInv, SavedOK, AttemptRows, EpisodeRows
  <2>4. PICK a \in attempts : a.episode_id = e /\ a.attempt_id = LastSaved(e)
    BY <2>3 DEF RepoInv, SavedOK
  <2>5. \A b \in prior : a.attempt_id >= b.attempt_id
    BY <2>4 DEF RepoInv, SavedOK
  <2>6. last \in prior
    BY <2>4, <2>5
  <2>7. last.result \in Result
    BY <2>6 DEF RepoInv, TypeOK, AttemptRows
  <2>8. last.result.usage \in Nat
    BY <2>7, ResultAssumption DEF Results
  <2> QED
    BY <1>2, <2>8 DEF PriorUsage
<1> QED
  BY <1>1, <1>2

\* The backoff is a positive number.
LEMMA BackoffType ==
  ASSUME TypeOK, NEW e \in EpisodeId, RowOK(e), episodes[e].state # "absent"
  PROVE  /\ Backoff(e) \in Nat \ {0}
         /\ Retry(e) \in RunSpecs
<1>1. runs[episodes[e].run_id] \in RunRows
  BY DEF TypeOK, RowOK
<1>2. Retry(e) \in RunSpecs
  BY <1>1, RunSpecAssumption DEF Retry, RunRows
<1>3. episodes[e].attempt_id \in AttemptId
  BY DEF TypeOK, EpisodeRows
<1>4. 2^(episodes[e].attempt_id - 1) \in Nat \ {0}
  BY <1>3, PowerAssumption
<1> DEFINE p == 2^(episodes[e].attempt_id - 1)
           i == Retry(e).initial_backoff_ms
<1>5. i \in Nat \ {0}
  BY <1>2 DEF RunSpecs
<1>6. i * p \in Nat \ {0}
  <2> HIDE DEF i, p
  <2> SUFFICES ASSUME i \in Nat, i # 0, p \in Nat, p # 0
               PROVE  i * p \in Nat \ {0}
    BY <1>4, <1>5 DEF p
  <2> QED OBVIOUS
<1> QED
  BY <1>2, <1>6 DEF Backoff, RunSpecs

-----------------------------------------------------------------------------
(***************************************************************************)
(* What each action does to one episode, stated once.                      *)
(***************************************************************************)

\* A member that submit inserts had no row, and gets a queued one.
LEMMA SubmitRows ==
  ASSUME TypeOK, NEW s \in Submission, Submit(s), NEW e \in EpisodeId
  PROVE  \/ episodes'[e] = episodes[e]
         \/ /\ episodes[e].state = "absent"
            /\ \E m \in s.episodes :
                 /\ m \in EpisodeRequests
                 /\ m.episode_id = e
                 /\ episodes'[e] = ResolvedRow(s, m)
<1> DEFINE m == CHOOSE x \in NewMembers(s) : x.episode_id = e
<1>1. CASE \E x \in NewMembers(s) : x.episode_id = e
  <2>1. m \in NewMembers(s) /\ m.episode_id = e
    BY <1>1
  <2>2. m \in s.episodes /\ Existing(m) = {}
    BY <2>1 DEF NewMembers
  <2>3. m \in EpisodeRequests
    BY <2>2, SubmissionAssumption DEF Submissions
  <2>4. episodes[e].state = "absent"
    BY <2>1, <2>2 DEF Existing
  <2>5. episodes'[e] = ResolvedRow(s, m)
    BY <1>1 DEF Submit
  <2> QED
    BY <2>1, <2>2, <2>3, <2>4, <2>5
<1>2. CASE ~ \E x \in NewMembers(s) : x.episode_id = e
  BY <1>2 DEF Submit
<1> QED
  BY <1>1, <1>2

\* The row submit inserts, written out.
LEMMA ResolvedRowShape ==
  ASSUME TypeOK, NEW s \in Submission, NEW m \in EpisodeRequests
  PROVE  LET row == ResolvedRow(s, m) IN
         /\ row \in EpisodeRows
         /\ row.run_id = s.run_id
         /\ row.request = m
         /\ row.attempt_id = 1
         /\ row.state = "queued"
         /\ row.lease = None
         /\ row.worker_id = None
         /\ row.result = None
<1>1. now + s.run_spec.total_timeout_ms \in Nat
  BY SubmissionAssumption, RunSpecAssumption
     DEF TypeOK, Submissions, RunSpecs
<1>2. s.run_id \in RunId
  BY SubmissionAssumption DEF Submissions
<1> QED
  BY <1>1, <1>2, ConstantsAssumption
     DEF ResolvedRow, EpisodeRows, States

\* The lease and the dispatch request that dispatch issues.
LEMMA DispatchTypes ==
  ASSUME RepoInv, NEW e \in EpisodeId, NEW w \in WorkerId, Dispatch(e, w)
  PROVE  /\ IssueLease(e, w) \in Leases
         /\ DispatchRequest(e, w) \in Dispatches
<1>1. /\ episodes[e] \in EpisodeRows
      /\ now \in Nat /\ nonce[e] \in Nat
      /\ now < episodes[e].deadline_at_ms
  BY DEF RepoInv, TypeOK, Dispatch
<1>2. IssueLease(e, w) \in Leases
  BY <1>1, ConstantsAssumption DEF IssueLease, Leases, EpisodeRows
<1>3. PriorUsage(e) \in Nat
  BY PriorUsageType DEF Dispatch
<1> QED
  BY <1>1, <1>2, <1>3 DEF DispatchRequest, Dispatches, EpisodeRows

\* What AcceptResult finds: a held row with this lease and attempt.
LEMMA AcceptFacts ==
  ASSUME RepoInv, NEW d \in dispatches, NEW res \in Result,
         AcceptResult([lease |-> d.lease, result |-> res])
  PROVE  LET e == res.episode_id
             rep == [lease |-> d.lease, result |-> res]
             saved == [episode_id |-> e, attempt_id |-> res.attempt_id,
                       result |-> res, lease |-> d.lease] IN
         /\ e \in EpisodeId
         /\ res \in Results
         /\ d.lease \in Leases
         /\ episodes[e] \in EpisodeRows
         /\ episodes[e].state \in HeldStates
         /\ episodes[e].lease = d.lease
         /\ episodes[e].result = None
         /\ episodes[e].attempt_id = res.attempt_id
         /\ d.lease.expires_at_ms > now
         /\ attempts' = attempts \cup {saved}
         /\ saved \in AttemptRows
         /\ RetryEpisode(rep) \/ SettleEpisode(rep)
         /\ UNCHANGED <<now, runs, batches, nonce, dispatches>>
<1> DEFINE rep == [lease |-> d.lease, result |-> res]
<1>1. res \in Results /\ d.lease \in Leases
  BY ResultAssumption DEF RepoInv, TypeOK, Dispatches
<1>2. res.episode_id \in EpisodeId /\ res.attempt_id \in AttemptId
  BY <1>1 DEF Results
<1>3. /\ Acceptable(rep)
      /\ SaveAttempt(rep)
      /\ RetryEpisode(rep) \/ SettleEpisode(rep)
      /\ UNCHANGED <<now, runs, batches, nonce, dispatches>>
  BY DEF AcceptResult
<1>4. episodes[res.episode_id] \in EpisodeRows
  BY <1>2 DEF RepoInv, TypeOK
<1> QED
  BY <1>1, <1>2, <1>3, <1>4 DEF Acceptable, SaveAttempt, AttemptRows

-----------------------------------------------------------------------------
(***************************************************************************)
(* Rows after each action, written out.                                    *)
(***************************************************************************)

\* Dispatch changes three columns of one row.
LEMMA DispatchRows ==
  ASSUME TypeOK, NEW e \in EpisodeId, NEW w \in WorkerId, Dispatch(e, w)
  PROVE  /\ \A f \in EpisodeId \ {e} : episodes'[f] = episodes[f]
         /\ episodes'[e] = [run_id |-> episodes[e].run_id,
                            request |-> episodes[e].request,
                            attempt_id |-> episodes[e].attempt_id,
                            deadline_at_ms |-> episodes[e].deadline_at_ms,
                            state |-> "dispatched",
                            lease |-> IssueLease(e, w),
                            worker_id |-> w,
                            result |-> episodes[e].result]
<1>1. episodes \in [EpisodeId -> EpisodeRows]
  BY DEF TypeOK
<1>2. /\ \A f \in EpisodeId \ {e} : episodes'[f] = episodes[f]
      /\ episodes'[e] = [[[episodes[e] EXCEPT !.state = "dispatched"]
                                       EXCEPT !.lease = IssueLease(e, w)]
                                       EXCEPT !.worker_id = w]
  BY <1>1, SMT DEF Dispatch
<1>3. episodes[e] \in EpisodeRows
  BY <1>1
<1> QED
  BY <1>2, <1>3 DEF EpisodeRows

\* The retry branch changes the row of the reported episode only, as stated.
LEMMA RetryRows ==
  ASSUME TypeOK, NEW rep, rep.result.episode_id \in EpisodeId,
         RetryEpisode(rep)
  PROVE  LET e == rep.result.episode_id IN
         /\ \A f \in EpisodeId \ {e} : episodes'[f] = episodes[f]
         /\ episodes'[e] = [run_id |-> episodes[e].run_id,
                            request |-> episodes[e].request,
                            attempt_id |-> episodes[e].attempt_id + 1,
                            deadline_at_ms |-> episodes[e].deadline_at_ms,
                            state |-> "queued", lease |-> None,
                            worker_id |-> None, result |-> None]
<1>1. episodes \in [EpisodeId -> EpisodeRows]
  BY DEF TypeOK
<1>2. PICK e \in EpisodeId : e = rep.result.episode_id
  OBVIOUS
<1>3. episodes' = [episodes EXCEPT ![e] =
         [episodes[e] EXCEPT !.attempt_id = @ + 1, !.state = "queued",
                             !.lease = None, !.worker_id = None,
                             !.result = None]]
  BY <1>1, <1>2 DEF RetryEpisode, RetriedRow, EpisodeRows
<1>4. episodes[e] \in EpisodeRows
  BY <1>1
<1> QED
  BY <1>1, <1>2, <1>3, <1>4 DEF EpisodeRows

\* The final branch changes state and result of the reported episode only.
LEMMA SettleRows ==
  ASSUME TypeOK, NEW rep, rep.result.episode_id \in EpisodeId,
         SettleEpisode(rep)
  PROVE  LET e == rep.result.episode_id IN
         /\ \A f \in EpisodeId \ {e} : episodes'[f] = episodes[f]
         /\ episodes'[e] = [run_id |-> episodes[e].run_id,
                            request |-> episodes[e].request,
                            attempt_id |-> episodes[e].attempt_id,
                            deadline_at_ms |-> episodes[e].deadline_at_ms,
                            state |-> rep.result.execution_status,
                            lease |-> episodes[e].lease,
                            worker_id |-> episodes[e].worker_id,
                            result |-> rep.result]
<1>1. episodes \in [EpisodeId -> EpisodeRows]
  BY DEF TypeOK
<1>2. PICK e \in EpisodeId : e = rep.result.episode_id
  OBVIOUS
<1>3. episodes' =
         [episodes EXCEPT ![e].state = rep.result.execution_status,
                          ![e].result = rep.result]
  BY <1>2, Zenon DEF SettleEpisode
<1>4. /\ \A f \in EpisodeId \ {e} : episodes'[f] = episodes[f]
      /\ episodes'[e] = [[episodes[e] EXCEPT
                            !.state = rep.result.execution_status]
                          EXCEPT !.result = rep.result]
  BY <1>1, <1>3, SMT
<1>5. episodes[e] \in EpisodeRows
  BY <1>1
<1> QED
  BY <1>2, <1>4, <1>5 DEF EpisodeRows

\* cancel_run changes at most the state column of a row.
LEMMA CancelRows ==
  ASSUME TypeOK, NEW o \in Owner, NEW r \in RunId, CancelRun(o, r),
         NEW e \in EpisodeId
  PROVE  \/ episodes'[e] = episodes[e]
         \/ \E s \in States :
              /\ \/ episodes[e].state = "queued" /\ s = "cancelled"
                 \/ episodes[e].state = "dispatched" /\ s = "cancel_requested"
              /\ episodes'[e] = [run_id |-> episodes[e].run_id,
                                 request |-> episodes[e].request,
                                 attempt_id |-> episodes[e].attempt_id,
                                 deadline_at_ms |-> episodes[e].deadline_at_ms,
                                 state |-> s,
                                 lease |-> episodes[e].lease,
                                 worker_id |-> episodes[e].worker_id,
                                 result |-> episodes[e].result]
<1>1. episodes[e] \in EpisodeRows
  BY DEF TypeOK
<1>2. CASE episodes[e].run_id = r /\ episodes[e].state = "queued"
  <2>1. episodes'[e] = [episodes[e] EXCEPT !.state = "cancelled"]
    BY <1>2 DEF CancelRun, CancelledRow
  <2> QED
    BY <1>1, <1>2, <2>1 DEF EpisodeRows, States
<1>3. CASE episodes[e].run_id = r /\ episodes[e].state = "dispatched"
  <2>1. episodes'[e] = [episodes[e] EXCEPT !.state = "cancel_requested"]
    BY <1>3 DEF CancelRun, CancelledRow
  <2> QED
    BY <1>1, <1>3, <2>1 DEF EpisodeRows, States
<1>4. CASE ~(/\ episodes[e].run_id = r
             /\ episodes[e].state \in {"queued", "dispatched"})
  BY <1>4 DEF CancelRun, CancelledRow
<1> QED
  BY <1>2, <1>3, <1>4

\* The same, column by column.
LEMMA CancelColumns ==
  ASSUME TypeOK, NEW o \in Owner, NEW r \in RunId, CancelRun(o, r),
         NEW e \in EpisodeId
  PROVE  LET old == episodes[e]
             row == episodes'[e] IN
         /\ row.run_id = old.run_id
         /\ row.request = old.request
         /\ row.attempt_id = old.attempt_id
         /\ row.deadline_at_ms = old.deadline_at_ms
         /\ row.lease = old.lease
         /\ row.worker_id = old.worker_id
         /\ row.result = old.result
         /\ \/ row.state = old.state
            \/ old.state = "queued" /\ row.state = "cancelled"
            \/ old.state = "dispatched" /\ row.state = "cancel_requested"
<1>1. CASE episodes'[e] = episodes[e]
  BY <1>1
<1>2. ASSUME NEW s \in States,
             \/ episodes[e].state = "queued" /\ s = "cancelled"
             \/ episodes[e].state = "dispatched" /\ s = "cancel_requested",
             episodes'[e] = [run_id |-> episodes[e].run_id,
                             request |-> episodes[e].request,
                             attempt_id |-> episodes[e].attempt_id,
                             deadline_at_ms |-> episodes[e].deadline_at_ms,
                             state |-> s,
                             lease |-> episodes[e].lease,
                             worker_id |-> episodes[e].worker_id,
                             result |-> episodes[e].result]
      PROVE  /\ episodes'[e].run_id = episodes[e].run_id
             /\ episodes'[e].request = episodes[e].request
             /\ episodes'[e].attempt_id = episodes[e].attempt_id
             /\ episodes'[e].deadline_at_ms = episodes[e].deadline_at_ms
             /\ episodes'[e].lease = episodes[e].lease
             /\ episodes'[e].worker_id = episodes[e].worker_id
             /\ episodes'[e].result = episodes[e].result
             /\ episodes'[e].state = s
  BY <1>2
<1> QED
  BY <1>1, <1>2, CancelRows, ZenonT(40)

-----------------------------------------------------------------------------
(***************************************************************************)
(* RepoInv is inductive.                                                   *)
(***************************************************************************)

\* The empty database satisfies the invariant.
LEMMA RepoInit == ServerInit => RepoInv
<1> SUFFICES ASSUME ServerInit PROVE RepoInv
  OBVIOUS
<1>1. AbsentRow \in EpisodeRows
  BY ConstantsAssumption DEF AbsentRow, EpisodeRows, States
<1>2. TypeOK
  BY <1>1 DEF ServerInit, TypeOK
<1>3. \A e \in EpisodeId : RowOK(e)
  BY DEF ServerInit, RowOK, AbsentRow
<1>4. SavedOK
  BY DEF ServerInit, SavedOK, LastSaved, AbsentRow
<1> QED
  BY <1>2, <1>3, <1>4 DEF RepoInv

\* submit preserves the invariant: a new row is queued and has no attempt.
LEMMA SubmitInv ==
  ASSUME RepoInv, NEW s \in Submission, Submit(s)
  PROVE  RepoInv'
<1> USE DEF RepoInv
<1>1. /\ s.run_id \in RunId /\ s.owner \in Owner /\ s.run_spec \in RunSpec
      /\ [owner |-> s.owner, spec |-> s.run_spec] \in RunRows
  BY SubmissionAssumption DEF Submissions, RunRows
<1>2. /\ runs' = [runs EXCEPT ![s.run_id] =
                    [owner |-> s.owner, spec |-> s.run_spec]]
      /\ batches' = batches \cup {s}
      /\ UNCHANGED <<now, attempts, retryDelays, notifications, nonce,
                     dispatches>>
      /\ DOMAIN episodes' = EpisodeId
      /\ episodes' = [e \in EpisodeId |-> episodes'[e]]
  BY DEF Submit
<1>3. \A e \in EpisodeId : episodes'[e] \in EpisodeRows
  BY SubmitRows, ResolvedRowShape DEF TypeOK
<1>4. episodes' \in [EpisodeId -> EpisodeRows]
  BY <1>2, <1>3
<1>5. TypeOK'
  BY <1>1, <1>2, <1>4 DEF TypeOK
<1>6. \A r \in RunId : runs[r] # None => runs'[r] # None
  BY <1>1, <1>2, NoneAssumption DEF TypeOK
<1>7. runs'[s.run_id] # None
  BY <1>1, <1>2, NoneAssumption DEF TypeOK
<1>8. ASSUME NEW e \in EpisodeId PROVE RowOK(e)'
  <2>1. RowOK(e)
    OBVIOUS
  <2>2. CASE episodes'[e] = episodes[e]
    BY <2>1, <2>2, <1>6 DEF RowOK
  <2>3. ASSUME NEW m \in EpisodeRequests, m.episode_id = e,
               episodes'[e] = ResolvedRow(s, m)
        PROVE  RowOK(e)'
    BY <2>3, <1>1, <1>7, ResolvedRowShape DEF RowOK
  <2> QED
    BY <2>2, <2>3, SubmitRows
<1>9. \A e \in EpisodeId : /\ LastSaved(e)' = LastSaved(e)
                           /\ episodes'[e].attempt_id = episodes[e].attempt_id
  <2> SUFFICES ASSUME NEW e \in EpisodeId
               PROVE  /\ LastSaved(e)' = LastSaved(e)
                      /\ episodes'[e].attempt_id = episodes[e].attempt_id
    OBVIOUS
  <2>1. CASE episodes'[e] = episodes[e]
    BY <2>1 DEF LastSaved
  <2>2. ASSUME NEW m \in EpisodeRequests, episodes'[e] = ResolvedRow(s, m),
               episodes[e].state = "absent"
        PROVE  /\ LastSaved(e)' = LastSaved(e)
               /\ episodes'[e].attempt_id = episodes[e].attempt_id
    BY <2>2, ResolvedRowShape DEF RowOK, LastSaved, AbsentRow
  <2> QED
    BY <2>1, <2>2, SubmitRows
<1>10. SavedOK'
  BY <1>2, <1>9 DEF SavedOK, TypeOK, AttemptRows
<1> QED
  BY <1>5, <1>8, <1>10

\* dispatch preserves the invariant: only state, lease and worker change.
LEMMA DispatchInv ==
  ASSUME RepoInv, NEW e \in EpisodeId, NEW w \in WorkerId, Dispatch(e, w)
  PROVE  RepoInv'
<1> USE DEF RepoInv
<1>1. /\ IssueLease(e, w) \in Leases
      /\ DispatchRequest(e, w) \in Dispatches
  BY DispatchTypes
<1>2. /\ UNCHANGED <<now, runs, batches, attempts, retryDelays, notifications>>
      /\ dispatches' = dispatches \cup {DispatchRequest(e, w)}
      /\ nonce' = [nonce EXCEPT ![e] = @ + 1]
      /\ episodes[e].state = "queued"
      /\ episodes' = [f \in EpisodeId |-> episodes'[f]]
  BY DEF Dispatch, TypeOK
<1>3. /\ \A f \in EpisodeId \ {e} : episodes'[f] = episodes[f]
      /\ episodes'[e] = [run_id |-> episodes[e].run_id,
                         request |-> episodes[e].request,
                         attempt_id |-> episodes[e].attempt_id,
                         deadline_at_ms |-> episodes[e].deadline_at_ms,
                         state |-> "dispatched",
                         lease |-> IssueLease(e, w),
                         worker_id |-> w,
                         result |-> episodes[e].result]
  BY DispatchRows
<1>4. \A f \in EpisodeId : episodes[f] \in EpisodeRows
  BY DEF TypeOK
<1>5. \A f \in EpisodeId : episodes'[f] \in EpisodeRows
  BY <1>1, <1>3, <1>4 DEF EpisodeRows, States
<1>6. TypeOK'
  <2>1. episodes' \in [EpisodeId -> EpisodeRows]
    BY <1>2, <1>5
  <2>2. nonce' \in [EpisodeId -> Nat]
    BY <1>2 DEF TypeOK
  <2> QED
    BY <1>1, <1>2, <2>1, <2>2 DEF TypeOK
<1>7. ASSUME NEW f \in EpisodeId PROVE RowOK(f)'
  <2>1. CASE f = e
    BY <2>1, <1>1, <1>2, <1>3, NoneAssumption DEF RowOK, IssueLease
  <2>2. CASE f # e
    BY <2>2, <1>2, <1>3 DEF RowOK
  <2> QED
    BY <2>1, <2>2
<1>8. \A f \in EpisodeId : /\ LastSaved(f)' = LastSaved(f)
                           /\ episodes'[f].attempt_id = episodes[f].attempt_id
  BY <1>3 DEF LastSaved
<1>9. SavedOK'
  BY <1>2, <1>8 DEF SavedOK, TypeOK, AttemptRows
<1> QED
  BY <1>6, <1>7, <1>9

\* Saving the current attempt extends the chain of saved attempts by one; the
\* attempt may be superseded at once if it was one that is retried.
LEMMA SavedExtends ==
  ASSUME RepoInv, NEW e \in EpisodeId, NEW a \in AttemptRows,
         a.episode_id = e,
         attempts' = attempts \cup {a},
         LastSaved(e) = a.attempt_id - 1,
         LastSaved(e)' = a.attempt_id,
         episodes[e].attempt_id = a.attempt_id,
         \/ episodes'[e].attempt_id = a.attempt_id
         \/ /\ episodes'[e].attempt_id = a.attempt_id + 1
            /\ a.result.execution_status = "failed"
            /\ a.result.retryable
            /\ a.result.cleanup_status = "completed",
         \A f \in EpisodeId \ {e} : /\ episodes'[f] = episodes[f]
                                    /\ LastSaved(f)' = LastSaved(f)
  PROVE  SavedOK'
<1>1. /\ TypeOK /\ SavedOK
      /\ a.attempt_id \in AttemptId
      /\ \A b \in attempts : b.episode_id \in EpisodeId /\ b.attempt_id \in AttemptId
  BY DEF RepoInv, TypeOK, AttemptRows
<1>2. ASSUME NEW b \in attempts'
      PROVE  /\ b.attempt_id <= LastSaved(b.episode_id)'
             /\ b.attempt_id < episodes'[b.episode_id].attempt_id =>
                  /\ b.result.execution_status = "failed"
                  /\ b.result.retryable
                  /\ b.result.cleanup_status = "completed"
  <2>1. CASE b = a
    BY <2>1, <1>1
  <2>2. CASE b \in attempts /\ b.episode_id = e
    BY <2>2, <1>1 DEF SavedOK
  <2>3. CASE b \in attempts /\ b.episode_id # e
    BY <2>3, <1>1 DEF SavedOK
  <2> QED
    BY <2>1, <2>2, <2>3
<1>3. \A b, c \in attempts' :
        b.episode_id = c.episode_id /\ b.attempt_id = c.attempt_id => b = c
  <2>1. \A b \in attempts : b.episode_id = e => b.attempt_id < a.attempt_id
    BY <1>1 DEF SavedOK
  <2> QED
    BY <1>1, <2>1 DEF SavedOK
<1>4. ASSUME NEW f \in EpisodeId, NEW i \in AttemptId, i <= LastSaved(f)'
      PROVE  \E b \in attempts' : b.episode_id = f /\ b.attempt_id = i
  <2>1. CASE f = e /\ i = a.attempt_id
    BY <2>1
  <2>2. CASE f = e /\ i # a.attempt_id
    <3>1. i <= LastSaved(e)
      BY <2>2, <1>4, <1>1
    <3> QED
      BY <2>2, <3>1, <1>1 DEF SavedOK
  <2>3. CASE f # e
    BY <2>3, <1>4, <1>1 DEF SavedOK
  <2> QED
    BY <2>1, <2>2, <2>3
<1> QED
  BY <1>2, <1>3, <1>4 DEF SavedOK

\* accept_result preserves the invariant: the attempt it saves is the next one.
LEMMA AcceptInv ==
  ASSUME RepoInv, NEW d \in dispatches, NEW res \in Result,
         AcceptResult([lease |-> d.lease, result |-> res])
  PROVE  RepoInv'
<1> DEFINE rep == [lease |-> d.lease, result |-> res]
           e == res.episode_id
           saved == [episode_id |-> e, attempt_id |-> res.attempt_id,
                     result |-> res, lease |-> d.lease]
<1>1. /\ e \in EpisodeId
      /\ res \in Results
      /\ d.lease \in Leases
      /\ episodes[e] \in EpisodeRows
      /\ episodes[e].state \in HeldStates
      /\ episodes[e].lease = d.lease
      /\ episodes[e].result = None
      /\ episodes[e].attempt_id = res.attempt_id
      /\ attempts' = attempts \cup {saved}
      /\ saved \in AttemptRows
      /\ RetryEpisode(rep) \/ SettleEpisode(rep)
      /\ UNCHANGED <<now, runs, batches, nonce, dispatches>>
  BY AcceptFacts
<1>2. rep.result = res /\ rep.result.episode_id = e /\ rep.lease = d.lease
  OBVIOUS
<1>3. TypeOK /\ RowOK(e) /\ SavedOK
  BY <1>1 DEF RepoInv
<1>4. \A f \in EpisodeId : episodes[f] \in EpisodeRows
  BY <1>3 DEF TypeOK
<1>5. CASE RetryEpisode(rep)
  <2>1. /\ \A f \in EpisodeId \ {e} : episodes'[f] = episodes[f]
        /\ episodes'[e] = [run_id |-> episodes[e].run_id,
                           request |-> episodes[e].request,
                           attempt_id |-> episodes[e].attempt_id + 1,
                           deadline_at_ms |-> episodes[e].deadline_at_ms,
                           state |-> "queued", lease |-> None,
                           worker_id |-> None, result |-> None]
    BY <1>1, <1>2, <1>3, <1>5, RetryRows
  <2>2. /\ ShouldRetry(rep)
        /\ retryDelays' = [retryDelays EXCEPT ![e] = now + Backoff(e)]
        /\ notifications' = notifications
        /\ episodes' = [f \in EpisodeId |-> episodes'[f]]
    BY <1>2, <1>3, <1>5 DEF RetryEpisode, TypeOK
  <2>3. Backoff(e) \in Nat /\ Retry(e) \in RunSpecs
    BY <1>1, <1>3, BackoffType
  <2>4. /\ episodes[e].attempt_id + 1 \in AttemptId
        /\ res.execution_status = "failed"
        /\ res.retryable
        /\ res.cleanup_status = "completed"
    BY <1>1, <1>2, <2>2, <2>3, ConstantsAssumption
       DEF ShouldRetry, RunSpecs, EpisodeRows
  <2>5. \A f \in EpisodeId : episodes'[f] \in EpisodeRows
    BY <1>1, <1>4, <2>1, <2>4 DEF EpisodeRows, States
  <2>6. TypeOK'
    <3>1. episodes' \in [EpisodeId -> EpisodeRows]
      BY <2>2, <2>5
    <3>2. now + Backoff(e) \in Nat
      BY <1>3, <2>3 DEF TypeOK
    <3>3. retryDelays \in [EpisodeId -> Nat]
      BY <1>3 DEF TypeOK
    <3>4. retryDelays' \in [EpisodeId -> Nat]
      BY <2>2, <3>2, <3>3
    <3> QED
      BY <1>1, <1>3, <2>2, <3>1, <3>4 DEF TypeOK
  <2>7. ASSUME NEW f \in EpisodeId PROVE RowOK(f)'
    <3>1. CASE f = e
      BY <3>1, <1>1, <1>3, <2>1 DEF RowOK
    <3>2. CASE f # e
      BY <3>2, <1>1, <2>1 DEF RowOK, RepoInv
    <3> QED
      BY <3>1, <3>2
  <2>8. /\ LastSaved(e)' = res.attempt_id
        /\ LastSaved(e) = res.attempt_id - 1
        /\ episodes'[e].attempt_id = res.attempt_id + 1
        /\ \A f \in EpisodeId \ {e} : LastSaved(f)' = LastSaved(f)
    BY <1>1, <1>4, <2>1 DEF LastSaved, EpisodeRows
  <2>9. SavedOK'
    BY <1>1, <2>1, <2>4, <2>8, SavedExtends
  <2> QED
    BY <2>6, <2>7, <2>9 DEF RepoInv
<1>6. CASE SettleEpisode(rep)
  <2>1. /\ \A f \in EpisodeId \ {e} : episodes'[f] = episodes[f]
        /\ episodes'[e] = [run_id |-> episodes[e].run_id,
                           request |-> episodes[e].request,
                           attempt_id |-> episodes[e].attempt_id,
                           deadline_at_ms |-> episodes[e].deadline_at_ms,
                           state |-> res.execution_status,
                           lease |-> episodes[e].lease,
                           worker_id |-> episodes[e].worker_id,
                           result |-> res]
    BY <1>1, <1>2, <1>3, <1>6, SettleRows
  <2>2. /\ notifications' = [notifications EXCEPT ![e] = Append(@, res)]
        /\ retryDelays' = retryDelays
        /\ episodes' = [f \in EpisodeId |-> episodes'[f]]
    BY <1>2, <1>3, <1>6 DEF SettleEpisode, TypeOK
  <2>3. \A f \in EpisodeId : episodes'[f] \in EpisodeRows
    BY <1>1, <1>4, <2>1 DEF EpisodeRows, States, Results
  <2>4. TypeOK'
    <3>1. episodes' \in [EpisodeId -> EpisodeRows]
      BY <2>2, <2>3
    <3>2. notifications[e] \in Seq(Result)
      BY <1>1, <1>3 DEF TypeOK
    <3>3. Append(notifications[e], res) \in Seq(Result)
      BY <3>2
    <3>4. notifications' \in [EpisodeId -> Seq(Result)]
      BY <1>3, <2>2, <3>3 DEF TypeOK
    <3> QED
      BY <1>1, <1>3, <2>2, <3>1, <3>4 DEF TypeOK
  <2>5. ASSUME NEW f \in EpisodeId PROVE RowOK(f)'
    <3>1. CASE f = e
      BY <3>1, <1>1, <1>3, <2>1 DEF RowOK, Results
    <3>2. CASE f # e
      BY <3>2, <1>1, <2>1 DEF RowOK, RepoInv
    <3> QED
      BY <3>1, <3>2
  <2>6. /\ LastSaved(e)' = res.attempt_id
        /\ LastSaved(e) = res.attempt_id - 1
        /\ episodes'[e].attempt_id = res.attempt_id
        /\ \A f \in EpisodeId \ {e} : LastSaved(f)' = LastSaved(f)
    BY <1>1, <1>4, <2>1, NoneAssumption DEF LastSaved, EpisodeRows
  <2>7. SavedOK'
    BY <1>1, <2>1, <2>6, SavedExtends
  <2> QED
    BY <2>4, <2>5, <2>7 DEF RepoInv
<1> QED
  BY <1>1, <1>5, <1>6

\* cancel_run preserves the invariant: attempts and results are untouched.
LEMMA CancelInv ==
  ASSUME RepoInv, NEW o \in Owner, NEW r \in RunId, CancelRun(o, r)
  PROVE  RepoInv'
<1> USE DEF RepoInv
<1>1. /\ UNCHANGED <<now, runs, batches, attempts, retryDelays, notifications,
                     nonce, dispatches>>
      /\ episodes' = [f \in EpisodeId |-> episodes'[f]]
  BY DEF CancelRun
<1>2. \A f \in EpisodeId : episodes[f] \in EpisodeRows
  BY DEF TypeOK
<1>3. ASSUME NEW f \in EpisodeId
      PROVE  /\ episodes'[f] \in EpisodeRows
             /\ RowOK(f)'
             /\ LastSaved(f)' = LastSaved(f)
             /\ episodes'[f].attempt_id = episodes[f].attempt_id
  <2>1. CASE episodes'[f] = episodes[f]
    BY <2>1, <1>1, <1>2 DEF RowOK, LastSaved
  <2>2. ASSUME NEW s \in States,
               \/ episodes[f].state = "queued" /\ s = "cancelled"
               \/ episodes[f].state = "dispatched" /\ s = "cancel_requested",
               episodes'[f] = [run_id |-> episodes[f].run_id,
                               request |-> episodes[f].request,
                               attempt_id |-> episodes[f].attempt_id,
                               deadline_at_ms |-> episodes[f].deadline_at_ms,
                               state |-> s,
                               lease |-> episodes[f].lease,
                               worker_id |-> episodes[f].worker_id,
                               result |-> episodes[f].result]
        PROVE  /\ episodes'[f] \in EpisodeRows
               /\ RowOK(f)'
               /\ LastSaved(f)' = LastSaved(f)
               /\ episodes'[f].attempt_id = episodes[f].attempt_id
    <3>1. episodes'[f] \in EpisodeRows
      BY <2>2, <1>2 DEF EpisodeRows
    <3>2. RowOK(f)'
      BY <2>2, <1>1 DEF RowOK
    <3> QED
      BY <2>2, <3>1, <3>2 DEF LastSaved
  <2> QED
    BY <2>1, <2>2, CancelRows
<1>4. TypeOK'
  <2>1. episodes' \in [EpisodeId -> EpisodeRows]
    BY <1>1, <1>3
  <2> QED
    BY <1>1, <2>1 DEF TypeOK
<1>5. SavedOK'
  BY <1>1, <1>3 DEF SavedOK, TypeOK, AttemptRows
<1> QED
  BY <1>3, <1>4, <1>5

\* RepoInv is preserved by every step of the Server and of the clock.
LEMMA RepoStep == RepoInv /\ [ServerNext]_serverVars => RepoInv'
<1> SUFFICES ASSUME RepoInv, [ServerNext]_serverVars PROVE RepoInv'
  OBVIOUS
<1>1. CASE Tick \/ UNCHANGED serverVars
  <2>1. /\ UNCHANGED <<runs, batches, episodes, attempts, retryDelays,
                       notifications, nonce, dispatches>>
        /\ now' \in Nat
    BY <1>1 DEF Tick, serverVars, RepoInv, TypeOK
  <2>2. TypeOK'
    BY <2>1 DEF RepoInv, TypeOK
  <2>3. \A e \in EpisodeId : RowOK(e)'
    BY <2>1 DEF RepoInv, RowOK
  <2>4. SavedOK'
    BY <2>1 DEF RepoInv, SavedOK, LastSaved
  <2> QED
    BY <2>2, <2>3, <2>4 DEF RepoInv
<1> QED
  BY <1>1, SubmitInv, DispatchInv, AcceptInv, CancelInv DEF ServerNext

\* The invariant holds in every reachable state of the repository: each row of
\* the table episodes is consistent with its state column, and the attempts
\* table holds exactly the chain of attempts that row implies.
THEOREM RepositoryInvariant == ServerSpec => []RepoInv
  BY RepoInit, RepoStep, PTL DEF ServerSpec

\* Every table keeps rows of its type, whatever the workers report.
THEOREM RepositoryTypeCorrect == ServerSpec => []TypeOK
<1>1. RepoInv => TypeOK
  BY DEF RepoInv
<1> QED
  BY <1>1, RepositoryInvariant, PTL

\* The saved attempts of an episode are numbered without gap or duplicate and
\* each superseded one failed, was retryable and had been cleaned up.
THEOREM RetryChainHolds == ServerSpec => []RetryChain
<1>1. RepoInv => RetryChain
  <2> SUFFICES ASSUME RepoInv, NEW e \in EpisodeId
               PROVE  LET saved == {a \in attempts : a.episode_id = e}
                          row == episodes[e]
                      IN  /\ {a.attempt_id : a \in saved} = 1 .. LastSaved(e)
                          /\ \A a, b \in saved :
                               a.attempt_id = b.attempt_id => a = b
                          /\ \A a \in saved : a.attempt_id < row.attempt_id =>
                               /\ a.result.execution_status = "failed"
                               /\ a.result.retryable
                               /\ a.result.cleanup_status = "completed"
    BY DEF RetryChain, LastSaved
  <2> DEFINE saved == {a \in attempts : a.episode_id = e}
             ids == {a.attempt_id : a \in saved}
  <2>1. /\ TypeOK /\ SavedOK
        /\ episodes[e] \in EpisodeRows
        /\ LastSaved(e) \in 0 .. MaxAttemptId
    BY ConstantsAssumption DEF RepoInv, TypeOK, EpisodeRows, LastSaved
  <2>2. ASSUME NEW a \in saved PROVE a.attempt_id \in 1 .. LastSaved(e)
    BY <2>1 DEF SavedOK, TypeOK, AttemptRows
  <2>3. ASSUME NEW i \in 1 .. LastSaved(e) PROVE i \in ids
    BY <2>1, ConstantsAssumption DEF SavedOK
  <2>4. ids = 1 .. LastSaved(e)
    BY <2>2, <2>3
  <2> QED
    BY <2>1, <2>4 DEF SavedOK
<1> QED
  BY <1>1, RepositoryInvariant, PTL

\* No step of the Server alters a saved attempt or a settled episode.
THEOREM SettledIsFinalHolds == ServerSpec => SettledIsFinal
<1>1. ASSUME RepoInv, [ServerNext]_serverVars
      PROVE  [/\ attempts \subseteq attempts'
              /\ \A e \in EpisodeId :
                   episodes[e].state \in ExecutionStatus =>
                     episodes'[e] = episodes[e]]_serverVars
  <2> DEFINE Kept == /\ attempts \subseteq attempts'
                     /\ \A e \in EpisodeId :
                          episodes[e].state \in ExecutionStatus =>
                            episodes'[e] = episodes[e]
  <2> SUFFICES ASSUME ServerNext PROVE Kept
    BY <1>1
  <2>1. ASSUME NEW s \in Submission, Submit(s) PROVE Kept
    <3>1. attempts' = attempts
      BY <2>1 DEF Submit
    <3>2. ASSUME NEW e \in EpisodeId, episodes[e].state \in ExecutionStatus
          PROVE  episodes'[e] = episodes[e]
      BY <1>1, <2>1, <3>2, SubmitRows DEF RepoInv
    <3> QED
      BY <3>1, <3>2
  <2>2. ASSUME NEW e \in EpisodeId, NEW w \in WorkerId, Dispatch(e, w)
        PROVE  Kept
    <3>1. attempts' = attempts /\ episodes[e].state = "queued"
      BY <2>2 DEF Dispatch
    <3>2. \A f \in EpisodeId \ {e} : episodes'[f] = episodes[f]
      BY <1>1, <2>2, DispatchRows DEF RepoInv
    <3> QED
      BY <3>1, <3>2
  <2>3. ASSUME NEW d \in dispatches, NEW res \in Result,
               AcceptResult([lease |-> d.lease, result |-> res])
        PROVE  Kept
    <3> DEFINE rep == [lease |-> d.lease, result |-> res]
    <3>1. /\ res.episode_id \in EpisodeId
          /\ episodes[res.episode_id].state \in HeldStates
          /\ attempts \subseteq attempts'
          /\ RetryEpisode(rep) \/ SettleEpisode(rep)
      BY <1>1, <2>3, AcceptFacts
    <3>2. \A f \in EpisodeId \ {res.episode_id} : episodes'[f] = episodes[f]
      <4>1. rep.result.episode_id = res.episode_id
        OBVIOUS
      <4> QED
        BY <1>1, <3>1, <4>1, RetryRows, SettleRows DEF RepoInv
    <3> QED
      BY <3>1, <3>2
  <2>4. ASSUME NEW o \in Owner, NEW r \in RunId, CancelRun(o, r) PROVE Kept
    <3>1. attempts' = attempts
      BY <2>4 DEF CancelRun
    <3>2. ASSUME NEW e \in EpisodeId, episodes[e].state \in ExecutionStatus
          PROVE  episodes'[e] = episodes[e]
      BY <1>1, <2>4, <3>2, CancelRows DEF RepoInv
    <3> QED
      BY <3>1, <3>2
  <2>5. CASE Tick
    BY <2>5 DEF Tick
  <2> QED
    BY <2>1, <2>2, <2>3, <2>4, <2>5 DEF ServerNext
<1> QED
  BY <1>1, RepositoryInvariant, PTL DEF ServerSpec, SettledIsFinal

-----------------------------------------------------------------------------
(***************************************************************************)
(* Leases.  A dispatch was made at deadline_at_ms - remaining_timeout_ms.  *)
(***************************************************************************)

\* What a dispatch once returned says about the row it came from.
DispatchOK(d) ==
  LET row == episodes[d.episode_id] IN
  /\ row.state # "absent"
  /\ d.deadline_at_ms = row.deadline_at_ms
  /\ d.lease.episode_id = d.episode_id
  /\ d.lease.expires_at_ms <= d.deadline_at_ms
  /\ d.lease.id <= nonce[d.episode_id]
  /\ d.attempt_id <= row.attempt_id
  /\ row.state = "queued" => d.attempt_id < row.attempt_id
  /\ row.state \in HeldStates /\ d.attempt_id = row.attempt_id =>
       row.lease = d.lease
  /\ d.deadline_at_ms - d.remaining_timeout_ms <= now
  /\ d.attempt_id < row.attempt_id =>
       d.deadline_at_ms - d.remaining_timeout_ms < retryDelays[d.episode_id]

LeaseInv ==
  /\ RepoInv
  /\ \A d \in dispatches : DispatchOK(d)
  /\ OneLeasePerAttempt
  /\ RetryGrantsNoTime

\* Nothing has been dispatched initially.
LEMMA LeaseInit == ServerInit => LeaseInv
<1> SUFFICES ASSUME ServerInit PROVE LeaseInv
  OBVIOUS
<1>1. RepoInv
  BY RepoInit
<1>2. dispatches = {}
  BY DEF ServerInit
<1> QED
  BY <1>1, <1>2 DEF LeaseInv, OneLeasePerAttempt, RetryGrantsNoTime

\* A step that issues no lease keeps LeaseInv if it keeps what DispatchOK says.
LEMMA LeaseKept ==
  ASSUME LeaseInv, RepoInv', dispatches' = dispatches,
         \A d \in dispatches : DispatchOK(d)'
  PROVE  LeaseInv'
  BY DEF LeaseInv, OneLeasePerAttempt, RetryGrantsNoTime

\* submit leaves every dispatched episode as it is.
LEMMA LeaseSubmit ==
  ASSUME LeaseInv, NEW s \in Submission, Submit(s)
  PROVE  LeaseInv'
<1>1. /\ RepoInv /\ TypeOK /\ RepoInv'
      /\ UNCHANGED <<now, attempts, retryDelays, notifications, nonce,
                     dispatches>>
  BY SubmitInv DEF LeaseInv, RepoInv, Submit
<1>2. ASSUME NEW d \in dispatches PROVE DispatchOK(d)'
  <2>1. DispatchOK(d) /\ d.episode_id \in EpisodeId
    BY <1>1 DEF LeaseInv, TypeOK, Dispatches
  <2>2. episodes'[d.episode_id] = episodes[d.episode_id]
    BY <1>1, <2>1, SubmitRows DEF DispatchOK
  <2> QED
    BY <1>1, <2>1, <2>2 DEF DispatchOK
<1> QED
  BY <1>1, <1>2, LeaseKept

\* cancel_run keeps attempt and deadline, and queues nothing.
LEMMA LeaseCancel ==
  ASSUME LeaseInv, NEW o \in Owner, NEW r \in RunId, CancelRun(o, r)
  PROVE  LeaseInv'
<1>1. /\ RepoInv /\ TypeOK /\ RepoInv'
      /\ UNCHANGED <<now, runs, batches, attempts, retryDelays, notifications,
                     nonce, dispatches>>
  BY CancelInv DEF LeaseInv, RepoInv, CancelRun
<1>2. ASSUME NEW d \in dispatches PROVE DispatchOK(d)'
  <2>1. DispatchOK(d) /\ d.episode_id \in EpisodeId
    BY <1>1 DEF LeaseInv, TypeOK, Dispatches
  <2>2. LET old == episodes[d.episode_id]
            row == episodes'[d.episode_id] IN
        /\ row.attempt_id = old.attempt_id
        /\ row.deadline_at_ms = old.deadline_at_ms
        /\ row.lease = old.lease
        /\ \/ row.state = old.state
           \/ row.state = "cancelled"
           \/ old.state = "dispatched" /\ row.state = "cancel_requested"
    BY <1>1, <2>1, CancelColumns
  <2> QED
    BY <1>1, <2>1, <2>2 DEF DispatchOK
<1> QED
  BY <1>1, <1>2, LeaseKept

\* accept_result queues an episode again only under a new attempt.
LEMMA LeaseAccept ==
  ASSUME LeaseInv, NEW d0 \in dispatches, NEW res \in Result,
         AcceptResult([lease |-> d0.lease, result |-> res])
  PROVE  LeaseInv'
<1> DEFINE rep == [lease |-> d0.lease, result |-> res]
           e == res.episode_id
<1>1. /\ RepoInv /\ TypeOK /\ RepoInv' /\ RowOK(e)
      /\ e \in EpisodeId
      /\ res \in Results
      /\ episodes[e].state \in HeldStates
      /\ RetryEpisode(rep) \/ SettleEpisode(rep)
      /\ UNCHANGED <<now, nonce, dispatches>>
  BY AcceptFacts, AcceptInv DEF LeaseInv, RepoInv
<1>2. rep.result.episode_id = e /\ rep.result = res
  OBVIOUS
<1>3. \A f \in EpisodeId \ {e} : /\ episodes'[f] = episodes[f]
                                 /\ retryDelays'[f] = retryDelays[f]
  <2>1. CASE RetryEpisode(rep)
    <3>1. \A f \in EpisodeId \ {e} : episodes'[f] = episodes[f]
      BY <1>1, <1>2, <2>1, RetryRows
    <3>2. retryDelays' = [retryDelays EXCEPT ![e] = now + Backoff(e)]
      BY <1>2, <2>1 DEF RetryEpisode
    <3> QED
      BY <1>1, <3>1, <3>2 DEF TypeOK
  <2>2. CASE SettleEpisode(rep)
    <3>1. \A f \in EpisodeId \ {e} : episodes'[f] = episodes[f]
      BY <1>1, <1>2, <2>2, SettleRows
    <3> QED
      BY <2>2, <3>1 DEF SettleEpisode
  <2> QED
    BY <1>1, <2>1, <2>2
<1>4. ASSUME NEW d \in dispatches PROVE DispatchOK(d)'
  <2>1. DispatchOK(d) /\ d \in Dispatches
    BY <1>1 DEF LeaseInv, TypeOK
  <2>2. CASE d.episode_id # e
    <3>1. /\ episodes'[d.episode_id] = episodes[d.episode_id]
          /\ retryDelays'[d.episode_id] = retryDelays[d.episode_id]
      BY <1>3, <2>1, <2>2 DEF Dispatches
    <3> QED
      BY <1>1, <2>1, <3>1 DEF DispatchOK
  <2>3. CASE d.episode_id = e /\ RetryEpisode(rep)
    <3>1. /\ episodes'[e].state = "queued"
          /\ episodes'[e].attempt_id = episodes[e].attempt_id + 1
          /\ episodes'[e].deadline_at_ms = episodes[e].deadline_at_ms
      <4>1. episodes'[e] = [run_id |-> episodes[e].run_id,
                            request |-> episodes[e].request,
                            attempt_id |-> episodes[e].attempt_id + 1,
                            deadline_at_ms |-> episodes[e].deadline_at_ms,
                            state |-> "queued", lease |-> None,
                            worker_id |-> None, result |-> None]
        BY <1>1, <1>2, <2>3, RetryRows
      <4> QED
        BY <4>1
    <3>2. Backoff(e) \in Nat \ {0}
      BY <1>1, BackoffType
    <3>3. retryDelays'[e] = now + Backoff(e)
      BY <1>1, <1>2, <2>3 DEF RetryEpisode, TypeOK
    <3>4. now \in Nat /\ episodes[e].attempt_id \in Nat
      BY <1>1 DEF TypeOK, EpisodeRows
    <3> QED
      BY <1>1, <2>1, <2>3, <3>1, <3>2, <3>3, <3>4 DEF DispatchOK, Dispatches
  <2>4. CASE d.episode_id = e /\ SettleEpisode(rep)
    <3>1. /\ episodes'[e].state = res.execution_status
          /\ episodes'[e].attempt_id = episodes[e].attempt_id
          /\ episodes'[e].deadline_at_ms = episodes[e].deadline_at_ms
      <4>1. episodes'[e] = [run_id |-> episodes[e].run_id,
                            request |-> episodes[e].request,
                            attempt_id |-> episodes[e].attempt_id,
                            deadline_at_ms |-> episodes[e].deadline_at_ms,
                            state |-> res.execution_status,
                            lease |-> episodes[e].lease,
                            worker_id |-> episodes[e].worker_id,
                            result |-> res]
        BY <1>1, <1>2, <2>4, SettleRows
      <4> QED
        BY <4>1
    <3>2. retryDelays' = retryDelays
      BY <2>4 DEF SettleEpisode
    <3> QED
      BY <1>1, <2>1, <2>4, <3>1, <3>2 DEF DispatchOK, Results
  <2> QED
    BY <1>1, <2>2, <2>3, <2>4
<1> QED
  BY <1>1, <1>4, LeaseKept

\* dispatch issues a lease for an attempt that has none.
LEMMA LeaseDispatch ==
  ASSUME LeaseInv, NEW e \in EpisodeId, NEW w \in WorkerId, Dispatch(e, w)
  PROVE  LeaseInv'
<1>0. PICK new : new = DispatchRequest(e, w)
  OBVIOUS
<1>1. /\ RepoInv /\ TypeOK /\ RepoInv'
      /\ UNCHANGED <<now, retryDelays>>
      /\ dispatches' = dispatches \cup {new}
      /\ nonce' = [nonce EXCEPT ![e] = @ + 1]
      /\ episodes[e].state = "queued"
      /\ retryDelays[e] <= now
      /\ now < episodes[e].deadline_at_ms
  BY <1>0, DispatchInv DEF LeaseInv, RepoInv, Dispatch
<1>2. /\ new \in Dispatches
      /\ new.episode_id = e
      /\ new.attempt_id = episodes[e].attempt_id
      /\ new.deadline_at_ms = episodes[e].deadline_at_ms
      /\ new.lease = IssueLease(e, w)
      /\ new.remaining_timeout_ms = episodes[e].deadline_at_ms - now
  BY <1>0, <1>1, DispatchTypes DEF DispatchRequest
<1>3. /\ now \in Nat /\ nonce[e] \in Nat /\ retryDelays[e] \in Nat
      /\ episodes[e].deadline_at_ms \in Nat /\ episodes[e].attempt_id \in Nat
  BY <1>1 DEF TypeOK, EpisodeRows
<1>4. /\ new.lease.episode_id = e
      /\ new.lease.id = nonce[e] + 1
      /\ new.lease.expires_at_ms <= episodes[e].deadline_at_ms
  BY <1>2, <1>3, ConstantsAssumption DEF IssueLease
<1>5. /\ \A f \in EpisodeId \ {e} : episodes'[f] = episodes[f]
      /\ episodes'[e].state = "dispatched"
      /\ episodes'[e].attempt_id = episodes[e].attempt_id
      /\ episodes'[e].deadline_at_ms = episodes[e].deadline_at_ms
      /\ episodes'[e].lease = IssueLease(e, w)
  <2>1. /\ \A f \in EpisodeId \ {e} : episodes'[f] = episodes[f]
        /\ episodes'[e] = [run_id |-> episodes[e].run_id,
                           request |-> episodes[e].request,
                           attempt_id |-> episodes[e].attempt_id,
                           deadline_at_ms |-> episodes[e].deadline_at_ms,
                           state |-> "dispatched",
                           lease |-> IssueLease(e, w),
                           worker_id |-> w,
                           result |-> episodes[e].result]
    BY <1>1, DispatchRows
  <2> QED
    BY <2>1
<1>6. /\ nonce'[e] = nonce[e] + 1
      /\ \A f \in EpisodeId \ {e} : nonce'[f] = nonce[f]
  BY <1>1 DEF TypeOK
<1>7. DispatchOK(new)'
  BY <1>1, <1>2, <1>3, <1>4, <1>5, <1>6 DEF DispatchOK
<1>8. ASSUME NEW d \in dispatches
      PROVE  /\ DispatchOK(d)'
             /\ d \in Dispatches
             /\ d.episode_id = e =>
                  /\ d.attempt_id < new.attempt_id
                  /\ d.deadline_at_ms = new.deadline_at_ms
                  /\ new.remaining_timeout_ms < d.remaining_timeout_ms
  <2>1. DispatchOK(d) /\ d \in Dispatches
    BY <1>1 DEF LeaseInv, TypeOK
  <2>2. CASE d.episode_id # e
    BY <1>1, <1>5, <1>6, <2>1, <2>2 DEF DispatchOK, Dispatches
  <2>3. CASE d.episode_id = e
    <3>1. /\ d.attempt_id < episodes[e].attempt_id
          /\ d.deadline_at_ms = episodes[e].deadline_at_ms
          /\ d.deadline_at_ms - d.remaining_timeout_ms < retryDelays[e]
      BY <1>1, <2>1, <2>3 DEF DispatchOK
    <3>2. d.lease.id \in Nat /\ d.remaining_timeout_ms \in Nat
      BY <2>1 DEF Dispatches, Leases
    <3>3. DispatchOK(d)'
      BY <1>1, <1>3, <1>5, <1>6, <2>1, <2>3, <3>1, <3>2 DEF DispatchOK, Dispatches
    <3> QED
      BY <1>1, <1>2, <1>3, <2>1, <3>1, <3>2, <3>3
  <2> QED
    BY <2>2, <2>3
<1>9. OneLeasePerAttempt'
  <2>1. \A c, d \in dispatches :
          c.episode_id = d.episode_id /\ c.attempt_id = d.attempt_id => c = d
    BY DEF LeaseInv, OneLeasePerAttempt
  <2>2. \A d \in dispatches : d.episode_id = e => d.attempt_id # new.attempt_id
    BY <1>2, <1>3, <1>8 DEF Dispatches
  <2> QED
    BY <1>1, <1>2, <2>1, <2>2 DEF OneLeasePerAttempt
<1>10. RetryGrantsNoTime'
  <2> SUFFICES ASSUME NEW c \in dispatches', NEW d \in dispatches',
                      c.episode_id = d.episode_id, c.attempt_id < d.attempt_id
               PROVE  /\ d.remaining_timeout_ms < c.remaining_timeout_ms
                      /\ d.lease.expires_at_ms <= c.deadline_at_ms
    BY DEF RetryGrantsNoTime
  <2>1. CASE c \in dispatches /\ d \in dispatches
    BY <2>1 DEF LeaseInv, RetryGrantsNoTime
  <2>2. CASE c \in dispatches /\ d = new
    BY <2>2, <1>2, <1>4, <1>8
  <2>3. CASE c = new
    <3>1. d # new => d.attempt_id < new.attempt_id
      BY <2>3, <1>1, <1>2, <1>8
    <3> QED
      BY <2>3, <3>1, <1>1, <1>2, <1>3, <1>8 DEF Dispatches
  <2> QED
    BY <1>1, <2>1, <2>2, <2>3
<1>11. \A d \in dispatches' : DispatchOK(d)'
  BY <1>1, <1>7, <1>8
<1> QED
  BY <1>1, <1>9, <1>10, <1>11 DEF LeaseInv

\* Every step of the repository preserves the lease invariant.
LEMMA LeaseStep == LeaseInv /\ [ServerNext]_serverVars => LeaseInv'
<1> SUFFICES ASSUME LeaseInv, [ServerNext]_serverVars PROVE LeaseInv'
  OBVIOUS
<1>1. RepoInv' /\ TypeOK
  BY RepoStep DEF LeaseInv, RepoInv
<1>2. CASE Tick \/ UNCHANGED serverVars
  <2>1. /\ now' = now \/ now' = now + 1
        /\ now \in Nat
        /\ UNCHANGED <<episodes, retryDelays, nonce, dispatches>>
    BY <1>1, <1>2 DEF Tick, serverVars, TypeOK
  <2>2. ASSUME NEW d \in dispatches PROVE DispatchOK(d)'
    <3>1. DispatchOK(d) /\ d \in Dispatches
      BY <1>1 DEF LeaseInv, TypeOK
    <3> QED
      BY <2>1, <3>1 DEF DispatchOK, Dispatches
  <2> QED
    BY <1>1, <2>1, <2>2, LeaseKept
<1> QED
  BY <1>2, LeaseSubmit, LeaseDispatch, LeaseAccept, LeaseCancel DEF ServerNext

\* The inductive invariant behind the two theorems below.
THEOREM LeaseInvariant == ServerSpec => []LeaseInv
  BY LeaseInit, LeaseStep, PTL DEF ServerSpec

\* No schedule of submissions, dispatches, reports and cancellations makes
\* dispatch issue a second lease for one attempt of an episode.
THEOREM OneLeasePerAttemptHolds == ServerSpec => []OneLeasePerAttempt
<1>1. LeaseInv => OneLeasePerAttempt
  BY DEF LeaseInv
<1> QED
  BY <1>1, LeaseInvariant, PTL

\* A retry gets strictly less time than the attempt it replaces and no lease
\* beyond the deadline fixed at submission.
THEOREM RetryGrantsNoTimeHolds == ServerSpec => []RetryGrantsNoTime
<1>1. LeaseInv => RetryGrantsNoTime
  BY DEF LeaseInv
<1> QED
  BY <1>1, LeaseInvariant, PTL

-----------------------------------------------------------------------------
(***************************************************************************)
(* The bookkeeping towards clients - the bound of the queue, the receipts  *)
(* of batches, the notifications of final results - and towards workers:   *)
(* the slots and resources that are reserved.                              *)
(***************************************************************************)

\* Every step but a submission.
OtherStep ==
  \/ \E e \in EpisodeId, w \in WorkerId : Dispatch(e, w)
  \/ \E d \in dispatches, res \in Result :
       AcceptResult([lease |-> d.lease, result |-> res])
  \/ \E o \in Owner, r \in RunId : CancelRun(o, r)
  \/ Tick
  \/ UNCHANGED serverVars

\* What such a step leaves alone: it makes no row, changes no row's identity,
\* reactivates no settled episode and touches neither runs nor receipts.
LEMMA OtherRows ==
  ASSUME RepoInv, OtherStep
  PROVE  /\ runs' = runs
         /\ batches' = batches
         /\ \A f \in EpisodeId :
              /\ episodes'[f].request = episodes[f].request
              /\ episodes'[f].run_id = episodes[f].run_id
              /\ episodes'[f].state \in ActiveStates =>
                   episodes[f].state \in ActiveStates
<1> DEFINE Kept == /\ runs' = runs
                   /\ batches' = batches
                   /\ \A f \in EpisodeId :
                        /\ episodes'[f].request = episodes[f].request
                        /\ episodes'[f].run_id = episodes[f].run_id
                        /\ episodes'[f].state \in ActiveStates =>
                             episodes[f].state \in ActiveStates
<1>1. TypeOK
  BY DEF RepoInv
<1>2. ASSUME NEW e \in EpisodeId, NEW w \in WorkerId, Dispatch(e, w)
      PROVE  Kept
  <2>1. /\ \A f \in EpisodeId \ {e} : episodes'[f] = episodes[f]
        /\ episodes'[e] = [run_id |-> episodes[e].run_id,
                           request |-> episodes[e].request,
                           attempt_id |-> episodes[e].attempt_id,
                           deadline_at_ms |-> episodes[e].deadline_at_ms,
                           state |-> "dispatched",
                           lease |-> IssueLease(e, w),
                           worker_id |-> w,
                           result |-> episodes[e].result]
    BY <1>1, <1>2, DispatchRows
  <2>2. episodes[e].state = "queued" /\ UNCHANGED <<runs, batches>>
    BY <1>2 DEF Dispatch
  <2> QED
    BY <2>1, <2>2
<1>3. ASSUME NEW d \in dispatches, NEW res \in Result,
             AcceptResult([lease |-> d.lease, result |-> res])
      PROVE  Kept
  <2> DEFINE rep == [lease |-> d.lease, result |-> res]
             e == res.episode_id
  <2>1. /\ e \in EpisodeId
        /\ res \in Results
        /\ episodes[e].state \in HeldStates
        /\ RetryEpisode(rep) \/ SettleEpisode(rep)
        /\ UNCHANGED <<runs, batches>>
    BY <1>3, AcceptFacts
  <2>2. rep.result.episode_id = e /\ rep.result = res
    OBVIOUS
  <2>3. CASE RetryEpisode(rep)
    <3>1. /\ \A f \in EpisodeId \ {e} : episodes'[f] = episodes[f]
          /\ episodes'[e] = [run_id |-> episodes[e].run_id,
                             request |-> episodes[e].request,
                             attempt_id |-> episodes[e].attempt_id + 1,
                             deadline_at_ms |-> episodes[e].deadline_at_ms,
                             state |-> "queued", lease |-> None,
                             worker_id |-> None, result |-> None]
      BY <1>1, <2>1, <2>2, <2>3, RetryRows
    <3> QED
      BY <2>1, <3>1
  <2>4. CASE SettleEpisode(rep)
    <3>1. /\ \A f \in EpisodeId \ {e} : episodes'[f] = episodes[f]
          /\ episodes'[e] = [run_id |-> episodes[e].run_id,
                             request |-> episodes[e].request,
                             attempt_id |-> episodes[e].attempt_id,
                             deadline_at_ms |-> episodes[e].deadline_at_ms,
                             state |-> res.execution_status,
                             lease |-> episodes[e].lease,
                             worker_id |-> episodes[e].worker_id,
                             result |-> res]
      BY <1>1, <2>1, <2>2, <2>4, SettleRows
    <3> QED
      BY <2>1, <3>1
  <2> QED
    BY <2>1, <2>3, <2>4
<1>4. ASSUME NEW o \in Owner, NEW r \in RunId, CancelRun(o, r)
      PROVE  Kept
  <2>1. UNCHANGED <<runs, batches>>
    BY <1>4 DEF CancelRun, CancelledRow
  <2>2. ASSUME NEW f \in EpisodeId
        PROVE  /\ episodes'[f].request = episodes[f].request
               /\ episodes'[f].run_id = episodes[f].run_id
               /\ episodes'[f].state \in ActiveStates =>
                    episodes[f].state \in ActiveStates
    BY <1>1, <1>4, CancelColumns
  <2> QED
    BY <2>1, <2>2
<1>5. CASE Tick \/ UNCHANGED serverVars
  BY <1>5 DEF Tick, serverVars
<1> QED
  BY <1>2, <1>3, <1>4, <1>5 DEF OtherStep

\* A step is a submission or one of the other steps.
LEMMA StepCases ==
  [ServerNext]_serverVars =>
    OtherStep \/ \E s \in Submission : Submit(s)
BY DEF ServerNext, OtherStep

-----------------------------------------------------------------------------
(* The bound of the queue *)

QueueInv == RepoInv /\ CapacityRespected

\* The rows a submission adds are no more than its new members.
LEMMA SubmitCount ==
  ASSUME RepoInv, NEW s \in Submission, Submit(s), NewMembers(s) # {}
  PROVE  Cardinality(ActiveEpisodes') <=
           Cardinality(ActiveEpisodes) + Cardinality(NewMembers(s))
<1> DEFINE new == {m.episode_id : m \in NewMembers(s)}
           A == ActiveEpisodes
           B == ActiveEpisodes'
<1>1. IsFiniteSet(A)
  BY FS_Subset, FiniteAssumption DEF ActiveEpisodes
<1>2. IsFiniteSet(NewMembers(s))
  BY FS_Subset, SubmissionAssumption DEF NewMembers
<1>3. IsFiniteSet(new) /\ Cardinality(new) <= Cardinality(NewMembers(s))
  <2> DEFINE f == [m \in NewMembers(s) |-> m.episode_id]
  <2>1. f \in Surjection(NewMembers(s), new)
    BY DEF Surjection
  <2> QED
    BY <1>2, <2>1, FS_Surjection
<1>4. B \subseteq A \cup new
  <2> SUFFICES ASSUME NEW e \in EpisodeId, episodes'[e].state \in ActiveStates,
                      e \notin new
               PROVE  episodes[e].state \in ActiveStates
    BY DEF ActiveEpisodes
  <2>1. episodes'[e] = episodes[e]
    BY DEF Submit
  <2> QED
    BY <2>1
<1>5. /\ IsFiniteSet(A \cup new)
      /\ Cardinality(A \cup new) <= Cardinality(A) + Cardinality(new)
  <2>1. /\ IsFiniteSet(A \cup new)
        /\ Cardinality(A \cup new) =
             Cardinality(A) + Cardinality(new) - Cardinality(A \cap new)
    BY <1>1, <1>3, FS_Union
  <2>2. Cardinality(A \cap new) \in Nat
    BY <1>1, FS_Intersection, FS_CardinalityType
  <2>3. Cardinality(A) \in Nat /\ Cardinality(new) \in Nat
    BY <1>1, <1>3, FS_CardinalityType
  <2> HIDE DEF A, new
  <2> QED
    BY <2>1, <2>2, <2>3
<1>6. Cardinality(B) <= Cardinality(A \cup new)
  BY <1>4, <1>5, FS_Subset
<1>7. /\ Cardinality(A) \in Nat /\ Cardinality(new) \in Nat
      /\ Cardinality(NewMembers(s)) \in Nat
      /\ Cardinality(A \cup new) \in Nat
      /\ Cardinality(B) \in Nat
  BY <1>1, <1>2, <1>3, <1>4, <1>5, FS_CardinalityType, FS_Subset
<1> HIDE DEF A, B, new
<1> QED
  BY <1>3, <1>5, <1>6, <1>7 DEF A, B

\* Every step keeps the number of unfinished episodes within the capacity.
LEMMA QueueStep == QueueInv /\ [ServerNext]_serverVars => QueueInv'
<1> SUFFICES ASSUME QueueInv, [ServerNext]_serverVars PROVE QueueInv'
  OBVIOUS
<1>1. RepoInv /\ RepoInv'
  BY RepoStep DEF QueueInv
<1>2. IsFiniteSet(ActiveEpisodes) /\ Cardinality(ActiveEpisodes) \in Nat
  BY FS_Subset, FS_CardinalityType, FiniteAssumption DEF ActiveEpisodes
<1>3. IsFiniteSet(ActiveEpisodes') /\ Cardinality(ActiveEpisodes') \in Nat
  BY FS_Subset, FS_CardinalityType, FiniteAssumption DEF ActiveEpisodes
<1>4. CASE OtherStep
  <2>1. ActiveEpisodes' \subseteq ActiveEpisodes
    BY <1>1, <1>4, OtherRows DEF ActiveEpisodes
  <2>2. Cardinality(ActiveEpisodes') <= Cardinality(ActiveEpisodes)
    BY <1>2, <2>1, FS_Subset
  <2> QED
    BY <1>1, <1>2, <1>3, <2>2, ConstantsAssumption
       DEF QueueInv, CapacityRespected
<1>5. ASSUME NEW s \in Submission, Submit(s) PROVE QueueInv'
  <2>1. CASE NewMembers(s) = {}
    <3>1. \A e \in EpisodeId : episodes'[e] = episodes[e]
      BY <1>5, <2>1 DEF Submit
    <3>2. ActiveEpisodes' = ActiveEpisodes
      BY <3>1 DEF ActiveEpisodes
    <3> QED
      BY <1>1, <3>2 DEF QueueInv, CapacityRespected
  <2>2. CASE NewMembers(s) # {}
    <3>1. Cardinality(ActiveEpisodes) + Cardinality(NewMembers(s)) <= Capacity
      BY <1>5, <2>2 DEF Submit, HasRoom
    <3>2. Cardinality(NewMembers(s)) \in Nat
      BY FS_Subset, FS_CardinalityType, SubmissionAssumption DEF NewMembers
    <3>3. Cardinality(ActiveEpisodes') <=
            Cardinality(ActiveEpisodes) + Cardinality(NewMembers(s))
      BY <1>1, <1>5, <2>2, SubmitCount
    <3> QED
      BY <1>1, <1>2, <1>3, <3>1, <3>2, <3>3, ConstantsAssumption
         DEF QueueInv, CapacityRespected
  <2> QED
    BY <2>1, <2>2
<1> QED
  BY <1>4, <1>5, StepCases

\* The queue never holds more unfinished episodes than its capacity, for any
\* number of clients, overlapping batches, retries and cancellations.
THEOREM CapacityRespectedHolds == ServerSpec => []CapacityRespected
<1>1. ServerInit => QueueInv
  <2> SUFFICES ASSUME ServerInit PROVE QueueInv
    OBVIOUS
  <2>1. ActiveEpisodes = {}
    BY DEF ServerInit, ActiveEpisodes, AbsentRow
  <2>2. Cardinality(ActiveEpisodes) = 0
    BY <2>1, FS_EmptySet
  <2> QED
    BY <2>2, RepoInit, ConstantsAssumption DEF QueueInv, CapacityRespected
<1>2. QueueInv => CapacityRespected
  BY DEF QueueInv
<1> QED
  BY <1>1, <1>2, QueueStep, PTL DEF ServerSpec

-----------------------------------------------------------------------------
(* Receipts *)

ReceiptInv == RepoInv /\ ReceiptCoversBatch

\* After a submission each of its members has the row the submission asks for.
LEMMA MembersStored ==
  ASSUME RepoInv, NEW s \in Submission, Submit(s), NEW m \in s.episodes
  PROVE  /\ episodes'[m.episode_id].request = m
         /\ episodes'[m.episode_id].run_id = s.run_id
<1>1. m \in EpisodeRequests /\ m.episode_id \in EpisodeId
  BY SubmissionAssumption DEF Submissions, EpisodeRequests
<1>2. CASE m \in NewMembers(s)
  <2> DEFINE c == CHOOSE x \in NewMembers(s) : x.episode_id = m.episode_id
  <2>1. c \in NewMembers(s) /\ c.episode_id = m.episode_id
    BY <1>2
  <2>2. c = m
    BY <2>1 DEF Submit, ValidBatch, NewMembers
  <2>3. episodes'[m.episode_id] = ResolvedRow(s, c)
    BY <1>1, <1>2 DEF Submit
  <2>4. episodes'[m.episode_id] = ResolvedRow(s, m)
    BY <2>2, <2>3
  <2> QED
    BY <2>4 DEF ResolvedRow
<1>3. CASE m \notin NewMembers(s)
  <2>1. PICK e \in Existing(m) : TRUE
    BY <1>3 DEF NewMembers
  <2>2. /\ e \in EpisodeId
        /\ episodes[e].state # "absent"
        /\ episodes[e].run_id = s.run_id
        /\ episodes[e].request = m
    BY <2>1 DEF Submit, NoConflict, Existing
  <2>3. e = m.episode_id
    BY <2>2 DEF RepoInv, RowOK
  <2>4. episodes'[e] = episodes[e]
    BY <2>2, SubmitRows DEF RepoInv
  <2> QED
    BY <2>2, <2>3, <2>4
<1> QED
  BY <1>2, <1>3

\* Every step keeps what a receipt promises.
LEMMA ReceiptStep == ReceiptInv /\ [ServerNext]_serverVars => ReceiptInv'
<1> SUFFICES ASSUME ReceiptInv, [ServerNext]_serverVars PROVE ReceiptInv'
  OBVIOUS
<1>1. RepoInv /\ RepoInv' /\ TypeOK
  BY RepoStep DEF ReceiptInv, RepoInv
<1>2. ASSUME NEW b \in batches, NEW m \in b.episodes
      PROVE  /\ m \in EpisodeRequests
             /\ m.episode_id \in EpisodeId
             /\ episodes[m.episode_id].state # "absent"
  <2>1. m \in EpisodeRequests /\ m.episode_id \in EpisodeId
    BY <1>1, SubmissionAssumption DEF TypeOK, Submissions, EpisodeRequests
  <2>2. episodes[m.episode_id].request = m
    BY DEF ReceiptInv, ReceiptCoversBatch
  <2> QED
    BY <1>1, <2>1, <2>2, NoneAssumption DEF RepoInv, RowOK, AbsentRow
<1>3. CASE OtherStep
  <2>1. /\ runs' = runs
        /\ batches' = batches
        /\ \A f \in EpisodeId :
             /\ episodes'[f].request = episodes[f].request
             /\ episodes'[f].run_id = episodes[f].run_id
    BY <1>1, <1>3, OtherRows
  <2> QED
    BY <1>1, <1>2, <2>1 DEF ReceiptInv, ReceiptCoversBatch
<1>4. ASSUME NEW s \in Submission, Submit(s) PROVE ReceiptInv'
  <2>1. /\ runs' = [runs EXCEPT ![s.run_id] =
                      [owner |-> s.owner, spec |-> s.run_spec]]
        /\ batches' = batches \cup {s}
        /\ runs[s.run_id] # None => /\ runs[s.run_id].owner = s.owner
                                    /\ runs[s.run_id].spec = s.run_spec
        /\ s.run_id \in RunId
    BY <1>4, SubmissionAssumption DEF Submit, ValidBatch, Submissions
  <2>2. runs'[s.run_id] = [owner |-> s.owner, spec |-> s.run_spec]
    BY <1>1, <2>1 DEF TypeOK
  <2>3. ASSUME NEW b \in batches
        PROVE  runs'[b.run_id] = [owner |-> b.owner, spec |-> b.run_spec]
    <3>1. /\ runs[b.run_id] = [owner |-> b.owner, spec |-> b.run_spec]
          /\ [owner |-> b.owner, spec |-> b.run_spec] \in RunRows
          /\ b.run_id \in RunId
      BY <1>1, SubmissionAssumption
         DEF ReceiptInv, ReceiptCoversBatch, TypeOK, Submissions, RunRows
    <3>2. CASE b.run_id = s.run_id
      BY <2>1, <2>2, <3>1, <3>2, NoneAssumption
    <3>3. CASE b.run_id # s.run_id
      BY <1>1, <2>1, <3>1, <3>3 DEF TypeOK
    <3> QED
      BY <3>2, <3>3
  <2>4. ASSUME NEW b \in batches, NEW m \in b.episodes
        PROVE  /\ episodes'[m.episode_id].request = m
               /\ episodes'[m.episode_id].run_id = b.run_id
    <3>1. episodes'[m.episode_id] = episodes[m.episode_id]
      BY <1>1, <1>2, <1>4, SubmitRows
    <3>2. /\ episodes[m.episode_id].request = m
          /\ episodes[m.episode_id].run_id = b.run_id
      BY DEF ReceiptInv, ReceiptCoversBatch
    <3> QED
      BY <3>1, <3>2
  <2>5. \A m \in s.episodes : /\ episodes'[m.episode_id].request = m
                              /\ episodes'[m.episode_id].run_id = s.run_id
    BY <1>1, <1>4, MembersStored
  <2>6. ReceiptCoversBatch'
    BY <2>1, <2>2, <2>3, <2>4, <2>5 DEF ReceiptCoversBatch
  <2> QED
    BY <1>1, <2>6 DEF ReceiptInv
<1> QED
  BY <1>3, <1>4, StepCases

\* A batch that got a receipt stays stored as a whole, under the run, owner
\* and configuration it was submitted with.
THEOREM ReceiptCoversBatchHolds == ServerSpec => []ReceiptCoversBatch
<1>1. ServerInit => ReceiptInv
  BY RepoInit DEF ServerInit, ReceiptInv, ReceiptCoversBatch
<1>2. ReceiptInv => ReceiptCoversBatch
  BY DEF ReceiptInv
<1> QED
  BY <1>1, <1>2, ReceiptStep, PTL DEF ServerSpec

-----------------------------------------------------------------------------
(* Notifications *)

NotifyInv == RepoInv /\ NotifiedExactlyOnce

\* Every step keeps notifications and final results in agreement.
LEMMA NotifyStep == NotifyInv /\ [ServerNext]_serverVars => NotifyInv'
<1> SUFFICES ASSUME NotifyInv, [ServerNext]_serverVars PROVE NotifyInv'
  OBVIOUS
<1>1. RepoInv /\ RepoInv' /\ TypeOK /\ NotifiedExactlyOnce
  BY RepoStep DEF NotifyInv, RepoInv
<1> DEFINE Kept == /\ notifications' = notifications
                   /\ \A f \in EpisodeId : episodes'[f].result = episodes[f].result
<1>2. Kept => NotifyInv'
  BY <1>1 DEF NotifyInv, NotifiedExactlyOnce
<1>3. ASSUME NEW s \in Submission, Submit(s) PROVE Kept
  <2>1. notifications' = notifications
    BY <1>3 DEF Submit
  <2>2. ASSUME NEW f \in EpisodeId PROVE episodes'[f].result = episodes[f].result
    <3>1. CASE episodes'[f] = episodes[f]
      BY <3>1
    <3>2. ASSUME NEW m, episodes[f].state = "absent",
                 episodes'[f] = ResolvedRow(s, m)
          PROVE  episodes'[f].result = episodes[f].result
      BY <1>1, <3>2 DEF RepoInv, RowOK, AbsentRow, ResolvedRow
    <3> QED
      BY <1>1, <1>3, <3>1, <3>2, SubmitRows
  <2> QED
    BY <2>1, <2>2
<1>4. ASSUME NEW e \in EpisodeId, NEW w \in WorkerId, Dispatch(e, w) PROVE Kept
  <2>1. /\ \A f \in EpisodeId \ {e} : episodes'[f] = episodes[f]
        /\ episodes'[e] = [run_id |-> episodes[e].run_id,
                           request |-> episodes[e].request,
                           attempt_id |-> episodes[e].attempt_id,
                           deadline_at_ms |-> episodes[e].deadline_at_ms,
                           state |-> "dispatched",
                           lease |-> IssueLease(e, w),
                           worker_id |-> w,
                           result |-> episodes[e].result]
    BY <1>1, <1>4, DispatchRows
  <2>2. notifications' = notifications
    BY <1>4 DEF Dispatch
  <2> QED
    BY <2>1, <2>2
<1>5. ASSUME NEW o \in Owner, NEW r \in RunId, CancelRun(o, r) PROVE Kept
  <2>1. notifications' = notifications
    BY <1>5 DEF CancelRun
  <2> QED
    BY <1>1, <1>5, <2>1, CancelColumns
<1>6. ASSUME NEW d \in dispatches, NEW res \in Result,
             AcceptResult([lease |-> d.lease, result |-> res])
      PROVE  NotifyInv'
  <2> DEFINE rep == [lease |-> d.lease, result |-> res]
             e == res.episode_id
  <2>1. /\ e \in EpisodeId
        /\ episodes[e].result = None
        /\ RetryEpisode(rep) \/ SettleEpisode(rep)
    BY <1>1, <1>6, AcceptFacts
  <2>2. rep.result.episode_id = e /\ rep.result = res
    OBVIOUS
  <2>3. CASE RetryEpisode(rep)
    <3>1. /\ \A f \in EpisodeId \ {e} : episodes'[f] = episodes[f]
          /\ episodes'[e] = [run_id |-> episodes[e].run_id,
                             request |-> episodes[e].request,
                             attempt_id |-> episodes[e].attempt_id + 1,
                             deadline_at_ms |-> episodes[e].deadline_at_ms,
                             state |-> "queued", lease |-> None,
                             worker_id |-> None, result |-> None]
      BY <1>1, <2>1, <2>2, <2>3, RetryRows
    <3>2. notifications' = notifications
      BY <2>3 DEF RetryEpisode
    <3>3. Kept
      BY <2>1, <3>1, <3>2
    <3> QED
      BY <1>2, <3>3
  <2>4. CASE SettleEpisode(rep)
    <3>1. /\ \A f \in EpisodeId \ {e} : episodes'[f] = episodes[f]
          /\ episodes'[e] = [run_id |-> episodes[e].run_id,
                             request |-> episodes[e].request,
                             attempt_id |-> episodes[e].attempt_id,
                             deadline_at_ms |-> episodes[e].deadline_at_ms,
                             state |-> res.execution_status,
                             lease |-> episodes[e].lease,
                             worker_id |-> episodes[e].worker_id,
                             result |-> res]
      BY <1>1, <2>1, <2>2, <2>4, SettleRows
    <3>2. notifications' = [notifications EXCEPT ![e] = Append(@, res)]
      BY <2>2, <2>4 DEF SettleEpisode
    <3>3. notifications[e] = <<>>
      BY <1>1, <2>1 DEF NotifiedExactlyOnce
    <3>4. /\ notifications'[e] = <<res>>
          /\ \A f \in EpisodeId \ {e} : notifications'[f] = notifications[f]
      BY <1>1, <2>1, <3>2, <3>3 DEF TypeOK
    <3>5. episodes'[e].result = res /\ res # None
      BY <3>1, NoneAssumption
    <3>6. NotifiedExactlyOnce'
      BY <1>1, <3>1, <3>4, <3>5 DEF NotifiedExactlyOnce
    <3> QED
      BY <1>1, <3>6 DEF NotifyInv
  <2> QED
    BY <2>1, <2>3, <2>4
<1>7. CASE Tick \/ UNCHANGED serverVars
  BY <1>2, <1>7 DEF Tick, serverVars
<1> QED
  BY <1>2, <1>3, <1>4, <1>5, <1>6, <1>7 DEF ServerNext

\* The final result of an episode is announced exactly once, and nothing else
\* is, however often workers repeat or contradict their reports.
THEOREM NotifiedExactlyOnceHolds == ServerSpec => []NotifiedExactlyOnce
<1>1. ServerInit => NotifyInv
  BY RepoInit DEF ServerInit, NotifyInv, NotifiedExactlyOnce, AbsentRow
<1>2. NotifyInv => NotifiedExactlyOnce
  BY DEF NotifyInv
<1> QED
  BY <1>1, <1>2, NotifyStep, PTL DEF ServerSpec

-----------------------------------------------------------------------------
(***************************************************************************)
(* Slots and resources of the workers.                                     *)
(***************************************************************************)

SlotsRespected ==
  \A w \in WorkerId : Cardinality(Assigned(w)) <= WorkerCapacity[w]

\* The episodes a worker holds are finitely many, before and after a step.
LEMMA AssignedFinite ==
  ASSUME NEW w \in WorkerId
  PROVE  /\ IsFiniteSet(Assigned(w)) /\ Cardinality(Assigned(w)) \in Nat
         /\ IsFiniteSet(Assigned(w)') /\ Cardinality(Assigned(w)') \in Nat
<1>1. Assigned(w) \subseteq EpisodeId /\ Assigned(w)' \subseteq EpisodeId
  BY DEF Assigned
<1>2. IsFiniteSet(Assigned(w)) /\ IsFiniteSet(Assigned(w)')
  BY <1>1, FS_Subset, FiniteAssumption
<1> QED
  BY <1>2, FS_CardinalityType

\* Only dispatch adds to what a worker holds, one episode at one worker.
LEMMA AssignedStep ==
  ASSUME RepoInv, ServerNext, NEW w \in WorkerId
  PROVE  \/ Assigned(w)' \subseteq Assigned(w)
         \/ \E e \in EpisodeId : /\ Dispatch(e, w)
                                 /\ e \notin Assigned(w)
                                 /\ Assigned(w)' = Assigned(w) \cup {e}
<1> USE DEF RepoInv
<1>1. ASSUME NEW s \in Submission, Submit(s) PROVE Assigned(w)' \subseteq Assigned(w)
  <2> SUFFICES ASSUME NEW f \in Assigned(w)' PROVE f \in Assigned(w)
    OBVIOUS
  <2>1. f \in EpisodeId /\ episodes'[f].worker_id = w /\ episodes'[f].state \in HeldStates
    BY DEF Assigned
  <2>2. episodes'[f] = episodes[f]
    BY <1>1, <2>1, SubmitRows, ResolvedRowShape
  <2> QED
    BY <2>1, <2>2 DEF Assigned
<1>2. ASSUME NEW o \in Owner, NEW r \in RunId, CancelRun(o, r)
      PROVE  Assigned(w)' \subseteq Assigned(w)
  <2> SUFFICES ASSUME NEW f \in Assigned(w)' PROVE f \in Assigned(w)
    OBVIOUS
  <2>1. f \in EpisodeId /\ episodes'[f].worker_id = w /\ episodes'[f].state \in HeldStates
    BY DEF Assigned
  <2>2. LET old == episodes[f]
            row == episodes'[f] IN
        /\ row.worker_id = old.worker_id
        /\ \/ row.state = old.state
           \/ old.state = "queued" /\ row.state = "cancelled"
           \/ old.state = "dispatched" /\ row.state = "cancel_requested"
    BY <1>2, <2>1, CancelColumns
  <2> QED
    BY <2>1, <2>2 DEF Assigned
<1>3. ASSUME NEW d \in dispatches, NEW res \in Result,
             AcceptResult([lease |-> d.lease, result |-> res])
      PROVE  Assigned(w)' \subseteq Assigned(w)
  <2>1. PICK r : r = [lease |-> d.lease, result |-> res]
    OBVIOUS
  <2>2. r.result = res /\ r.result.episode_id = res.episode_id
    BY <2>1
  <2>3. /\ res.episode_id \in EpisodeId
        /\ res.execution_status \in ExecutionStatus
        /\ RetryEpisode(r) \/ SettleEpisode(r)
    BY <1>3, <2>1, AcceptFacts DEF Results
  <2>4. \A f \in EpisodeId \ {res.episode_id} : episodes'[f] = episodes[f]
    BY <2>2, <2>3, RetryRows, SettleRows
  <2>5. episodes'[res.episode_id].state \in ExecutionStatus \cup {"queued"}
    <3>1. CASE RetryEpisode(r)
      <4>1. episodes'[res.episode_id] =
              [run_id |-> episodes[res.episode_id].run_id,
               request |-> episodes[res.episode_id].request,
               attempt_id |-> episodes[res.episode_id].attempt_id + 1,
               deadline_at_ms |-> episodes[res.episode_id].deadline_at_ms,
               state |-> "queued", lease |-> None,
               worker_id |-> None, result |-> None]
        BY <2>2, <2>3, <3>1, RetryRows
      <4> QED
        BY <4>1
    <3>2. CASE SettleEpisode(r)
      <4>1. episodes'[res.episode_id] =
              [run_id |-> episodes[res.episode_id].run_id,
               request |-> episodes[res.episode_id].request,
               attempt_id |-> episodes[res.episode_id].attempt_id,
               deadline_at_ms |-> episodes[res.episode_id].deadline_at_ms,
               state |-> res.execution_status,
               lease |-> episodes[res.episode_id].lease,
               worker_id |-> episodes[res.episode_id].worker_id,
               result |-> res]
        BY <2>2, <2>3, <3>2, SettleRows
      <4> QED
        BY <2>3, <4>1
    <3> QED
      BY <2>3, <3>1, <3>2
  <2> QED
    BY <2>4, <2>5 DEF Assigned
<1>4. ASSUME Tick PROVE Assigned(w)' \subseteq Assigned(w)
  BY <1>4 DEF Tick, Assigned
<1>5. ASSUME NEW e \in EpisodeId, NEW v \in WorkerId, Dispatch(e, v)
      PROVE  /\ v # w => Assigned(w)' \subseteq Assigned(w)
             /\ v = w => /\ e \notin Assigned(w)
                         /\ Assigned(w)' = Assigned(w) \cup {e}
  <2>0. /\ episodes[e].state = "queued"
        /\ \A f \in EpisodeId \ {e} : episodes'[f] = episodes[f]
        /\ episodes'[e] = [run_id |-> episodes[e].run_id,
                           request |-> episodes[e].request,
                           attempt_id |-> episodes[e].attempt_id,
                           deadline_at_ms |-> episodes[e].deadline_at_ms,
                           state |-> "dispatched",
                           lease |-> IssueLease(e, v),
                           worker_id |-> v,
                           result |-> episodes[e].result]
    BY <1>5, DispatchRows DEF Dispatch
  <2>1. /\ episodes[e].state = "queued"
        /\ \A f \in EpisodeId \ {e} : episodes'[f] = episodes[f]
        /\ episodes'[e].state = "dispatched"
        /\ episodes'[e].worker_id = v
    BY <2>0
  <2> QED
    BY <2>1 DEF Assigned
<1> QED
  BY <1>1, <1>2, <1>3, <1>4, <1>5 DEF ServerNext

\* Initially nothing is held.
LEMMA SlotsInit == ServerInit => SlotsRespected
<1> SUFFICES ASSUME ServerInit, NEW w \in WorkerId
             PROVE  Cardinality(Assigned(w)) <= WorkerCapacity[w]
  BY DEF SlotsRespected
<1>1. Assigned(w) = {}
  BY DEF ServerInit, Assigned, AbsentRow
<1>2. Cardinality(Assigned(w)) = 0
  BY <1>1, FS_EmptySet
<1> QED
  BY <1>2, ConstantsAssumption

\* The Server reserves no more slots than a worker has.
LEMMA SlotsStep ==
  RepoInv /\ SlotsRespected /\ [ServerNext]_serverVars => SlotsRespected'
<1> SUFFICES ASSUME RepoInv, SlotsRespected, [ServerNext]_serverVars,
                    NEW w \in WorkerId
             PROVE  Cardinality(Assigned(w)') <= WorkerCapacity[w]
  BY DEF SlotsRespected
<1>1. /\ Cardinality(Assigned(w)) <= WorkerCapacity[w]
      /\ WorkerCapacity[w] \in Nat
      /\ IsFiniteSet(Assigned(w)) /\ Cardinality(Assigned(w)) \in Nat
      /\ IsFiniteSet(Assigned(w)') /\ Cardinality(Assigned(w)') \in Nat
  BY AssignedFinite, ConstantsAssumption DEF SlotsRespected
<1>2. CASE Assigned(w)' \subseteq Assigned(w)
  <2>1. Cardinality(Assigned(w)') <= Cardinality(Assigned(w))
    BY <1>1, <1>2, FS_Subset
  <2> QED
    BY <1>1, <2>1
<1>3. CASE \E e \in EpisodeId : /\ Dispatch(e, w)
                                /\ e \notin Assigned(w)
                                /\ Assigned(w)' = Assigned(w) \cup {e}
  <2>1. PICK e \in EpisodeId : /\ Dispatch(e, w)
                               /\ e \notin Assigned(w)
                               /\ Assigned(w)' = Assigned(w) \cup {e}
    BY <1>3
  <2>2. Cardinality(Assigned(w)') = Cardinality(Assigned(w)) + 1
    BY <1>1, <2>1, FS_AddElement
  <2>3. Cardinality(Assigned(w)) < WorkerCapacity[w]
    BY <2>1 DEF Dispatch, Fits
  <2> QED
    BY <1>1, <2>2, <2>3
<1>4. CASE UNCHANGED serverVars
  <2>1. Assigned(w)' = Assigned(w)
    BY <1>4 DEF serverVars, Assigned
  <2> QED
    BY <1>1, <2>1
<1> QED
  BY <1>2, <1>3, <1>4, AssignedStep

\* The units of finitely many episodes are finitely many.
LEMMA UnitsFinite ==
  ASSUME NEW E \in SUBSET EpisodeId
  PROVE  IsFiniteSet(Units(E)) /\ TotalNeed(E) \in Nat
<1> DEFINE parts == {{e} \X (1 .. ResourceNeed[e]) : e \in E}
           f == [e \in E |-> {e} \X (1 .. ResourceNeed[e])]
<1>1. IsFiniteSet(E)
  BY FS_Subset, FiniteAssumption
<1>2. f \in Surjection(E, parts)
  BY DEF Surjection
<1>3. IsFiniteSet(parts)
  <2> HIDE DEF f, parts
  <2> QED
    BY <1>1, <1>2, FS_Surjection
<1>4. ASSUME NEW T \in parts PROVE IsFiniteSet(T)
  <2>1. PICK e \in E : T = {e} \X (1 .. ResourceNeed[e])
    OBVIOUS
  <2>2. ResourceNeed[e] \in Nat
    BY ConstantsAssumption
  <2>3. IsFiniteSet(1 .. ResourceNeed[e])
    BY <2>2, FS_Interval
  <2>4. IsFiniteSet({e})
    BY FS_Singleton
  <2>5. IsFiniteSet({e} \X (1 .. ResourceNeed[e]))
    BY <2>3, <2>4, FS_Product
  <2> QED
    BY <2>1, <2>5
<1>5. IsFiniteSet(UNION parts)
  <2>1. \A T \in parts : IsFiniteSet(T)
    BY <1>4
  <2> HIDE DEF parts
  <2> QED
    BY <1>3, <2>1, FS_UNION
<1>6. IsFiniteSet(Units(E))
  BY <1>5 DEF Units
<1> QED
  BY <1>6, FS_CardinalityType DEF TotalNeed

\* Fewer episodes need no more.
LEMMA TotalNeedMonotone ==
  ASSUME NEW E \in SUBSET EpisodeId, NEW F \in SUBSET E
  PROVE  TotalNeed(F) <= TotalNeed(E)
<1>1. Units(F) \subseteq Units(E)
  BY DEF Units
<1> QED
  BY <1>1, UnitsFinite, FS_Subset DEF TotalNeed

\* One episode more needs what it needs more: the sum of the code.
LEMMA TotalNeedAdd ==
  ASSUME NEW E \in SUBSET EpisodeId, NEW e \in EpisodeId, e \notin E
  PROVE  TotalNeed(E \cup {e}) = TotalNeed(E) + ResourceNeed[e]
<1> DEFINE own == {e} \X (1 .. ResourceNeed[e])
<1>1. ResourceNeed[e] \in Nat
  BY ConstantsAssumption
<1>2. IsFiniteSet(own) /\ Cardinality(own) = ResourceNeed[e]
  <2>1. /\ IsFiniteSet(1 .. ResourceNeed[e])
        /\ Cardinality(1 .. ResourceNeed[e]) = ResourceNeed[e]
    BY <1>1, FS_Interval
  <2>2. IsFiniteSet({e}) /\ Cardinality({e}) = 1
    BY FS_Singleton
  <2>3. IsFiniteSet(own) /\ Cardinality(own) = 1 * ResourceNeed[e]
    BY <2>1, <2>2, FS_Product
  <2> QED
    BY <1>1, <2>3
<1>3. Units(E \cup {e}) = Units(E) \cup own
  BY DEF Units
<1>4. Units(E) \cap own = {}
  BY DEF Units
<1>5. IsFiniteSet(Units(E)) /\ Cardinality(Units(E)) \in Nat
  BY UnitsFinite DEF TotalNeed
<1>6. Cardinality(Units(E) \cup own)
        = Cardinality(Units(E)) + Cardinality(own) - Cardinality(Units(E) \cap own)
  <2> HIDE DEF own
  <2> QED
    BY <1>2, <1>5, FS_Union
<1>7. Cardinality(Units(E) \cap own) = 0
  BY <1>4, FS_EmptySet
<1>8. TotalNeed(E \cup {e}) = Cardinality(Units(E) \cup own)
  BY <1>3 DEF TotalNeed
<1>9. TotalNeed(E) = Cardinality(Units(E))
  BY DEF TotalNeed
<1> QED
  <2> HIDE DEF own
  <2> QED
    BY <1>1, <1>2, <1>5, <1>6, <1>7, <1>8, <1>9

ResourcesRespected ==
  \A w \in WorkerId : ResourcesUsed(w) <= ResourceCapacity[w]

\* Initially no resource is reserved.
LEMMA ResourcesInit == ServerInit => ResourcesRespected
<1> SUFFICES ASSUME ServerInit, NEW w \in WorkerId
             PROVE  ResourcesUsed(w) <= ResourceCapacity[w]
  BY DEF ResourcesRespected
<1>1. Units(Assigned(w)) = {}
  BY DEF ServerInit, Assigned, AbsentRow, Units
<1>2. ResourcesUsed(w) = 0
  BY <1>1, FS_EmptySet DEF ResourcesUsed, TotalNeed
<1> QED
  BY <1>2, ConstantsAssumption

\* The Server reserves no more resources than a worker has.
LEMMA ResourcesStep ==
  RepoInv /\ ResourcesRespected /\ [ServerNext]_serverVars => ResourcesRespected'
<1> SUFFICES ASSUME RepoInv, ResourcesRespected, [ServerNext]_serverVars,
                    NEW w \in WorkerId
             PROVE  ResourcesUsed(w)' <= ResourceCapacity[w]
  BY DEF ResourcesRespected
<1>1. PICK old, new : old = Assigned(w) /\ new = Assigned(w)'
  OBVIOUS
<1>2. old \in SUBSET EpisodeId /\ new \in SUBSET EpisodeId
  BY <1>1 DEF Assigned
<1>3. ResourcesUsed(w) = TotalNeed(old) /\ ResourcesUsed(w)' = TotalNeed(new)
  BY <1>1 DEF ResourcesUsed, TotalNeed, Units
<1>4. /\ TotalNeed(old) <= ResourceCapacity[w]
      /\ TotalNeed(old) \in Nat /\ TotalNeed(new) \in Nat
      /\ ResourceCapacity[w] \in Nat
  BY <1>2, <1>3, UnitsFinite, ConstantsAssumption DEF ResourcesRespected
<1>5. CASE new \subseteq old
  <2>1. TotalNeed(new) <= TotalNeed(old)
    BY <1>2, <1>5, TotalNeedMonotone
  <2> QED
    BY <1>3, <1>4, <2>1
<1>6. CASE \E e \in EpisodeId : /\ Dispatch(e, w)
                                /\ e \notin old /\ new = old \cup {e}
  <2>1. PICK e \in EpisodeId : /\ Dispatch(e, w)
                               /\ e \notin old /\ new = old \cup {e}
    BY <1>6
  <2>2. TotalNeed(new) = TotalNeed(old) + ResourceNeed[e]
    BY <1>2, <2>1, TotalNeedAdd
  <2>3. TotalNeed(old) + ResourceNeed[e] <= ResourceCapacity[w]
    BY <1>3, <2>1 DEF Dispatch, Fits
  <2> QED
    BY <1>3, <2>2, <2>3
<1>7. CASE UNCHANGED serverVars
  <2>1. new = old
    BY <1>1, <1>7 DEF serverVars, Assigned
  <2> QED
    BY <1>3, <1>4, <2>1
<1> QED
  BY <1>1, <1>5, <1>6, <1>7, AssignedStep

\* The slots and the resources reserved at a worker never exceed what it has,
\* in whatever order episodes are placed, cancelled, retried and settled.
THEOREM WorkerReservationsHolds == ServerSpec => []WorkerReservations
<1>1. ServerInit => SlotsRespected /\ ResourcesRespected
  BY SlotsInit, ResourcesInit
<1>2. RepoInv /\ SlotsRespected /\ ResourcesRespected /\ [ServerNext]_serverVars
        => (SlotsRespected /\ ResourcesRespected)'
  BY SlotsStep, ResourcesStep
<1>3. SlotsRespected /\ ResourcesRespected => WorkerReservations
  BY DEF SlotsRespected, ResourcesRespected, WorkerReservations
<1> QED
  BY <1>1, <1>2, <1>3, RepositoryInvariant, PTL DEF ServerSpec

-----------------------------------------------------------------------------
(***************************************************************************)
(* EpisodeRepository implements EpisodeContract: the initial states map to *)
(* initial states of the contract and every step of the Server to a step   *)
(* of the contract or to a stutter.  The step simulation rests on RepoInv  *)
(* (a row's state determines its other columns) and, for admission, on the *)
(* bound of the queue, which holds after the step as well as before it.    *)
(***************************************************************************)

\* The client's view of the rows.
Phase == [e \in EpisodeId |-> ContractPhase(episodes[e].state)]
Tries == [e \in EpisodeId |-> episodes[e].attempt_id]
Outcomes == [e \in EpisodeId |-> episodes[e].result]

View == <<Phase, Tries, Outcomes, notifications>>

\* The phases of the states, one by one.
LEMMA PhaseOf ==
  /\ ContractPhase("absent") = "unknown"
  /\ ContractPhase("queued") = "pending"
  /\ ContractPhase("dispatched") = "pending"
  /\ ContractPhase("cancel_requested") = "withdrawing"
  /\ \A s \in ExecutionStatus : ContractPhase(s) = "finished"
BY DEF ContractPhase

\* The open phases are those of the active states, in any table of rows.
LEMMA OpenIsActive ==
  ASSUME NEW rows \in [EpisodeId -> EpisodeRows],
         NEW view, view = [e \in EpisodeId |-> ContractPhase(rows[e].state)]
  PROVE  {e \in EpisodeId : view[e] \in Contract!Open} =
           {e \in EpisodeId : rows[e].state \in ActiveStates}
<1>1. ASSUME NEW e \in EpisodeId
      PROVE  view[e] \in Contract!Open <=> rows[e].state \in ActiveStates
  <2>1. rows[e].state \in States
    BY DEF EpisodeRows
  <2> QED
    BY <2>1, PhaseOf DEF Contract!Open, States
<1> QED
  BY <1>1

\* The empty database is the contract's initial state.
LEMMA ContractInit == ServerInit => Contract!Init
<1> SUFFICES ASSUME ServerInit PROVE Contract!Init
  OBVIOUS
<1>1. \A e \in EpisodeId : /\ episodes[e].state = "absent"
                           /\ episodes[e].attempt_id = 1
                           /\ episodes[e].result = None
  BY DEF ServerInit, AbsentRow
<1>2. [e \in EpisodeId |-> ContractPhase(episodes[e].state)] = [e \in EpisodeId |-> "unknown"]
  BY <1>1, PhaseOf
<1>3. [e \in EpisodeId |-> episodes[e].attempt_id] = [e \in EpisodeId |-> 1]
  BY <1>1
<1>4. [e \in EpisodeId |-> episodes[e].result] = [e \in EpisodeId |-> None]
  BY <1>1
<1>5. notifications = [e \in EpisodeId |-> <<>>]
  BY DEF ServerInit
<1> QED
  BY <1>2, <1>3, <1>4, <1>5 DEF Contract!Init

\* submit admits the members of the batch that had no row.
LEMMA SubmitAdmits ==
  ASSUME RepoInv, RepoInv', CapacityRespected', NEW s \in Submission, Submit(s)
  PROVE  \E batch \in SUBSET EpisodeId : Contract!Admit(batch)
<1> DEFINE batch == {e \in EpisodeId : episodes'[e] # episodes[e]}
<1>1. TypeOK /\ TypeOK'
  BY DEF RepoInv
<1>2. ASSUME NEW e \in EpisodeId
      PROVE  /\ episodes'[e].attempt_id = episodes[e].attempt_id
             /\ episodes'[e].result = episodes[e].result
             /\ e \in batch => /\ episodes[e].state = "absent"
                               /\ episodes'[e].state = "queued"
  <2>1. CASE episodes'[e] = episodes[e]
    BY <2>1
  <2>2. ASSUME NEW m \in EpisodeRequests, episodes[e].state = "absent",
               episodes'[e] = ResolvedRow(s, m)
        PROVE  /\ episodes'[e].attempt_id = episodes[e].attempt_id
               /\ episodes'[e].result = episodes[e].result
               /\ episodes'[e].state = "queued"
    <3>1. episodes[e].attempt_id = 1 /\ episodes[e].result = None
      BY <2>2 DEF RepoInv, RowOK, AbsentRow
    <3> QED
      BY <1>1, <2>2, <3>1, ResolvedRowShape
  <2> QED
    BY <1>1, <2>1, <2>2, SubmitRows
<1>3. \A e \in batch : ContractPhase(episodes[e].state) = "unknown"
  BY <1>2, PhaseOf
<1>4. Phase' = [e \in EpisodeId |-> IF e \in batch THEN "pending" ELSE Phase[e]]
  <2>1. Phase' = [e \in EpisodeId |-> ContractPhase(episodes'[e].state)]
    BY DEF Phase
  <2>2. ASSUME NEW e \in EpisodeId
        PROVE  ContractPhase(episodes'[e].state) = IF e \in batch THEN "pending" ELSE Phase[e]
    BY <1>2, PhaseOf DEF Phase
  <2> QED
    BY <2>1, <2>2
<1>5. Tries' = Tries /\ Outcomes' = Outcomes /\ notifications' = notifications
  BY <1>2 DEF Tries, Outcomes, Submit
<1>6. Cardinality({e \in EpisodeId : Phase'[e] \in Contract!Open}) <= Capacity
  <2>1. {e \in EpisodeId : Phase'[e] \in Contract!Open} = ActiveEpisodes'
    <3>1. episodes' \in [EpisodeId -> EpisodeRows]
      BY <1>1 DEF TypeOK
    <3>2. Phase' = [e \in EpisodeId |-> ContractPhase(episodes'[e].state)]
      BY DEF Phase
    <3> QED
      BY <3>1, <3>2, OpenIsActive DEF ActiveEpisodes
  <2> QED
    BY <2>1 DEF CapacityRespected
<1>7. Contract!Admit(batch)
  BY <1>3, <1>4, <1>5, <1>6 DEF Contract!Admit, Phase, Tries, Outcomes, Contract!Cardinality, Cardinality
<1> QED
  BY <1>7

\* dispatch is invisible to the client.
LEMMA DispatchStutters ==
  ASSUME RepoInv, NEW e \in EpisodeId, NEW w \in WorkerId, Dispatch(e, w)
  PROVE  View' = View
<1>1. TypeOK
  BY DEF RepoInv
<1>2. /\ \A f \in EpisodeId \ {e} : episodes'[f] = episodes[f]
      /\ episodes'[e].attempt_id = episodes[e].attempt_id
      /\ episodes'[e].result = episodes[e].result
      /\ episodes[e].state = "queued" /\ episodes'[e].state = "dispatched"
  <2>1. /\ \A f \in EpisodeId \ {e} : episodes'[f] = episodes[f]
        /\ episodes'[e] = [run_id |-> episodes[e].run_id,
                           request |-> episodes[e].request,
                           attempt_id |-> episodes[e].attempt_id,
                           deadline_at_ms |-> episodes[e].deadline_at_ms,
                           state |-> "dispatched",
                           lease |-> IssueLease(e, w),
                           worker_id |-> w,
                           result |-> episodes[e].result]
    BY <1>1, DispatchRows
  <2>2. episodes[e].state = "queued"
    BY DEF Dispatch
  <2> QED
    BY <2>1, <2>2
<1>3. \A f \in EpisodeId : ContractPhase(episodes'[f].state) = ContractPhase(episodes[f].state)
  BY <1>2, PhaseOf
<1>4. Phase' = Phase
  BY <1>3 DEF Phase
<1>5. Tries' = Tries /\ Outcomes' = Outcomes
  BY <1>2 DEF Tries, Outcomes
<1> QED
  BY <1>4, <1>5 DEF View, Dispatch

\* The retry branch of accept_result is another try.
LEMMA RetryTriesAgain ==
  ASSUME RepoInv, RepoInv', NEW rep, rep.result.episode_id \in EpisodeId, RetryEpisode(rep)
  PROVE  Contract!TryAgain(rep.result.episode_id)
<1>1. PICK e \in EpisodeId : e = rep.result.episode_id
  OBVIOUS
<1>2. TypeOK /\ TypeOK'
  BY DEF RepoInv
<1>3. /\ \A f \in EpisodeId \ {e} : episodes'[f] = episodes[f]
      /\ episodes'[e] = [run_id |-> episodes[e].run_id,
                         request |-> episodes[e].request,
                         attempt_id |-> episodes[e].attempt_id + 1,
                         deadline_at_ms |-> episodes[e].deadline_at_ms,
                         state |-> "queued", lease |-> None,
                         worker_id |-> None, result |-> None]
  BY <1>1, <1>2, RetryRows
<1>4. /\ episodes[e].state = "dispatched" /\ episodes[e].result = None
      /\ notifications' = notifications
  BY <1>1 DEF RetryEpisode, ShouldRetry, RepoInv, RowOK
<1>5. episodes[e].attempt_id \in Nat /\ episodes'[e].attempt_id \in AttemptId
  <2>1. episodes[e] \in EpisodeRows /\ episodes'[e] \in EpisodeRows
    BY <1>2 DEF TypeOK
  <2>2. episodes[e].attempt_id \in AttemptId /\ episodes'[e].attempt_id \in AttemptId
    BY <2>1 DEF EpisodeRows
  <2> QED
    BY <2>2, ConstantsAssumption
<1>6. Phase[e] = "pending" /\ Phase' = Phase
  <2>1. \A f \in EpisodeId : ContractPhase(episodes'[f].state) = ContractPhase(episodes[f].state)
    BY <1>3, <1>4, PhaseOf
  <2> QED
    BY <1>4, <2>1, PhaseOf DEF Phase
<1>7. Tries[e] < MaxAttemptId /\ Tries' = [Tries EXCEPT ![e] = @ + 1]
  <2>1. /\ episodes'[e].attempt_id = episodes[e].attempt_id + 1
        /\ \A f \in EpisodeId \ {e} : episodes'[f].attempt_id = episodes[f].attempt_id
    BY <1>3
  <2>2. Tries' = [Tries EXCEPT ![e] = @ + 1]
    BY <2>1 DEF Tries
  <2>3. Tries[e] < MaxAttemptId
    BY <1>5, <2>1, ConstantsAssumption DEF Tries
  <2> QED
    BY <2>2, <2>3
<1>8. Outcomes' = Outcomes
  BY <1>3, <1>4 DEF Outcomes
<1> QED
  BY <1>1, <1>4, <1>6, <1>7, <1>8 DEF Contract!TryAgain, Phase, Tries, Outcomes

\* The other branch settles the episode and announces its result.
LEMMA SettleSettles ==
  ASSUME RepoInv, NEW rep, rep.result \in Result, SettleEpisode(rep),
         episodes[rep.result.episode_id].state \in HeldStates
  PROVE  Contract!Settle(rep.result.episode_id, rep.result)
<1>1. PICK e \in EpisodeId : e = rep.result.episode_id
  BY ResultAssumption DEF Results
<1>2. TypeOK
  BY DEF RepoInv
<1>3. /\ \A f \in EpisodeId \ {e} : episodes'[f] = episodes[f]
      /\ episodes'[e] = [run_id |-> episodes[e].run_id,
                         request |-> episodes[e].request,
                         attempt_id |-> episodes[e].attempt_id,
                         deadline_at_ms |-> episodes[e].deadline_at_ms,
                         state |-> rep.result.execution_status,
                         lease |-> episodes[e].lease,
                         worker_id |-> episodes[e].worker_id,
                         result |-> rep.result]
  BY <1>1, <1>2, SettleRows
<1>4. /\ episodes'[e].state \in ExecutionStatus
      /\ episodes'[e].result = rep.result
      /\ episodes'[e].attempt_id = episodes[e].attempt_id
  BY <1>3, ResultAssumption DEF Results
<1>5. Phase[e] \in Contract!Open
  BY <1>1, PhaseOf DEF Phase, Contract!Open
<1>6. Phase' = [Phase EXCEPT ![e] = "finished"]
  <2>1. \A f \in EpisodeId :
          ContractPhase(episodes'[f].state) =
            IF f = e THEN "finished" ELSE ContractPhase(episodes[f].state)
    BY <1>3, <1>4, PhaseOf
  <2> QED
    BY <2>1 DEF Phase
<1>7. Outcomes' = [Outcomes EXCEPT ![e] = rep.result] /\ Tries' = Tries
  BY <1>3, <1>4 DEF Outcomes, Tries
<1>8. notifications' = [notifications EXCEPT ![e] = Append(@, rep.result)]
  BY <1>1 DEF SettleEpisode
<1> QED
  BY <1>1, <1>5, <1>6, <1>7, <1>8 DEF Contract!Settle, Phase, Tries, Outcomes

\* cancel_run withdraws the queued episodes and stops the dispatched ones.
LEMMA CancelWithdraws ==
  ASSUME RepoInv, NEW o \in Owner, NEW r \in RunId, CancelRun(o, r)
  PROVE  \E ended, stopped \in SUBSET EpisodeId : Contract!Withdraw(ended, stopped)
<1> DEFINE changed == {e \in EpisodeId : episodes'[e].state # episodes[e].state}
           ended == {e \in changed : episodes[e].state = "queued"}
           stopped == {e \in changed : episodes[e].state = "dispatched"}
<1>1. TypeOK
  BY DEF RepoInv
<1>2. ASSUME NEW e \in EpisodeId
      PROVE  /\ episodes'[e].attempt_id = episodes[e].attempt_id
             /\ episodes'[e].result = episodes[e].result
             /\ \/ episodes'[e].state = episodes[e].state
                \/ episodes[e].state = "queued" /\ episodes'[e].state = "cancelled"
                \/ episodes[e].state = "dispatched" /\ episodes'[e].state = "cancel_requested"
  BY <1>1, CancelColumns
<1>3. Phase' = [e \in EpisodeId |-> IF e \in ended THEN "finished"
                                   ELSE IF e \in stopped THEN "withdrawing" ELSE Phase[e]]
  <2>1. ASSUME NEW e \in EpisodeId
        PROVE  ContractPhase(episodes'[e].state) =
                 IF e \in ended THEN "finished"
                 ELSE IF e \in stopped THEN "withdrawing" ELSE ContractPhase(episodes[e].state)
    BY <1>2, PhaseOf
  <2> QED
    BY <2>1 DEF Phase
<1>4. \A e \in ended \cup stopped : Phase[e] = "pending"
  BY PhaseOf DEF Phase
<1>5. ended \cap stopped = {}
  OBVIOUS
<1>6. Tries' = Tries /\ Outcomes' = Outcomes /\ notifications' = notifications
  BY <1>2 DEF Tries, Outcomes, CancelRun
<1>7. Contract!Withdraw(ended, stopped)
  BY <1>3, <1>4, <1>5, <1>6 DEF Contract!Withdraw, Phase, Tries, Outcomes
<1> QED
  BY <1>7

\* Every step of the Server is a step of the contract or a stutter.
LEMMA ContractStep ==
  RepoInv /\ RepoInv' /\ CapacityRespected' /\ [ServerNext]_serverVars
    => [Contract!Next]_(Contract!contractVars)
<1> SUFFICES ASSUME RepoInv, RepoInv', CapacityRespected', [ServerNext]_serverVars
             PROVE  Contract!Next \/ View' = View
  BY DEF View, Phase, Tries, Outcomes, Contract!contractVars
<1>1. ASSUME NEW s \in Submission, Submit(s) PROVE Contract!Next
  BY <1>1, SubmitAdmits DEF Contract!Next
<1>2. ASSUME NEW e \in EpisodeId, NEW w \in WorkerId, Dispatch(e, w) PROVE View' = View
  BY <1>2, DispatchStutters
<1>3. ASSUME NEW d \in dispatches, NEW res \in Result,
             AcceptResult([lease |-> d.lease, result |-> res])
      PROVE  Contract!Next
  <2> DEFINE rep == [lease |-> d.lease, result |-> res]
  <2>1. /\ res.episode_id \in EpisodeId
        /\ episodes[res.episode_id].state \in HeldStates
        /\ RetryEpisode(rep) \/ SettleEpisode(rep)
    BY <1>3, AcceptFacts
  <2>2. rep.result = res
    OBVIOUS
  <2>3. CASE RetryEpisode(rep)
    BY <2>1, <2>2, <2>3, RetryTriesAgain DEF Contract!Next
  <2>4. CASE SettleEpisode(rep)
    BY <2>1, <2>2, <2>4, SettleSettles DEF Contract!Next
  <2> QED
    BY <2>1, <2>3, <2>4
<1>4. ASSUME NEW o \in Owner, NEW r \in RunId, CancelRun(o, r) PROVE Contract!Next
  BY <1>4, CancelWithdraws DEF Contract!Next
<1>5. CASE Tick \/ UNCHANGED serverVars
  BY <1>5 DEF Tick, serverVars, View, Phase, Tries, Outcomes
<1> QED
  BY <1>1, <1>2, <1>3, <1>4, <1>5 DEF ServerNext

\* The repository implements the contract: whatever its clients submit and
\* cancel and its workers report, an episode is admitted once and within the
\* capacity, tried again only while it is pending, and settled and announced
\* once (submit, dispatch, accept_result, cancel_run).
THEOREM ImplementsContractHolds == ServerSpec => ImplementsContract
<1>1. ServerSpec => []CapacityRespected
  BY CapacityRespectedHolds
<1>2. ServerSpec => []RepoInv
  BY RepositoryInvariant
<1> QED
  BY <1>1, <1>2, ContractInit, ContractStep, PTL DEF ServerSpec, ImplementsContract, Contract!Spec
=============================================================================
