---------------------------- MODULE ScoringProofs ---------------------------
(***************************************************************************)
(* What Scoring promises, for every set of requests, checkpoints, scorers' *)
(* results and text rules.  The invariant follows one answer: who may      *)
(* still change it, and what stands behind it at each stage.               *)
(***************************************************************************)
EXTENDS Scoring, FiniteSetTheorems, TLAPS

\* Where a scorer that has been called is at work.
AtWork == Scorers \cup {"manifest", "segments", "report"}

ScoringShape ==
  /\ request \in Requests
  /\ host \in [called : BOOLEAN, closed : BOOLEAN, behind : BOOLEAN]
  /\ scorer = [at |-> scorer.at, segment |-> scorer.segment, events |-> scorer.events,
               overdue |-> scorer.overdue]
  /\ scorer.at \in AtWork \cup {"idle", "called", "replied", "killed"}

\* The package of a scorer at work was checked, the harness rule only ever
\* runs the harness, and the host has not answered before it.
WorkIsDeclared ==
  /\ host.called => request.declared
  /\ scorer.at \in AtWork =>
       /\ host.called
       /\ request.rule = "harness" <=> scorer.at \in {"harness", "report"}
  /\ scorer.at \in AtWork \cup {"called"} => reply.kind = "none"

\* A score the host sends comes from a checked package and, for the harness,
\* from a report that was accepted.
ReplyIsBacked ==
  reply.kind = "score" =>
    /\ request.declared
    /\ request.rule = "harness" => /\ ReportAccepted(report)
                                   /\ reply.value.success = BinaryScore(report.success)

\* While the Worker verifies a score, the host has nothing left to say.
VerifiedIsSettled ==
  /\ worker = "ready" => scorer.at = "idle" /\ reply.kind = "none"
  /\ worker \in {"candidate", "rewards", "accepted"} => scorer.at = "idle" /\ reply.kind = "score"
  /\ worker = "accepted" => RewardsError(request.task, Trajectory, reply.value.generations) = "none"
  /\ score.status # "none" => worker \in {"scored", "closing", "closed"}
  /\ score.status = "ok" => scorer.at \in {"idle", "killed"}

ScoringInv ==
  ScoringShape /\ WorkIsDeclared /\ ReplyIsBacked /\ VerifiedIsSettled /\ OkScoreIsBacked
-----------------------------------------------------------------------------
\* A step that leaves the score and the request alone, and the report too
\* once a score is ok, takes no evidence away.
LEMMA EvidenceStays ==
  ASSUME OkScoreIsBacked, score' = score, request' = request,
         score.status = "ok" => report' = report
  PROVE  OkScoreIsBacked'
BY DEF OkScoreIsBacked, Trajectory, AllEvents

\* The error branch of run_score claims no evidence.
LEMMA ErrorNeedsNoEvidence ==
  ASSUME NEW code, Fail(code)
  PROVE  score'.status = "error" /\ worker' = "scored" /\ OkScoreIsBacked'
BY DEF Fail, NoScore, OkScoreIsBacked

\* What validate_generation_rewards admits: distinct, answered generations of
\* this task's complete checkpoint.
LEMMA AdmittedIsBacked ==
  ASSUME NEW task, NEW trajectory, NEW scored, RewardsError(task, trajectory, scored) = "none"
  PROVE  /\ \A k \in DOMAIN scored :
              \E e \in Range(AllEvents(trajectory)) :
                e.kind = "generation" /\ e.response # "none" /\ e.id = scored[k]
         /\ Cardinality(Range(scored)) = Len(scored)
         /\ scored # <<>> => /\ trajectory.status = "scoring_checkpoint"
                             /\ trajectory.task = task
                             /\ Len(AllEvents(trajectory)) = trajectory.count
<1> DEFINE events == AllEvents(trajectory)
<1>1. CASE scored = <<>>
  <2>1. Range(scored) = {} /\ DOMAIN scored = {} /\ Len(scored) = 0
    BY <1>1 DEF Range
  <2>2. Cardinality(Range(scored)) = 0
    BY <2>1, FS_EmptySet
  <2> QED  BY <1>1, <2>1, <2>2
<1>2. CASE scored # <<>>
  <2>1. /\ trajectory.status = "scoring_checkpoint" /\ trajectory.task = task
        /\ Len(events) = trajectory.count
        /\ Range(scored) \subseteq ScorableIds(events)
        /\ Cardinality(Range(scored)) = Len(scored)
    BY <1>2 DEF RewardsError
  <2>2. ASSUME NEW k \in DOMAIN scored
        PROVE  \E e \in Range(events) :
                 e.kind = "generation" /\ e.response # "none" /\ e.id = scored[k]
    <3>1. scored[k] \in ScorableIds(events)
      BY <2>1 DEF Range
    <3>2. PICK j \in DOMAIN events : /\ events[j].kind = "generation" /\ events[j].response # "none"
                                     /\ events[j].id = scored[k]
      BY <3>1 DEF ScorableIds, Ids, Generations
    <3>3. events[j] \in Range(events)
      BY DEF Range
    <3> QED  BY <3>2, <3>3
  <2> QED  BY <1>2, <2>1, <2>2
<1> QED  BY <1>1, <1>2

-----------------------------------------------------------------------------
LEMMA ScoringInit ==
  ASSUME Init
  PROVE  ScoringInv
BY DEF Init, ScoringInv, ScoringShape, WorkIsDeclared, ReplyIsBacked, VerifiedIsSettled,
       OkScoreIsBacked, NoReply, NoScore, AtWork, Scorers, TextRules

\* The scorer's own steps: each works before the first answer, so the score
\* is not ok yet, and leaves the Worker where it is.
LEMMA ScorerStepPreserves ==
  ASSUME ScoringInv, ScorerStep
  PROVE  ScoringInv'
<1> USE DEF ScoringInv, ScoringShape, WorkIsDeclared, ReplyIsBacked, VerifiedIsSettled, AtWork,
            Scorers, TextRules
<1>1. CASE ScoreCalled
  <2>1. request.rule \in Scorers
    BY RequestsAssumption
  <2>2. OkScoreIsBacked'
    BY <1>1, EvidenceStays DEF ScoreCalled
  <2> QED  BY <1>1, <2>1, <2>2 DEF ScoreCalled, ReplyError, Reply, NoReply, Trajectory,
      ReportAccepted
<1>2. CASE ScoreText
  <2>1. OkScoreIsBacked'
    BY <1>2, EvidenceStays DEF ScoreText, HostUnchanged
  <2> QED  BY <1>2, <2>1 DEF ScoreText, HostUnchanged, Raises, ReplyError, Reply, NoReply,
      Binary, ReplyScore, Trajectory, ReportAccepted
<1>3. CASE ScoreProgress
  <2>1. OkScoreIsBacked'
    BY <1>3, EvidenceStays DEF ScoreProgress, HostUnchanged
  <2> QED  BY <1>3, <2>1 DEF ScoreProgress, HostUnchanged, Raises, ReplyError, Reply, NoReply,
      ReplyScore, Trajectory, ReportAccepted
<1>4. CASE ScoreAuthored
  <2>1. OkScoreIsBacked'
    BY <1>4, EvidenceStays DEF ScoreAuthored, HostUnchanged
  <2> QED  BY <1>4, <2>1 DEF ScoreAuthored, HostUnchanged, Raises, ReplyError, Reply, NoReply,
      ReplyScore, Trajectory, ReportAccepted
<1>5. CASE ScoreProcess
  <2>1. OkScoreIsBacked'
    BY <1>5, EvidenceStays DEF ScoreProcess, HostUnchanged
  <2> QED  BY <1>5, <2>1 DEF ScoreProcess, HostUnchanged, Raises, ReplyError, Reply, NoReply,
      Trajectory, ReportAccepted
<1>6. CASE ReadManifest
  <2>1. OkScoreIsBacked'
    BY <1>6, EvidenceStays DEF ReadManifest, HostUnchanged
  <2> QED  BY <1>6, <2>1 DEF ReadManifest, HostUnchanged, Raises, ReplyError, Reply, NoReply,
      ReadFails, CallbackRefused, Trajectory, ReportAccepted
<1>7. CASE ReadSegment
  <2>1. OkScoreIsBacked'
    BY <1>7, EvidenceStays DEF ReadSegment, HostUnchanged
  <2> QED  BY <1>7, <2>1 DEF ReadSegment, HostUnchanged, Raises, ReplyError, Reply, NoReply,
      ReadFails, CallbackRefused, Trajectory, ReportAccepted
<1>8. CASE ScoreGenerations
  <2>1. OkScoreIsBacked'
    BY <1>8, EvidenceStays DEF ScoreGenerations, HostUnchanged
  <2> QED  BY <1>8, <2>1 DEF ScoreGenerations, HostUnchanged, Raises, ReplyError, Reply,
      NoReply, ReplyScore, Trajectory, ReportAccepted
<1>9. CASE ScoreHarness
  <2>1. OkScoreIsBacked'
    BY <1>9, EvidenceStays DEF ScoreHarness, HostUnchanged
  <2> QED  BY <1>9, <2>1 DEF ScoreHarness, HostUnchanged, Raises, ReplyError, Reply, NoReply,
      CallbackRefused, Trajectory, ReportAccepted
<1>10. CASE HarnessReturns
  <2>1. OkScoreIsBacked'
    BY <1>10, EvidenceStays DEF HarnessReturns
  <2>2. CASE CallbackRefused /\ UNCHANGED report
    BY <1>10, <2>1, <2>2 DEF HarnessReturns, CallbackRefused, NoReply, Trajectory
  <2>3. ASSUME NEW r, report' = r,
               IF ReportAccepted(r) THEN Binary(BinaryScore(r.success), "resolved") ELSE Raises
        PROVE  ScoringInv'
    <3>1. scorer' = [scorer EXCEPT !.at = "replied"] /\ scorer.at = "report"
      BY <1>10, <2>3 DEF HarnessReturns, Binary, ReplyScore, Raises, ReplyError, Reply
    <3>2. CASE ReportAccepted(r)
      <4>1. reply'.kind = "score" /\ reply'.value.success = BinaryScore(report'.success)
        BY <2>3, <3>2 DEF Binary, ReplyScore, Reply
      <4>2. ReplyIsBacked'
        BY <1>10, <2>3, <3>1, <3>2, <4>1 DEF HarnessReturns
      <4> QED  BY <1>10, <2>1, <3>1, <4>1, <4>2 DEF HarnessReturns, Trajectory
    <3>3. CASE ~ReportAccepted(r)
      <4>1. reply'.kind = "error"
        BY <2>3, <3>3 DEF Raises, ReplyError, Reply, NoReply
      <4> QED  BY <1>10, <2>1, <3>1, <4>1 DEF HarnessReturns, Trajectory
    <3> QED  BY <3>2, <3>3
  <2> QED  BY <1>10, <2>2, <2>3 DEF HarnessReturns
<1>11. CASE HostClose
  <2>1. OkScoreIsBacked'
    BY <1>11, EvidenceStays DEF HostClose
  <2> QED  BY <1>11, <2>1 DEF HostClose, Trajectory, ReportAccepted
<1> QED  BY <1>1, <1>2, <1>3, <1>4, <1>5, <1>6, <1>7, <1>8, <1>9, <1>10, <1>11 DEF ScorerStep

\* The Worker's steps: only Accept reports an ok score.
LEMMA WorkerStepPreserves ==
  ASSUME ScoringInv, WorkerStep
  PROVE  ScoringInv'
<1> USE DEF ScoringInv, ScoringShape, WorkIsDeclared, ReplyIsBacked, VerifiedIsSettled, AtWork,
            Scorers, TextRules
<1>1. CASE RunScore
  <2>1. OkScoreIsBacked'
    BY <1>1, EvidenceStays, ErrorNeedsNoEvidence DEF RunScore
  <2> QED  BY <1>1, <2>1 DEF RunScore, Fail, NoScore, Trajectory, ReportAccepted
<1>2. CASE GiveUp
  <2>1. OkScoreIsBacked'
    BY <1>2, EvidenceStays, ErrorNeedsNoEvidence DEF GiveUp
  <2> QED  BY <1>2, <2>1 DEF GiveUp, Fail, NoScore, Trajectory, ReportAccepted
<1>3. CASE ScorerReplied
  <2>1. OkScoreIsBacked'
    BY <1>3, EvidenceStays, ErrorNeedsNoEvidence DEF ScorerReplied, WorkerUnchanged
  <2> QED  BY <1>3, <2>1 DEF ScorerReplied, WorkerUnchanged, Fail, NoScore, Trajectory,
      ReportAccepted
<1>4. CASE CheckCandidate
  <2>1. OkScoreIsBacked'
    BY <1>4, EvidenceStays, ErrorNeedsNoEvidence DEF CheckCandidate, WorkerUnchanged
  <2> QED  BY <1>4, <2>1 DEF CheckCandidate, WorkerUnchanged, Fail, NoScore, Trajectory,
      ReportAccepted
<1>5. CASE CheckRewards
  <2>1. OkScoreIsBacked'
    BY <1>5, EvidenceStays, ErrorNeedsNoEvidence DEF CheckRewards, WorkerUnchanged
  <2> QED  BY <1>5, <2>1 DEF CheckRewards, WorkerUnchanged, Fail, NoScore, Trajectory,
      ReportAccepted
<1>6. CASE Accept
  <2>1. CASE ContextError # "none" /\ Fail(ContextError)
    BY <1>6, <2>1, ErrorNeedsNoEvidence DEF Accept, WorkerUnchanged, Trajectory, ReportAccepted
  <2>2. CASE ContextError = "none"
    <3>1. /\ score' = [NoScore EXCEPT !.status = "ok", !.success = reply.value.success,
                                      !.generations = reply.value.generations]
          /\ worker' = "scored" /\ UNCHANGED <<request, host, reply, report, scorer>>
      BY <1>6, <2>2 DEF Accept, WorkerUnchanged, Fail
    <3>2. /\ score'.status = "ok" /\ score'.success = reply.value.success
          /\ score'.generations = reply.value.generations
      BY <3>1 DEF NoScore
    <3>3. /\ RewardsError(request.task, Trajectory, reply.value.generations) = "none"
          /\ reply.kind = "score" /\ scorer.at = "idle"
      BY <1>6 DEF Accept
    <3>4. OkScoreIsBacked'
      BY <3>1, <3>2, <3>3, AdmittedIsBacked DEF OkScoreIsBacked, Trajectory, ReportAccepted
    <3> QED  BY <3>1, <3>2, <3>3, <3>4 DEF ReportAccepted
  <2> QED  BY <1>6, <2>1, <2>2 DEF Accept
<1>7. CASE BeginClose
  <2>1. OkScoreIsBacked'
    BY <1>7, EvidenceStays DEF BeginClose
  <2> QED  BY <1>7, <2>1 DEF BeginClose, Trajectory, ReportAccepted
<1>8. CASE CloseReturns
  <2>1. OkScoreIsBacked'
    BY <1>8, EvidenceStays DEF CloseReturns
  <2> QED  BY <1>8, <2>1 DEF CloseReturns, Trajectory, ReportAccepted
<1> QED  BY <1>1, <1>2, <1>3, <1>4, <1>5, <1>6, <1>7, <1>8 DEF WorkerStep

-----------------------------------------------------------------------------
\* The inductive invariant of the scoring of one attempt: until a score is
\* verified, what the host sends is backed by a checked package and an
\* accepted report, and once it is, the host cannot change it.
\* (run_score, ScorerHost.score, evaluate_harness)
THEOREM ScoringInvariant == Spec => []ScoringInv
<1>1. Init => ScoringInv
  BY ScoringInit
<1>2. ScoringInv /\ [Next]_vars => ScoringInv'
  <2> SUFFICES ASSUME ScoringInv, [Next]_vars
               PROVE  ScoringInv'
    OBVIOUS
  <2> USE DEF ScoringInv, ScoringShape, WorkIsDeclared, ReplyIsBacked, VerifiedIsSettled, Trajectory,
              ReportAccepted
  <2>1. CASE TimePasses
    BY <2>1, EvidenceStays DEF TimePasses
  <2>2. CASE Cancel
    BY <2>2, EvidenceStays DEF Cancel
  <2>3. CASE UNCHANGED vars
    BY <2>3, EvidenceStays DEF vars
  <2> QED  BY <2>1, <2>2, <2>3, ScorerStepPreserves, WorkerStepPreserves DEF Next
<1> QED  BY <1>1, <1>2, PTL DEF Spec

\* A score reported as ok is backed by evidence, whatever an author's scorer
\* returns and however the deadline, a cancellation and a late host
\* interleave.  (run_score, validate_generation_rewards, evaluate_harness)
THEOREM OkScoreIsBackedHolds == Spec => []OkScoreIsBacked
<1>1. ScoringInv => OkScoreIsBacked
  BY DEF ScoringInv
<1> QED  BY <1>1, ScoringInvariant, PTL
=============================================================================
