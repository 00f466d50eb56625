------------------------------- MODULE Scoring ------------------------------
(***************************************************************************)
(* The scoring of one finished attempt: the Worker's run_score with its    *)
(* scoring context (scoring.rs, RpcScorerHost of rpc.rs) on one side, the  *)
(* Python ScorerHost, the scorers and the SDK helpers they use on the      *)
(* other.  The host runs the package's scorer once; through two callbacks  *)
(* the scorer reads the sealed trajectory checkpoint and runs the test     *)
(* harness; the Worker cuts the call off at its deadline or on             *)
(* cancellation, and verifies what the scorer returns before it becomes a  *)
(* score.                                                                  *)
(***************************************************************************)
EXTENDS Integers, Sequences, FiniteSets, SequencesExt

CONSTANTS
  Requests,      \* what the Worker may ask to have scored
  Contested,     \* the requests whose scoring time, cancellation and faults interleave with
  Trajectories,  \* the stored checkpoints, by name
  Returned,      \* what an author's own scorer may return
  TextVerdict(_) \* what the text rules say of a request

ASSUME ContestedAssumption == Contested \subseteq Requests

\* The scorers: the four text rules, the two examples, the test harness, and
\* one of an author.  A request names the one its package loads.
TextRules == {"gsm8k", "olymmath", "pubmedqa", "scitab"}
Scorers == TextRules \cup {"progress", "process", "harness", "authored"}

ASSUME RequestsAssumption == \A r \in Requests : r.rule \in Scorers

\* Clock readings that matter: before the Worker's deadline; past it, not yet
\* past the host's own, which starts later; past both.
Early == 0
Late == 1
Over == 2

VARIABLES
  request,    \* the ScoreInput under evaluation, with its package
  time,       \* Early, Late or Over
  cancelled,  \* the episode was cancelled
  worker,     \* where run_score is
  host,       \* the ScorerHost: called, closed, and whether a late answer precedes its last
  scorer,     \* where the host's scorer is, and the events it has read
  reply,      \* the host's answer: a candidate score or an error code
  report,     \* the harness report the host has seen
  score,      \* the ScoreResult run_score returned
  cleanup     \* the outcome of closing the host

vars == <<request, time, cancelled, worker, host, scorer, reply, report, score, cleanup>>

NoScore == [status |-> "none", code |-> "none", message |-> "none", success |-> "null", generations |-> <<>>]
NoCandidate == [success |-> "null", reward |-> "missing", metrics |-> <<>>, generations |-> <<>>, system |-> FALSE]
NoReply == [kind |-> "none", code |-> "none", value |-> NoCandidate]
NoReport == [status |-> "none", success |-> FALSE, passed |-> 0, run |-> 0]

Init ==
  /\ request \in Requests
  /\ time = Early
  /\ cancelled = FALSE
  /\ worker = "ready"
  /\ host = [called |-> FALSE, closed |-> FALSE, behind |-> FALSE]
  /\ scorer = [at |-> "idle", segment |-> 0, events |-> <<>>, overdue |-> FALSE]
  /\ reply = NoReply
  /\ report = NoReport
  /\ score = NoScore
  /\ cleanup = "pending"

Trajectory == Trajectories[request.trajectory]

-----------------------------------------------------------------------------
(* The Worker's scoring context.                                           *)

\* remaining_timeout_ms: no code while there is time left.
ContextError ==
  IF cancelled THEN "EPISODE_CANCELLED" ELSE IF time >= Late THEN "SCORER_TIMEOUT" ELSE "none"

\* run_score's error branch: two codes are kept, all others become SCORER_FAILED.
ReportedCode(code) == IF code \in {"EPISODE_CANCELLED", "SCORER_TIMEOUT"} THEN code ELSE "SCORER_FAILED"

Fail(code) ==
  /\ score' = [NoScore EXCEPT !.status = "error", !.code = ReportedCode(code), !.message = code]
  /\ worker' = "scored"

\* run_score up to the RPC call: the time left becomes the host's own limit.
RunScore ==
  /\ worker = "ready"
  /\ \/ /\ ContextError # "none" /\ Fail(ContextError)
        /\ UNCHANGED scorer
     \/ /\ ContextError = "none"
        /\ worker' = "scoring"
        /\ scorer' = [scorer EXCEPT !.at = "called"]
        /\ UNCHANGED score
  /\ UNCHANGED <<request, time, cancelled, host, reply, report, cleanup>>

\* As a bug: only a cancellation ends a call that is not answered.
GiveUp_Variant ==
  /\ worker = "scoring" /\ scorer.at # "report"
  /\ cancelled /\ Fail("EPISODE_CANCELLED") /\ scorer' = [scorer EXCEPT !.at = "killed"]
  /\ UNCHANGED <<request, time, cancelled, host, reply, report, cleanup>>

\* call_with gives the call up: on cancellation; when the RPC deadline has
\* passed at the head of its loop, which is where a callback that outlived the
\* deadline leads; when a poll finds the scoring deadline passed.  The first
\* two kill the host, a poll's error does not.  While a callback is served,
\* which takes time for the harness only, the loop does not turn.
GiveUp ==
  /\ worker = "scoring" /\ scorer.at # "report"
  /\ \/ cancelled /\ Fail("EPISODE_CANCELLED") /\ scorer' = [scorer EXCEPT !.at = "killed"]
     \/ /\ ~cancelled /\ scorer.overdue
        /\ Fail("RPC_TIMEOUT") /\ scorer' = [scorer EXCEPT !.at = "killed"]
     \/ /\ ~cancelled /\ ~scorer.overdue /\ time >= Late
        /\ Fail("SCORER_TIMEOUT") /\ UNCHANGED scorer
  /\ UNCHANGED <<request, time, cancelled, host, reply, report, cleanup>>

-----------------------------------------------------------------------------
(* The host.                                                               *)

\* binary_score: a Boolean verdict, never a truthy value.
BinaryScore(passed) == IF passed THEN "true" ELSE "false"

Reply(r) == reply' = r /\ scorer' = [scorer EXCEPT !.at = "replied"]
ReplyError(code) == Reply([NoReply EXCEPT !.kind = "error", !.code = code])

\* An exception with no code of its own reaches the Worker under one code.
Raises == ReplyError("COMPONENT_CALL_FAILED")

\* to_wire(ScoreResult): success and reward are always sent, other empty fields are not.
ReplyScore(success, reward, metrics, generations, system) ==
  Reply([kind |-> "score", code |-> "none",
         value |-> [success |-> success, reward |-> reward, metrics |-> metrics,
                    generations |-> generations, system |-> system]])

Binary(success, metric) == ReplyScore(success, "given", <<metric>>, <<>>, FALSE)

HostUnchanged == UNCHANGED <<request, time, cancelled, worker, host, report, score, cleanup>>

\* ScoringContext.check in the host: its deadline is later than the Worker's,
\* and its cancellation flag is never set.
HostLate == time = Over

\* A callback is served by the Worker's RPC loop: with the scoring context
\* during scorer.score, with a refusal during host.close.
Served == worker \in {"scoring", "closing"}
CallbackError == IF worker = "closing" THEN "RPC_METHOD_NOT_ALLOWED" ELSE ContextError

CallbackRefused ==
  /\ CallbackError # "none"
  /\ reply' = [NoReply EXCEPT !.kind = "error", !.code = CallbackError]
  /\ scorer' = [scorer EXCEPT !.at = "replied", !.overdue = CallbackError = "SCORER_TIMEOUT"]

\* ScorerHost.score: one call per host; the package must declare a model for
\* the configuration and for every optional part the request carries.
ScoreCalled ==
  /\ scorer.at = "called"
  /\ \/ /\ host.called \/ host.closed
        /\ ReplyError("SCORER_CALL_STATE_INVALID") /\ UNCHANGED host
     \/ /\ ~host.called /\ ~host.closed /\ ~request.declared
        /\ ReplyError("SCORER_INPUT_SCHEMA_MISMATCH") /\ UNCHANGED host
     \/ /\ ~host.called /\ ~host.closed /\ request.declared
        /\ host' = [host EXCEPT !.called = TRUE]
        /\ scorer' = [scorer EXCEPT !.at = request.rule]
        /\ UNCHANGED reply
  /\ UNCHANGED <<request, time, cancelled, worker, report, score, cleanup>>

\* read_reference_text: reference material and a text-only answer are required.
ReferenceReadable == request.private /\ request.text

\* Gsm8kScorer, OlymmathScorer, PubmedqaScorer, ScitabScorer.
ScoreText ==
  /\ scorer.at \in TextRules
  /\ IF ReferenceReadable THEN Binary(TextVerdict(request), "accuracy") ELSE Raises
  /\ HostUnchanged

\* ProgressScorer of the counter example: state.value against state.goal.
ScoreProgress ==
  /\ scorer.at = "progress"
  /\ IF request.state.given
     THEN ReplyScore(BinaryScore(request.state.value >= request.state.goal), "given",
                     <<"progress", "actions">>, <<>>, FALSE)
     ELSE Raises
  /\ HostUnchanged

\* A scorer of an author: anything its ScoreResult can say.
ScoreAuthored ==
  /\ scorer.at = "authored"
  /\ \E r \in Returned : ReplyScore(r.success, r.reward, r.metrics, r.generations, r.system)
  /\ HostUnchanged

\* ExactAnswerProcessScorer begins with the reference, then reads the trajectory.
ScoreProcess ==
  /\ scorer.at = "process"
  /\ IF ReferenceReadable
     THEN scorer' = [scorer EXCEPT !.at = "manifest"] /\ UNCHANGED reply
     ELSE Raises
  /\ HostUnchanged

\* scoring.read_artifact, from the host's check to the bytes in its hands: the
\* Worker refuses late or cancelled reads, and the store may fail.
ReadFails ==
  \/ HostLate /\ Raises
  \/ ~HostLate /\ CallbackRefused
  \/ ~HostLate /\ CallbackError = "none" /\ request \in Contested /\ ReplyError("ARTIFACT_READ_FAILED")

Readable == ~HostLate /\ CallbackError = "none"

\* read_scoring_trajectory, the manifest: this task's scoring checkpoint.
ReadManifest ==
  /\ scorer.at = "manifest" /\ Served
  /\ \/ ReadFails
     \/ Readable /\ (Trajectory.status # "scoring_checkpoint" \/ Trajectory.task # request.task) /\ Raises
     \/ /\ Readable /\ Trajectory.status = "scoring_checkpoint" /\ Trajectory.task = request.task
        /\ scorer' = [scorer EXCEPT !.at = "segments", !.segment = 1]
        /\ UNCHANGED reply
  /\ HostUnchanged

\* Every event belongs to this attempt and carries the next sequence number.
SegmentFits(events, segment) ==
  \A k \in DOMAIN segment :
    segment[k].attempt = Trajectory.attempt /\ segment[k].sequence = Len(events) + k - 1

ReadSegment ==
  /\ scorer.at = "segments" /\ scorer.segment <= Len(Trajectory.segments) /\ Served
  /\ LET segment == Trajectory.segments[scorer.segment]
     IN \/ ReadFails
        \/ Readable /\ ~SegmentFits(scorer.events, segment) /\ Raises
        \/ /\ Readable /\ SegmentFits(scorer.events, segment)
           /\ scorer' = [scorer EXCEPT !.segment = @ + 1, !.events = @ \o segment]
           /\ UNCHANGED reply
  /\ HostUnchanged

\* The generations the example rule can judge: a text-only, non-empty response.
Judged(events) == SelectSeq(events, LAMBDA e : e.kind = "generation" /\ e.response = "text")

\* The count is checked last; then each judged generation gets a reward.
ScoreGenerations ==
  /\ scorer.at = "segments" /\ scorer.segment > Len(Trajectory.segments)
  /\ IF Len(scorer.events) # Trajectory.count \/ HostLate THEN Raises
     ELSE LET judged == Judged(scorer.events)
          IN ReplyScore(BinaryScore(request.answer = request.target), "given", <<"accuracy">>,
                        [k \in DOMAIN judged |-> judged[k].id], FALSE)
  /\ HostUnchanged

-----------------------------------------------------------------------------
(* evaluate_harness and the Worker's run_harness.                          *)

\* Restoring the private data into its model and sending it back fills in the
\* optional fields the request left out: the Worker compares the two exactly.
Restored == request.private_complete

\* The report of a backend's harness.
Reports == [status : {"ok", "error"}, success : BOOLEAN, passed : 0..1, run : 0..1]

\* As a bug: the harness report's verdict is used whatever its status is.
ReportAccepted_Variant(r) == r.passed <= r.run

ReportAccepted(r) == r.passed <= r.run /\ r.status = "ok"

ScoreHarness ==
  /\ scorer.at = "harness" /\ Served
  /\ \/ (HostLate \/ ~request.private \/ ~request.plan) /\ Raises
     \/ /\ ~HostLate /\ request.private /\ request.plan
        /\ \/ CallbackRefused
           \/ CallbackError = "none" /\ ~Restored /\ ReplyError("HARNESS_INPUT_MISMATCH")
           \/ CallbackError = "none" /\ Restored /\ request \in Contested /\ ReplyError("HARNESS_FAILED")
           \/ /\ CallbackError = "none" /\ Restored
              /\ scorer' = [scorer EXCEPT !.at = "report"] /\ UNCHANGED reply
  /\ HostUnchanged

\* The Worker looks at the clock again when the harness is back, then the
\* host checks the report.
HarnessReturns ==
  /\ scorer.at = "report"
  /\ \/ CallbackRefused /\ UNCHANGED report
     \/ /\ CallbackError = "none"
        /\ \E r \in Reports :
             /\ report' = r
             /\ IF ReportAccepted(r) THEN Binary(BinaryScore(r.success), "resolved") ELSE Raises
  /\ UNCHANGED <<request, time, cancelled, worker, host, score, cleanup>>

-----------------------------------------------------------------------------
(* What the Worker does with the answer.                                   *)

WorkerUnchanged == UNCHANGED <<request, time, cancelled, host, reply, report, cleanup>>

\* The answer to scorer.score arrives.
ScorerReplied ==
  /\ worker = "scoring" /\ scorer.at = "replied" /\ ~scorer.overdue
  /\ scorer' = [scorer EXCEPT !.at = "idle"]
  /\ \/ reply.kind = "error" /\ Fail(reply.code)
     \/ reply.kind = "score" /\ worker' = "candidate" /\ UNCHANGED score
  /\ WorkerUnchanged

\* validate_candidate_score: a reward, distinct metric names, no system field.
CandidateError ==
  CASE reply.value.system -> "SCORER_RESULT_FIELDS_INVALID"
    [] ~reply.value.system /\ reply.value.reward # "given" -> "SCORER_REWARD_REQUIRED"
    [] ~reply.value.system /\ reply.value.reward = "given"
       /\ Cardinality(Range(reply.value.metrics)) # Len(reply.value.metrics) -> "DUPLICATE_METRIC_NAME"
    [] OTHER -> "none"

CheckCandidate ==
  /\ worker = "candidate"
  /\ LET error == IF ContextError # "none" THEN ContextError ELSE CandidateError
     IN IF error # "none" THEN Fail(error) ELSE worker' = "rewards" /\ UNCHANGED score
  /\ WorkerUnchanged /\ UNCHANGED scorer

AllEvents(trajectory) == FlattenSeq(trajectory.segments)

\* The places of the generations, and the ids found at some places.
Generations(events) == {k \in DOMAIN events : events[k].kind = "generation"}
Ids(events, places) == {events[k].id : k \in places}

\* Generation ids that may be scored: those of generations with a response or tool calls.
ScorableIds(events) == Ids(events, {k \in Generations(events) : events[k].response # "none"})

\* validate_generation_rewards: the Worker reads the checkpoint again, whole,
\* and admits each of its scorable generations at most once.
RewardsError(task, trajectory, scored) ==
  LET events == AllEvents(trajectory)
      ids == Ids(events, Generations(events))
      foreign == \/ trajectory.status # "scoring_checkpoint" \/ trajectory.task # task
                 \/ \E k \in DOMAIN events : events[k].attempt # trajectory.attempt
      incomplete == \/ Len(events) # trajectory.count
                    \/ \E k \in DOMAIN events : events[k].sequence # k - 1
  IN IF scored = <<>> THEN "none"
     ELSE IF foreign THEN "SCORING_TRAJECTORY_IDENTITY_MISMATCH"
     ELSE IF incomplete THEN "INCOMPLETE_SCORING_TRAJECTORY"
     ELSE IF Cardinality(ids) # Cardinality(Generations(events)) THEN "INVALID_TRAJECTORY_GENERATION_ID"
     ELSE IF ~(Range(scored) \subseteq ScorableIds(events)) \/ Cardinality(Range(scored)) # Len(scored)
     THEN "INVALID_SCORED_GENERATION_ID" ELSE "none"

CheckRewards ==
  /\ worker = "rewards"
  /\ LET error == IF reply.value.generations # <<>> /\ ContextError # "none" THEN ContextError
                  ELSE RewardsError(request.task, Trajectory, reply.value.generations)
     IN IF error # "none" THEN Fail(error) ELSE worker' = "accepted" /\ UNCHANGED score
  /\ WorkerUnchanged /\ UNCHANGED scorer

\* The last look at the clock; then status and scorer are filled in.
Accept ==
  /\ worker = "accepted"
  /\ \/ ContextError # "none" /\ Fail(ContextError)
     \/ /\ ContextError = "none"
        /\ score' = [NoScore EXCEPT !.status = "ok", !.success = reply.value.success,
                                    !.generations = reply.value.generations]
        /\ worker' = "scored"
  /\ WorkerUnchanged /\ UNCHANGED scorer

-----------------------------------------------------------------------------
(* Closing the host: host.close is a call like any other, with a limit of  *)
(* its own; a late answer to scorer.score that comes first fails it.  The  *)
(* process is killed in every case.                                        *)

BeginClose ==
  /\ worker = "scored"
  /\ IF cancelled \/ scorer.at = "killed"
     THEN worker' = "closed" /\ cleanup' = "failed" /\ scorer' = [scorer EXCEPT !.at = "killed"]
     ELSE worker' = "closing" /\ UNCHANGED <<cleanup, scorer>>
  /\ UNCHANGED <<request, time, cancelled, host, reply, report, score>>

HostClose ==
  /\ worker = "closing" /\ ~host.closed
  /\ host' = [host EXCEPT !.closed = TRUE, !.behind = scorer.at = "replied"]
  /\ UNCHANGED <<request, time, cancelled, worker, scorer, reply, report, score, cleanup>>

CloseReturns ==
  /\ worker = "closing"
  /\ cleanup' = IF host.closed /\ ~host.behind /\ ~cancelled THEN "completed" ELSE "failed"
  /\ worker' = "closed"
  /\ scorer' = [scorer EXCEPT !.at = "killed"]
  /\ UNCHANGED <<request, time, cancelled, host, reply, report, score>>

-----------------------------------------------------------------------------
TimePasses ==
  /\ time < Over /\ request \in Contested /\ worker # "closed"
  /\ time' = time + 1
  /\ UNCHANGED <<request, cancelled, worker, host, scorer, reply, report, score, cleanup>>

Cancel ==
  /\ ~cancelled /\ request \in Contested /\ worker # "closed"
  /\ cancelled' = TRUE
  /\ UNCHANGED <<request, time, worker, host, scorer, reply, report, score, cleanup>>

ScorerStep ==
  \/ ScoreCalled \/ ScoreText \/ ScoreProgress \/ ScoreAuthored \/ ScoreProcess
  \/ ReadManifest \/ ReadSegment \/ ScoreGenerations \/ ScoreHarness \/ HarnessReturns
  \/ HostClose

WorkerStep ==
  \/ RunScore \/ GiveUp \/ ScorerReplied \/ CheckCandidate \/ CheckRewards \/ Accept
  \/ BeginClose \/ CloseReturns

Next == ScorerStep \/ WorkerStep \/ TimePasses \/ Cancel

\* The Worker's thread runs, time passes, and a backend ends a harness within
\* the time it was given; nothing is assumed of a scorer.
Spec ==
  /\ Init /\ [][Next]_vars
  /\ WF_vars(WorkerStep) /\ WF_vars(TimePasses) /\ WF_vars(HarnessReturns)

-----------------------------------------------------------------------------
\* A score the Worker reports as ok is backed by evidence.  Rewarded
\* generations are distinct, answered generations of this task's complete
\* checkpoint, whichever scorer named them; a harness verdict is that of a
\* completed report; a host that was closed or called twice never scored.
\* (run_score, validate_generation_rewards, evaluate_harness)
OkScoreIsBacked ==
  score.status = "ok" =>
    /\ \A k \in DOMAIN score.generations :
         \E e \in Range(AllEvents(Trajectory)) :
           e.kind = "generation" /\ e.response # "none" /\ e.id = score.generations[k]
    /\ Cardinality(Range(score.generations)) = Len(score.generations)
    /\ score.generations # <<>> => /\ Trajectory.status = "scoring_checkpoint"
                                   /\ Trajectory.task = request.task
                                   /\ Len(AllEvents(Trajectory)) = Trajectory.count
    /\ request.rule = "harness" => /\ report.status = "ok" /\ report.passed <= report.run
                                   /\ score.success = BinaryScore(report.success)
    /\ request.declared

\* However a scorer behaves, the attempt gets a score, an error if need be,
\* and its host is closed: the deadline alone ends a scorer that hangs.
\* (RpcScorerHost.score, run_score)
ScoringEnds == request \in Contested => <>(worker = "closed" /\ score.status # "none")

\* A scorer that ran out of time is reported as timed out, never as a mere
\* scoring failure.  (docs/development/verification.md, line 342)
TimeoutIsReported ==
  score.message \in {"SCORER_TIMEOUT", "RPC_TIMEOUT"} => score.code = "SCORER_TIMEOUT"
=============================================================================
