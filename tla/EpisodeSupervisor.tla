------------------------- MODULE EpisodeSupervisor --------------------------
(***************************************************************************)
(* One attempt on a Worker, from its dispatch to the result in the ledger: *)
(* EpisodeSupervisor.execute with the hosts it drives, the trajectory it   *)
(* writes (TrajectoryWriter) to the attempt's durable spool (EventSpool),  *)
(* and recover_interrupted, which settles what a Worker that died has left *)
(* behind.  Hosts may fail in every call, storage in every write, and the  *)
(* Worker may die between any two steps.                                   *)
(*                                                                         *)
(* An event is its sequence number.  What an agent may ask for is in       *)
(* AgentRuntime, what a scorer does in Scoring: here a model or tool call  *)
(* is what it costs and what it leaves in the spool, a score is its code.  *)
(***************************************************************************)
EXTENDS Naturals, Sequences

CONSTANTS
  MaxGenerations, MaxToolCalls, MaxOutputTokens,  \* the plan's limits
  ConfiguredTokens,  \* generation.max_output_tokens of the plan's model
  Consumed,          \* consumed_usage of the dispatch
  TokenBound,        \* bound: tokens of one answer
  MaxFaults,         \* bound: writes that fail
  MaxCrashes         \* bound: deaths of the Worker

Usage == [generations : Nat, tools : Nat, tokens : Nat]

ASSUME SupervisorAssumption ==
  /\ MaxGenerations \in Nat /\ MaxToolCalls \in Nat /\ MaxOutputTokens \in Nat
  /\ ConfiguredTokens \in Nat /\ TokenBound \in Nat /\ MaxFaults \in Nat /\ MaxCrashes \in Nat
  /\ Consumed \in Usage

VARIABLES
  stage,      \* where execute, or the recovery, is
  scored,     \* the plan has scoring enabled: a scorer host is given
  clock,      \* the deadlines that have passed: none yet, the "reserve", all ("expired")
  cancelled,  \* the episode's cancellation flag
  usage,      \* BudgetEnforcer.usage
  op,         \* the model or tool call under way, with its previous_complete
  writer,     \* TrajectoryWriter: next_sequence, the numbers of its events, complete
  spool,      \* the attempt's directory: reservations, events, usage records
  faults,
  fault,      \* the code of the attempt's error
  score,      \* the score: none, "ok" or the code of its error
  completed,  \* run_components returned an answer
  closed,     \* how the close of each host ended
  cleanup,    \* cleanup_status
  result,     \* what the ledger has of the attempt
  spent,      \* history: calls made, and every token the models have produced
  unanswered, \* history: those of the tokens whose generation failed
  uncovered,  \* history: those that no usage record on the disk allows for
  outcomes,   \* history: calls whose outcome is in the trace
  crashes

world == <<scored, clock, cancelled>>
budget == <<usage, op>>
trace == <<writer, spool, faults>>
answer == <<score, completed>>
ending == <<closed, cleanup, result>>
produced == <<spent, unanswered, uncovered>>
history == <<spent, unanswered, uncovered, outcomes, crashes>>
vars == <<stage, world, budget, trace, fault, answer, ending, history>>

Hosts == {"scorer", "agent", "tools", "environment", "backend"}
\* The scorer host is given exactly if the plan has scoring enabled.
Given == IF scored THEN Hosts ELSE Hosts \ {"scorer"}

NoOp == [at |-> "none", allowed |-> 0, complete |-> FALSE]
NewWriter == [next |-> 0, events |-> {}, complete |-> TRUE]
NoResult == [by |-> "none"]

Init ==
  /\ stage = "admit" /\ scored \in BOOLEAN /\ clock = "running" /\ cancelled = FALSE
  /\ usage = Consumed /\ op = NoOp
  /\ writer = NewWriter /\ spool = [reserved |-> {}, events |-> {}, usage |-> <<>>] /\ faults = 0
  /\ fault = "none" /\ score = "none" /\ completed = FALSE
  /\ closed = [h \in Hosts |-> "open"] /\ cleanup = "none" /\ result = NoResult
  /\ spent = Consumed /\ unanswered = 0 /\ uncovered = 0 /\ outcomes = 0 /\ crashes = 0

-----------------------------------------------------------------------------
(* Storage.                                                                *)

StorageFails == faults < MaxFaults /\ faults' = faults + 1

Reserved(n) == [spool EXCEPT !.reserved = @ \cup {n}]
Appended(n) == [spool EXCEPT !.reserved = @ \cup {n}, !.events = @ \cup {n}]

\* record: the number is taken, reserved and the event appended.  A number that
\* is reserved already is refused.  Any failure makes the trace partial, and may
\* leave the reservation, or the event, on the disk.  complete is what the
\* caller makes of the flag after it.
Record(ok, complete) ==
  \/ /\ ok /\ writer.next \notin spool.reserved
     /\ spool' = Appended(writer.next)
     /\ writer' = [next |-> writer.next + 1, events |-> writer.events \cup {writer.next},
                   complete |-> complete]
     /\ UNCHANGED faults
  \/ /\ ~ok /\ StorageFails
     /\ spool' \in {spool, Reserved(writer.next), Appended(writer.next)}
     /\ writer' = [writer EXCEPT !.next = @ + 1, !.complete = FALSE]

\* persist_usage: one more usage record, which a failure may leave behind too.
\* It has every answer counted so far and takes the place of the records before
\* it: what a failed generation had reserved is gone.
PersistUsage(ok, value) ==
  /\ IF ok THEN UNCHANGED faults ELSE StorageFails
  /\ \/ spool' = [spool EXCEPT !.usage = Append(@, value)] /\ uncovered' = unanswered
     \/ ~ok /\ UNCHANGED <<spool, uncovered>>

\* checkpoint, seal: the manifest is written, or not.
WriteManifest(ok) == IF ok THEN UNCHANGED faults ELSE StorageFails

\* EventSpool::recover: beyond every numbered file, usage records included.
NextFree(s) ==
  LET numbers == s.reserved \cup s.events \cup {k - 1 : k \in DOMAIN s.usage}
  IN CHOOSE n \in {0} \cup {k + 1 : k \in numbers} : \A k \in numbers : k < n

Larger(m, n) == IF m > n THEN m ELSE n

\* recovered_usage: of the usage records only the last counts.
RecoveredUsage(s) ==
  LET last == IF s.usage = <<>> THEN Consumed ELSE s.usage[Len(s.usage)]
  IN [generations |-> Larger(Consumed.generations, last.generations),
      tools |-> Larger(Consumed.tools, last.tools),
      tokens |-> Larger(Consumed.tokens, last.tokens)]

-----------------------------------------------------------------------------
(* execute, up to the agent.                                               *)

\* An error of execute itself: no result, the claim stays in the ledger.
GivesUp == stage' = "stuck" /\ UNCHANGED fault

Goes(next) == stage' = next /\ UNCHANGED fault
Fails(code) == stage' = "failing" /\ fault' = code

\* check_total, remaining_interaction_ms, remaining_finalize_ms
Late(limit) ==
  IF clock = "expired" THEN "EPISODE_TIMEOUT"
  ELSE IF clock = "reserve" /\ limit = "interaction" THEN "FINALIZE_RESERVE_REACHED"
  ELSE "none"

WithinLimits(u) == /\ u.generations <= MaxGenerations /\ u.tools <= MaxToolCalls
                   /\ u.tokens <= MaxOutputTokens

\* What comes before the cleanup domain: the checks of the dispatch, of the
\* flag, of capabilities, usage and time, and the opening of an unused spool.
Admit ==
  /\ stage = "admit"
  /\ \/ GivesUp
     \/ ~cancelled /\ WithinLimits(usage) /\ Late("finalize") = "none" /\ Goes("open")
  /\ UNCHANGED <<world, budget, trace, answer, ending, history>>

\* A failure, an answer that is not accepted included, and a timeout.
HostErrors == {"COMPONENT_CALL_FAILED", "RPC_TIMEOUT"}

\* One call of a host under a deadline, with the check of the flag after it.
Call(at, limit, checked, next) ==
  /\ stage = at
  /\ IF Late(limit) # "none" THEN Fails(Late(limit))
     ELSE \/ \E code \in HostErrors : Fails(code)
          \/ checked /\ cancelled /\ Fails("EPISODE_CANCELLED")
          \/ ~(checked /\ cancelled) /\ Goes(next)
  /\ UNCHANGED <<world, budget, trace, answer, ending, history>>

\* A record whose failure fails the attempt.
Phase(at, next) ==
  /\ stage = at
  /\ \E ok \in BOOLEAN : /\ Record(ok, writer.complete)
                         /\ IF ok THEN Goes(next) ELSE Fails("STORAGE_IO")
  /\ UNCHANGED <<world, budget, answer, ending, history>>

Prepare ==
  \/ Call("open", "interaction", FALSE, "preparing") \/ Phase("preparing", "environment")
  \/ Call("environment", "interaction", TRUE, "tools")
  \/ Call("tools", "interaction", TRUE, "agent")
  \/ Call("agent", "interaction", TRUE, "reset")

\* The trace is partial from the call until the observation is in it; a definite
\* error of the component is an outcome; the loss of the process, or of an
\* observation that can be read, is not.
Reset ==
  /\ stage = "reset"
  /\ IF Late("interaction") # "none" THEN Fails(Late("interaction")) /\ UNCHANGED writer
     ELSE \/ Fails("COMPONENT_CALL_FAILED") /\ UNCHANGED writer
          \/ /\ \E code \in {"RPC_CLOSED", "RPC_TIMEOUT"} : Fails(code)
             /\ writer' = [writer EXCEPT !.complete = FALSE]
          \/ cancelled /\ Fails("EPISODE_CANCELLED") /\ writer' = [writer EXCEPT !.complete = FALSE]
          \/ ~cancelled /\ Goes("observed") /\ UNCHANGED writer
  /\ UNCHANGED <<world, budget, spool, faults, answer, ending, history>>

StartAgent ==
  /\ stage = "start"
  /\ IF Late("interaction") # "none" THEN Fails(Late("interaction")) ELSE Goes("interacting")
  /\ UNCHANGED <<world, budget, trace, answer, ending, history>>

-----------------------------------------------------------------------------
(* AgentRuntime: what the agent asks for while it runs.                    *)

\* check_interaction_open and the deadline; refusals change nothing.
Serving(at) == stage = "interacting" /\ op.at = at
MayBegin == Serving("none") /\ ~cancelled /\ Late("interaction") = "none"

served == <<stage, world, fault, answer, ending, crashes>>

\* As a bug: the call is reserved, its tokens are not.
Reservation_Variant(u, allowed) == u

\* What a generation may cost at most.
Reservation(u, allowed) == [u EXCEPT !.tokens = @ + allowed]

\* generate, up to the call of the model: counted, the trace suspect, reserved.
BeginGeneration ==
  /\ MayBegin /\ usage.generations < MaxGenerations /\ usage.tokens < MaxOutputTokens
  /\ LET remaining == MaxOutputTokens - usage.tokens
         allowed == IF ConfiguredTokens < remaining THEN ConfiguredTokens ELSE remaining
         counted == [usage EXCEPT !.generations = @ + 1]
     IN \E ok \in BOOLEAN :
          /\ PersistUsage(ok, Reservation(counted, allowed))
          /\ usage' = counted
          /\ IF ok THEN /\ op' = [at |-> "model", allowed |-> allowed, complete |-> writer.complete]
                        /\ spent' = [spent EXCEPT !.generations = @ + 1]
             ELSE UNCHANGED <<op, spent>>
  /\ writer' = [writer EXCEPT !.complete = FALSE]
  /\ UNCHANGED <<served, unanswered, outcomes>>

\* The model under way has produced this much, within its allowance or not.
Produces(tokens) ==
  /\ spent' = [spent EXCEPT !.tokens = @ + tokens]
  /\ uncovered' = IF tokens > op.allowed THEN uncovered + (tokens - op.allowed) ELSE uncovered

\* No valid event: the call failed, and whatever the model had produced by then
\* is not counted.
ModelFails ==
  /\ Serving("model")
  /\ \E tokens \in 0..TokenBound : Produces(tokens) /\ unanswered' = unanswered + tokens
  /\ op' = NoOp
  /\ UNCHANGED <<served, usage, trace, outcomes>>

\* As a bug: the limit is checked before the tokens are counted.
Counted_Variant(tokens) ==
  IF usage.tokens + tokens > MaxOutputTokens THEN usage ELSE [usage EXCEPT !.tokens = @ + tokens]

\* finish_model: counted before the limit is checked.
Counted(tokens) == [usage EXCEPT !.tokens = @ + tokens]

\* The event is valid.  An answer over a limit is counted, but nothing is written
\* of it.
ModelAnswers ==
  /\ Serving("model")
  /\ \E tokens \in 0..TokenBound :
       /\ Produces(tokens)
       /\ usage' = Counted(tokens)
       /\ op' = IF tokens > op.allowed \/ usage'.tokens > MaxOutputTokens
                THEN NoOp ELSE [op EXCEPT !.at = "answer"]
  /\ UNCHANGED <<served, trace, unanswered, outcomes>>

RecordGeneration ==
  /\ Serving("answer")
  /\ \E ok \in BOOLEAN :
       /\ Record(ok, FALSE)
       /\ IF ok THEN op' = [op EXCEPT !.at = "settle"] /\ outcomes' = outcomes + 1
          ELSE op' = NoOp /\ UNCHANGED outcomes
  /\ UNCHANGED <<served, usage, produced>>

SettleGeneration ==
  /\ Serving("settle")
  /\ \E ok \in BOOLEAN :
       /\ PersistUsage(ok, usage)
       /\ writer' = [writer EXCEPT !.complete = ok /\ op.complete]
  /\ op' = NoOp
  /\ UNCHANGED <<served, usage, spent, unanswered, outcomes>>

\* step, up to its event: counted and reserved.
BeginTool ==
  /\ MayBegin /\ usage.tools < MaxToolCalls
  /\ usage' = [usage EXCEPT !.tools = @ + 1]
  /\ \E ok \in BOOLEAN :
       /\ PersistUsage(ok, usage')
       /\ op' = IF ok THEN [NoOp EXCEPT !.at = "tool_call"] ELSE NoOp
  /\ UNCHANGED <<served, writer, spent, unanswered, outcomes>>

\* The call is in the trace before the tool host gets it.
CallTool ==
  /\ Serving("tool_call")
  /\ \E ok \in BOOLEAN :
       /\ Record(ok, FALSE)
       /\ IF ok THEN /\ op' = [NoOp EXCEPT !.at = "tool", !.complete = writer.complete]
                     /\ spent' = [spent EXCEPT !.tools = @ + 1]
          ELSE op' = NoOp /\ UNCHANGED spent
  /\ UNCHANGED <<served, usage, unanswered, uncovered, outcomes>>

\* A result, or an error that stands for it; after the latter the trace stays
\* suspect.
ToolReturns ==
  /\ Serving("tool")
  /\ \E ok, valid \in BOOLEAN :
       /\ Record(ok, valid /\ op.complete)
       /\ outcomes' = IF ok THEN outcomes + 1 ELSE outcomes
  /\ op' = NoOp
  /\ UNCHANGED <<served, usage, produced>>

\* agent.run returns or is given up; its requests are served one at a time.
AgentReturns ==
  /\ Serving("none")
  /\ \/ \E code \in HostErrors : Fails(code)
     \/ Late("interaction") # "none" /\ Fails(Late("interaction"))
     \/ cancelled /\ Fails("EPISODE_CANCELLED")
     \/ ~cancelled /\ Goes("finalizing")
  /\ UNCHANGED <<world, budget, trace, answer, ending, history>>

Interact ==
  \/ BeginGeneration \/ ModelFails \/ ModelAnswers \/ RecordGeneration \/ SettleGeneration
  \/ BeginTool \/ CallTool \/ ToolReturns \/ AgentReturns

-----------------------------------------------------------------------------
(* execute, after the agent.                                               *)

\* Without a scorer the attempt is complete once everything is frozen.
Finalized ==
  /\ stage = "finalized"
  /\ IF cancelled \/ Late("finalize") # "none"
     THEN Fails(IF cancelled THEN "EPISODE_CANCELLED" ELSE Late("finalize")) /\ UNCHANGED completed
     ELSE Goes(IF scored THEN "snapshot" ELSE "cleaning") /\ completed' = ~scored
  /\ UNCHANGED <<world, budget, trace, score, ending, history>>

Checkpoint ==
  /\ stage = "checkpoint"
  /\ \E ok \in BOOLEAN :
       /\ WriteManifest(ok)
       /\ writer' = [writer EXCEPT !.complete = @ /\ ok]
       /\ IF ok /\ Late("finalize") = "none" THEN Goes("score")
          ELSE Fails(IF ok THEN Late("finalize") ELSE "STORAGE_IO")
  /\ UNCHANGED <<world, budget, spool, answer, ending, history>>

\* run_score: always a score, if need be an error.
Score ==
  /\ stage = "score"
  /\ \/ ~cancelled /\ clock # "expired" /\ score' = "ok"
     \/ cancelled /\ score' = "EPISODE_CANCELLED"
     \/ clock = "expired" /\ score' = "SCORER_TIMEOUT"
     \/ score' = "SCORER_FAILED"
  /\ Goes("scored")
  /\ UNCHANGED <<world, budget, trace, completed, ending, history>>

\* The score is kept even when its event is not; its error is the attempt's.
RecordScore ==
  /\ stage = "scored"
  /\ \E ok \in BOOLEAN : Record(ok, writer.complete)
  /\ IF score = "ok" THEN Goes("cleaning") ELSE Fails(score)
  /\ completed' = TRUE
  /\ UNCHANGED <<world, budget, score, ending, history>>

Finalize ==
  \/ Phase("finalizing", "freeze_tools")
  \/ Call("freeze_tools", "finalize", FALSE, "freeze_backend")
  \/ Call("freeze_backend", "finalize", FALSE, "finalized")
  \/ Finalized
  \/ Call("snapshot", "finalize", TRUE, "scoring") \/ Phase("scoring", "checkpoint")
  \/ Checkpoint \/ Score \/ RecordScore

-----------------------------------------------------------------------------
(* execute, the end of every attempt that entered the cleanup domain.      *)

\* A record whose failure only makes the trace partial.
Log(at, next) ==
  /\ stage = at /\ Goes(next)
  /\ \E ok \in BOOLEAN : Record(ok, writer.complete)
  /\ UNCHANGED <<world, budget, answer, ending, history>>

\* As a bug: the first failure ends the closing.
CloseHost_Variant(at, host, next) ==
  /\ stage = at
  /\ \E end \in {"ok", "failed"} :
       closed' = [closed EXCEPT ![host] = end] /\ Goes(IF end = "ok" THEN next ELSE "conclude")
  /\ UNCHANGED <<world, budget, trace, answer, cleanup, result, history>>

\* A host is closed however the one before it was.
CloseHost(at, host, next) ==
  /\ stage = at /\ Goes(next)
  /\ \E end \in {"ok", "failed"} : closed' = [closed EXCEPT ![host] = end]
  /\ UNCHANGED <<world, budget, trace, answer, cleanup, result, history>>

\* cleanup_status, with its event when something failed.
Conclude ==
  /\ stage = "conclude" /\ Goes("terminal")
  /\ IF \A h \in Given : closed[h] = "ok"
     THEN cleanup' = "completed" /\ UNCHANGED trace
     ELSE cleanup' = "failed" /\ \E ok \in BOOLEAN : Record(ok, writer.complete)
  /\ UNCHANGED <<world, budget, answer, closed, result, history>>

Cleanup ==
  \/ Log("failing", "cleaning")
  \/ Log("cleaning", IF scored THEN "close_scorer" ELSE "close_agent")
  \/ CloseHost("close_scorer", "scorer", "close_agent")
  \/ CloseHost("close_agent", "agent", "close_tools")
  \/ CloseHost("close_tools", "tools", "close_environment")
  \/ CloseHost("close_environment", "environment", "close_backend")
  \/ CloseHost("close_backend", "backend", "conclude")
  \/ Conclude

\* The reading of an error code.
ExecutionStatus ==
  IF fault = "none" THEN "completed"
  ELSE IF fault \in {"RPC_TIMEOUT", "EPISODE_TIMEOUT", "SCORER_TIMEOUT", "FINALIZE_RESERVE_REACHED"}
       THEN "timeout"
  ELSE IF fault = "EPISODE_CANCELLED" THEN "cancelled" ELSE "failed"

\* seal: sealing may still fail, which leaves no result.
Seal ==
  /\ stage = "seal"
  /\ \E ok \in BOOLEAN : WriteManifest(ok) /\ IF ok THEN Goes("finish") ELSE GivesUp
  /\ UNCHANGED <<world, budget, writer, spool, answer, ending, history>>

\* validate_result_for_plan
Accepted(r) ==
  /\ r.score # "none" => scored
  /\ r.status = "completed" => r.answer /\ (scored => r.score = "ok")

ExecuteResult ==
  [by |-> "execute", status |-> ExecutionStatus, error |-> fault, retryable |-> FALSE,
   cleanup |-> cleanup, trajectory |-> IF writer.complete THEN "final_complete" ELSE "final_partial",
   events |-> writer.events, usage |-> usage, answer |-> completed, score |-> score]

\* The result is checked against the plan and finished in the ledger, or not.
Finish ==
  /\ stage = "finish"
  /\ \/ IF Accepted(ExecuteResult) THEN result' = ExecuteResult /\ Goes("finished")
        ELSE Goes("refused") /\ UNCHANGED result
     \/ GivesUp /\ UNCHANGED result
  /\ UNCHANGED <<world, budget, trace, answer, closed, cleanup, history>>

Conclusion == Log("terminal", "seal") \/ Seal \/ Finish

-----------------------------------------------------------------------------
(* The Worker dies, and recover_interrupted.                               *)

\* Everything in memory is lost; a model call under way has produced something.
Crash ==
  /\ stage \notin {"down", "finished"} /\ crashes < MaxCrashes
  /\ stage' = "down" /\ fault' = "WORKER_RESTART" /\ crashes' = crashes + 1
  /\ IF op.at = "model" THEN \E tokens \in 0..TokenBound : Produces(tokens)
     ELSE UNCHANGED <<spent, uncovered>>
  /\ usage' = Consumed /\ op' = NoOp /\ writer' = [NewWriter EXCEPT !.complete = FALSE]
  /\ score' = "none" /\ completed' = FALSE /\ closed' = [h \in Hosts |-> "open"] /\ cleanup' = "none"
  /\ UNCHANGED <<world, spool, faults, result, unanswered, outcomes>>

\* Cleanup of what the attempt left, then its spool is read.
Recover ==
  /\ stage = "down" /\ Goes("recovered")
  /\ cleanup' \in {"completed", "failed"}
  /\ usage' = RecoveredUsage(spool)
  /\ writer' = [next |-> NextFree(spool), events |-> spool.events, complete |-> FALSE]
  /\ UNCHANGED <<world, op, spool, faults, answer, closed, result, history>>

\* An error ends the recovery; the next start tries again.
RecoveryStep(at, next) ==
  /\ stage = at /\ UNCHANGED fault
  /\ \E ok \in BOOLEAN : Record(ok, FALSE) /\ stage' = IF ok THEN next ELSE "down"
  /\ UNCHANGED <<world, budget, answer, ending, history>>

RecoverySeal ==
  /\ stage = "recovery_seal" /\ UNCHANGED fault
  /\ \E ok \in BOOLEAN : WriteManifest(ok) /\ stage' = IF ok THEN "recovery_finish" ELSE "down"
  /\ UNCHANGED <<world, budget, writer, spool, answer, ending, history>>

RecoveryResult ==
  [by |-> "recovery", status |-> "failed", error |-> fault, retryable |-> cleanup = "completed",
   cleanup |-> cleanup, trajectory |-> "final_partial", events |-> writer.events, usage |-> usage,
   answer |-> FALSE, score |-> "none"]

RecoveryFinish ==
  /\ stage = "recovery_finish" /\ UNCHANGED fault
  /\ \/ result' = RecoveryResult /\ stage' = "finished" /\ UNCHANGED faults
     \/ StorageFails /\ stage' = "down" /\ UNCHANGED result
  /\ UNCHANGED <<world, budget, writer, spool, answer, closed, cleanup, history>>

Recovery ==
  \/ Crash \/ Recover \/ RecoveryStep("recovered", "recovery_error")
  \/ RecoveryStep("recovery_error", "recovery_seal") \/ RecoverySeal \/ RecoveryFinish

-----------------------------------------------------------------------------
\* The Server's flag, and the Worker's monotonic clock, as long as something
\* reads them.
Cancel ==
  /\ fault = "none" /\ ~completed /\ ~cancelled /\ cancelled' = TRUE
  /\ UNCHANGED <<stage, scored, clock, budget, trace, fault, answer, ending, history>>

TimePasses ==
  /\ fault = "none" /\ ~completed /\ clock # "expired"
  /\ clock' = IF clock = "running" THEN "reserve" ELSE "expired"
  /\ UNCHANGED <<stage, scored, cancelled, budget, trace, fault, answer, ending, history>>

Start == Admit \/ Prepare \/ Reset \/ Phase("observed", "running") \/ Phase("running", "start") \/ StartAgent

Next == Start \/ Interact \/ Finalize \/ Cleanup \/ Conclusion \/ Recovery \/ Cancel \/ TimePasses

Spec == Init /\ [][Next]_vars

-----------------------------------------------------------------------------
\* execute never refuses the result it made itself, whichever phase failed.
\* (supervisor.rs, validate_result_for_plan)
NothingIsRefused == stage # "refused"

\* Whatever failed before and while closing, every host that was given has been
\* closed by then, and the cleanup is called completed exactly if each close was.
\* (supervisor.rs, execute)
CleanupIsTold ==
  result.by = "execute" =>
    /\ \A h \in Given : closed[h] # "open"
    /\ result.cleanup = "completed" <=> \A h \in Given : closed[h] = "ok"

\* A trajectory that is called complete misses no number, and the outcome of
\* every model and tool call of the attempt is among its events, although any
\* write of any of them may have failed.  (TrajectoryWriter, AgentRuntime)
CompleteTraceIsWhole ==
  (result.by # "none" /\ result.trajectory = "final_complete") =>
    /\ result.by = "execute" /\ result.events = 0..(writer.next - 1)
    /\ spent.generations + spent.tools = Consumed.generations + Consumed.tools + outcomes

\* A result claims no more than happened: it says how the cleanup went, calls
\* no trace complete that has a gap, and comes with an error exactly if it is
\* not completed, which a scored attempt is only with an ok score.
ResultIsHonest ==
  /\ NothingIsRefused /\ CleanupIsTold /\ CompleteTraceIsWhole
  /\ result.by # "none" =>
       /\ result.status = "completed" <=> result.error = "none"
       /\ result.status = "completed" => result.answer /\ (scored <=> result.score = "ok")

\* An attempt settles every generation and tool call it has made, and every
\* token of its models but these: execute leaves out what failed generations
\* produced, and nothing else, an answer over its limit included.  A recovery
\* goes by the last usage record: a generation that was under way, or has
\* failed since, is covered by its reservation up to its allowance, as is an
\* answer over it; what it misses beyond that is the failed generations whose
\* reservations later records have replaced.  No death, no failed write and no
\* order of writing and calling loses more.  (BudgetEnforcer, persist_usage,
\* recovered_usage)
UsageIsConservative ==
  result.by # "none" =>
    /\ result.usage.generations >= spent.generations
    /\ result.usage.tools >= spent.tools
    /\ result.by = "execute" => result.usage.tokens + unanswered = spent.tokens
    /\ result.by = "recovery" => result.usage.tokens + uncovered >= spent.tokens
=============================================================================
