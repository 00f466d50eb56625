---------------------------- MODULE AgentRuntime ----------------------------
(***************************************************************************)
(* The Worker's side of an agent's interaction (runtime.rs, AgentRuntime,  *)
(* BudgetEnforcer and the completeness flag of TrajectoryWriter) and the   *)
(* model transport it calls (model_host.py, model_provider.py).            *)
(*                                                                         *)
(* `rpc' is the agent's one outstanding request: the request, the Worker's *)
(* operation in progress, then the reply.  A generation is its index and   *)
(* the text it answered is identified with it.  The server chooses the ids *)
(* of the tool calls it proposes; a call's tool is a function of its id.   *)
(***************************************************************************)
EXTENDS Naturals, Sequences, FiniteSets, SequencesExt

CONSTANTS
  CallId,           \* tool call ids a model server may answer with
  ToolOf,           \* the tool each of them names
  MaxGenerations, MaxToolCalls, MaxOutputTokens,  \* Limits of the plan
  ConfiguredTokens, \* generation.max_output_tokens of the model
  TokenBound,       \* bound: tokens of one answer
  BatchBound        \* bound: tool calls of one answer

ASSUME AgentAssumption ==
  /\ MaxGenerations \in Nat /\ MaxToolCalls \in Nat /\ MaxOutputTokens \in Nat
  /\ ConfiguredTokens \in Nat \ {0}
  /\ TokenBound \in Nat /\ BatchBound \in Nat

VARIABLES
  clock,      \* which deadline has passed: "interaction", "reserve", "expired"
  cancelled,  \* the episode's cancellation flag
  bindings,   \* the plan's tools
  usage,      \* BudgetEnforcer.usage
  generated,  \* generated_calls: id |-> generation, as a set of pairs
  started,    \* tool_call_ids
  obs,        \* current_observation: "open", "terminated" or "truncated"
  denied,     \* budget_denied
  limited,    \* last_generation_limited
  trace,      \* the recorded events
  complete,   \* TrajectoryWriter.complete
  rpc

runtimeVars == <<clock, cancelled, bindings, usage, generated, started, obs,
                 denied, limited, trace, complete, rpc>>

LimitCodes == {"GENERATION_LIMIT", "OUTPUT_TOKEN_LIMIT", "TOOL_CALL_LIMIT",
               "FINALIZE_RESERVE_REACHED"}
Idle == [kind |-> "idle"]
Failed(code) == [kind |-> "error", code |-> code]
GeneratedIds == {p[1] : p \in generated}

RuntimeInit ==
  /\ clock = "interaction" /\ cancelled = FALSE
  /\ usage = [generations |-> 0, tools |-> 0, tokens |-> 0]
  /\ generated = {} /\ started = {}
  /\ obs \in {"open", "terminated"}
  /\ denied = FALSE /\ limited = FALSE
  /\ trace = <<>> /\ complete = TRUE /\ rpc = Idle

-----------------------------------------------------------------------------
Cancel ==
  /\ ~cancelled
  /\ cancelled' = TRUE
  /\ UNCHANGED <<clock, bindings, usage, generated, started, obs, denied, limited,
                 trace, complete, rpc>>

Tick ==
  /\ clock' = CASE clock = "interaction" -> "reserve" [] OTHER -> "expired"
  /\ clock # "expired"
  /\ UNCHANGED <<cancelled, bindings, usage, generated, started, obs, denied,
                 limited, trace, complete, rpc>>

\* As a bug: a tool call limit that is not noted as a budget denial.
Deny_Variant(code) ==
  /\ rpc' = Failed(code)
  /\ denied' = (denied \/ code \in LimitCodes \ {"TOOL_CALL_LIMIT"})

\* record_budget_denial: every refusal of generate or step passes through it.
Deny(code) ==
  /\ rpc' = Failed(code)
  /\ denied' = (denied \/ code \in LimitCodes)

\* As a bug: an environment that has ended is not asked about.
InteractionDenial_Variant ==
  IF cancelled THEN "EPISODE_CANCELLED"
  ELSE IF clock = "expired" THEN "EPISODE_TIMEOUT"
  ELSE IF clock = "reserve" THEN "FINALIZE_RESERVE_REACHED" ELSE ""

\* check_interaction_open, then remaining_interaction_ms; "" when both pass.
InteractionDenial ==
  IF cancelled THEN "EPISODE_CANCELLED"
  ELSE IF obs # "open" THEN "ENVIRONMENT_ALREADY_FINISHED"
  ELSE IF clock = "expired" THEN "EPISODE_TIMEOUT"
  ELSE IF clock = "reserve" THEN "FINALIZE_RESERVE_REACHED" ELSE ""

\* The rest of begin_model.
ModelDenial ==
  IF usage.generations >= MaxGenerations THEN "GENERATION_LIMIT"
  ELSE IF usage.tokens >= MaxOutputTokens THEN "OUTPUT_TOKEN_LIMIT" ELSE ""

GenerateRefused ==
  /\ rpc.kind = "generate"
  /\ \E code \in {IF InteractionDenial # "" THEN InteractionDenial ELSE ModelDenial} :
       code # "" /\ Deny(code)
  /\ UNCHANGED <<clock, cancelled, bindings, usage, generated, started, obs,
                 limited, trace, complete>>

\* The generation is counted and the trace is suspect before the model is
\* asked; the reservation of its usage may fail to persist.
GenerateStarts ==
  /\ rpc.kind = "generate" /\ InteractionDenial = "" /\ ModelDenial = ""
  /\ usage' = [usage EXCEPT !.generations = @ + 1]
  /\ complete' = FALSE
  /\ \/ /\ rpc' = [kind |-> "model", messages |-> rpc.messages, complete |-> complete,
                   allowed |-> IF ConfiguredTokens <= MaxOutputTokens - usage.tokens
                               THEN ConfiguredTokens ELSE MaxOutputTokens - usage.tokens]
        /\ UNCHANGED denied
     \/ Deny("STORAGE_WRITE_FAILED")
  /\ UNCHANGED <<clock, cancelled, bindings, generated, started, obs, limited, trace>>

-----------------------------------------------------------------------------
(* The model host.  A server's answer is a finish reason, proposed calls   *)
(* and a token count; the provider posts once and never retries.           *)

Batches == UNION {[1 .. n -> CallId] : n \in 0 .. BatchBound}
Answers == [finish : {"stop", "length", "tool_calls"}, calls : Batches,
            tokens : 0 .. TokenBound]

\* Why no answer is accepted, one code for each kind.  The host validates model,
\* messages and bindings; the provider refuses content that is not text, a
\* missing credential and any transport retry, before it posts; then the post
\* fails or what came back is too large, a refusal or not text.
HostErrors == {"COMPONENT_CALL_FAILED"}
CommandErrors == {"MODEL_RETRIES_NOT_SUPPORTED"}
AnswerErrors == {"MODEL_RESPONSE_LIMIT"}

\* OpenAIModelProvider.generate refuses calls of tools that were not selected.
ProviderAccepts(a) == \A i \in DOMAIN a.calls : ToolOf[a.calls[i]] \in bindings

\* validate_generation_trace: the finish reason agrees with the calls, whose
\* ids are new in this attempt and unique in this answer.
TraceValid(a) ==
  /\ (a.finish = "tool_calls") <=> (a.calls # <<>>)
  /\ IsInjective(a.calls)
  /\ Range(a.calls) \cap (GeneratedIds \cup started) = {}

\* As a bug: the trace is restored although no valid event returned.
ModelFails_Variant ==
  /\ rpc.kind = "model"
  /\ \E code \in HostErrors \cup CommandErrors \cup AnswerErrors : Deny(code)
  /\ complete' = rpc.complete
  /\ UNCHANGED <<clock, cancelled, bindings, usage, generated, started, obs,
                 limited, trace>>

\* Transport failures, refused content and refused answers alike.
ModelFails ==
  /\ rpc.kind = "model"
  /\ \E code \in HostErrors \cup CommandErrors \cup AnswerErrors : Deny(code)
  /\ UNCHANGED <<clock, cancelled, bindings, usage, generated, started, obs,
                 limited, trace, complete>>

GenerationEvent(a) ==
  [kind |-> "generation", gen |-> usage.generations, finish |-> a.finish,
   calls |-> a.calls, messages |-> rpc.messages]

\* finish_model adds the tokens before it compares them with the limit.
ModelAnswers(a) ==
  /\ rpc.kind = "model" /\ ProviderAccepts(a) /\ TraceValid(a)
  /\ usage' = [usage EXCEPT !.tokens = @ + a.tokens]
  /\ IF usage.tokens + a.tokens > MaxOutputTokens
     THEN Deny("OUTPUT_TOKEN_LIMIT") /\ UNCHANGED <<trace, complete, generated, limited>>
     ELSE IF a.tokens > rpc.allowed
     THEN Deny("MODEL_OUTPUT_LIMIT_EXCEEDED") /\ UNCHANGED <<trace, complete, generated, limited>>
     ELSE /\ trace' = Append(trace, GenerationEvent(a))
          /\ complete' = rpc.complete
          /\ generated' = generated \cup {<<c, usage.generations>> : c \in Range(a.calls)}
          /\ IF cancelled
             THEN Deny("EPISODE_CANCELLED") /\ UNCHANGED limited
             ELSE /\ rpc' = [kind |-> "generation", gen |-> usage.generations,
                             finish |-> a.finish, calls |-> a.calls]
                  /\ limited' = (a.finish = "length")
                  /\ UNCHANGED denied
  /\ UNCHANGED <<clock, cancelled, bindings, started, obs>>

\* The event, or the usage after it, could not be written.
GenerationNotRecorded(a) ==
  /\ rpc.kind = "model" /\ ProviderAccepts(a) /\ TraceValid(a)
  /\ usage.tokens + a.tokens <= MaxOutputTokens /\ a.tokens <= rpc.allowed
  /\ usage' = [usage EXCEPT !.tokens = @ + a.tokens]
  /\ Deny("STORAGE_WRITE_FAILED")
  /\ trace' \in {trace, Append(trace, GenerationEvent(a))}
  /\ UNCHANGED <<clock, cancelled, bindings, generated, started, obs, limited, complete>>

-----------------------------------------------------------------------------
(* step.  ToolStatus of a result the tool host returns; a failed call is   *)
(* recorded by the Worker with a synthetic result.                         *)

StepDenial(c) ==
  IF InteractionDenial \in {"EPISODE_CANCELLED", "ENVIRONMENT_ALREADY_FINISHED"}
  THEN InteractionDenial
  ELSE IF c \in started THEN "DUPLICATE_TOOL_CALL_ID"
  ELSE IF c \notin GeneratedIds THEN "TOOL_CALL_NOT_GENERATED"
  ELSE IF InteractionDenial # "" THEN InteractionDenial
  ELSE IF usage.tools >= MaxToolCalls THEN "TOOL_CALL_LIMIT" ELSE ""

\* tools.validate: the host's own checks of the binding and the arguments.
HostRefusals(c) == IF ToolOf[c] \in bindings THEN {"INVALID_TOOL_ARGUMENTS"}
                   ELSE {"TOOL_CALL_BINDING_MISMATCH"}

StepRefused ==
  /\ rpc.kind = "step"
  /\ \E code \in {StepDenial(rpc.call)} \cup
                 (IF StepDenial(rpc.call) \in {"", "TOOL_CALL_LIMIT"}
                  THEN HostRefusals(rpc.call) ELSE {}) :
       code # "" /\ Deny(code)
  /\ UNCHANGED <<clock, cancelled, bindings, usage, generated, started, obs,
                 limited, trace, complete>>

\* The call is counted, then its usage is persisted, then it is recorded;
\* only then is the trace suspect.
StepStarts ==
  /\ rpc.kind = "step" /\ StepDenial(rpc.call) = ""
  /\ usage' = [usage EXCEPT !.tools = @ + 1]
  /\ \/ /\ started' = started \cup {rpc.call}
        /\ trace' = Append(trace, [kind |-> "tool_call", call |-> rpc.call])
        /\ rpc' = [kind |-> "tool", call |-> rpc.call, complete |-> complete]
        /\ complete' = FALSE
        /\ UNCHANGED denied
     \/ /\ Deny("STORAGE_WRITE_FAILED")
        /\ UNCHANGED <<started, trace, complete>>
     \/ /\ started' = started \cup {rpc.call}
        /\ Deny("STORAGE_WRITE_FAILED") /\ complete' = FALSE
        /\ UNCHANGED trace
  /\ UNCHANGED <<clock, cancelled, bindings, generated, obs, limited>>

ToolStatus == {"ok", "error", "cancelled"}

ToolReturns(status, o) ==
  /\ rpc.kind = "tool"
  /\ status # "ok" => o = "open"
  /\ obs' = IF status = "ok" THEN o ELSE obs
  /\ trace' = Append(trace, [kind |-> "tool_result", call |-> rpc.call,
                             status |-> status, obs |-> o])
  /\ complete' = rpc.complete
  /\ IF cancelled
     THEN Deny("EPISODE_CANCELLED")
     ELSE /\ rpc' = [kind |-> "result", call |-> rpc.call, status |-> status, obs |-> o]
          /\ UNCHANGED denied
  /\ UNCHANGED <<clock, cancelled, bindings, usage, generated, started, limited>>

\* The host failed: its effects are unknown, so the trace stays incomplete.
ToolFails ==
  /\ rpc.kind = "tool"
  /\ trace' \in {trace, Append(trace, [kind |-> "tool_result", call |-> rpc.call,
                                       status |-> "failed", obs |-> "open"])}
  /\ Deny("TOOL_HOST_FAILED")
  /\ UNCHANGED <<clock, cancelled, bindings, usage, generated, started, obs,
                 limited, complete>>

\* The result could not be written: the Worker has already taken its observation.
ResultNotRecorded(o) ==
  /\ rpc.kind = "tool"
  /\ obs' = o
  /\ Deny("STORAGE_WRITE_FAILED")
  /\ UNCHANGED <<clock, cancelled, bindings, usage, generated, started, limited,
                 trace, complete>>

RuntimeReplies ==
  \/ GenerateRefused \/ GenerateStarts \/ ModelFails
  \/ \E a \in Answers : ModelAnswers(a) \/ GenerationNotRecorded(a)
  \/ StepRefused \/ StepStarts \/ ToolFails
  \/ \E status \in ToolStatus, o \in {"open", "terminated", "truncated"} : ToolReturns(status, o)
  \/ \E o \in {"open", "terminated"} : ResultNotRecorded(o)

\* termination_reason, derived from what the Worker observed.
TerminationReason ==
  CASE obs = "terminated" -> "environment_terminal"
    [] obs = "truncated" -> "environment_truncated"
    [] obs = "open" /\ (denied \/ limited \/ clock # "interaction") -> "budget_exhausted"
    [] OTHER -> "final_answer"
=============================================================================
