----------------------------- MODULE AgentHost ------------------------------
(***************************************************************************)
(* The agent process: its host (component_host.py), the context it gives   *)
(* the agent (agent_context.py), the two agents (agents.py PlainAgent and  *)
(* integrations/openhands.py) and the MCP server that OpenHands reaches    *)
(* Python tools through (interfaces/mcp_server.py), composed with the      *)
(* Worker's AgentRuntime.                                                  *)
(*                                                                         *)
(* `policy' selects the agent: PlainAgent with one of its two history      *)
(* policies, or OpenHands.  OpenHands itself is external: it alternates    *)
(* completions with the calls of the last answer, in order, turns a failed *)
(* MCP call into an error message and propagates a failed native call.  It *)
(* may rewrite the arguments of a call before it makes it, by dropping     *)
(* what is null or filling in a default, and no id comes with them.        *)
(***************************************************************************)
EXTENDS AgentRuntime

CONSTANTS
  PythonTools,  \* tools served by Python definitions
  NativeTools,  \* OpenHands tools; one of them is FinishTool
  FinishTool,
  ArgumentsOf,  \* the arguments of each call as the model gave them
  PassedAs      \* the arguments OpenHands may make the call with, a set

VARIABLES
  policy,    \* "full", "last_generation" or "openhands"
  stage,     \* the Worker's next call: tools, agent, run, freeze, close, end
  prepared,  \* local_bindings is set
  spec,      \* agent_spec is set
  mcp,       \* "none", "running", "stopped" or "stuck"
  integration, \* self.integration is set
  natives,   \* native tools whose executor is still open
  loop,      \* the host's event loop has not been told to stop
  closing,   \* where close() is
  pc,        \* where the agent's run() is
  messages,  \* the history the next generation is asked with
  exchange,  \* the assistant message and tool messages of this round
  todo,      \* calls of the last generation not yet made
  answer,    \* last_response / final_answer; 0 is []
  seen,      \* the context's observation
  pending,   \* OpenHandsIntegration.pending
  stopped, failure, finished

hostVars == <<policy, stage, prepared, spec, mcp, integration, natives, loop, closing>>
agentVars == <<pc, messages, exchange, todo, answer, seen, pending, stopped, failure,
               finished>>
vars == <<runtimeVars, hostVars, agentVars>>

Policies == {"full", "last_generation", "openhands"}
OpenHands == policy = "openhands"

\* OpenHandsIntegration.__init__
IntegrationInit ==
  pending = <<>> /\ stopped = FALSE /\ failure = "" /\ finished = FALSE

Init ==
  /\ RuntimeInit
  /\ policy \in Policies
  /\ bindings \in {PythonTools, PythonTools \cup NativeTools}
  /\ stage = "tools" /\ prepared = FALSE /\ spec = FALSE
  /\ mcp = "none" /\ integration = FALSE /\ natives = {} /\ loop = TRUE
  /\ closing = "no"
  /\ pc = "ready" /\ messages = <<>> /\ exchange = <<>> /\ todo = <<>>
  /\ answer = 0 /\ seen = "open"
  /\ IntegrationInit

-----------------------------------------------------------------------------
(* ComponentHost.                                                          *)

\* prepare_tools: only agent_state tools, once.
PrepareTools ==
  /\ stage = "tools" /\ ~prepared
  /\ \/ prepared' = TRUE /\ stage' = "agent"
     \/ prepared' = FALSE /\ stage' = "close"
  /\ UNCHANGED <<runtimeVars, policy, spec, mcp, integration, natives, loop, closing,
                 agentVars>>

\* prepare_agent, before the framework hook: the specification is kept even
\* when a later check refuses it, so no second prepare can follow.
PrepareAgent ==
  /\ stage = "agent" /\ prepared /\ ~spec
  /\ spec' = TRUE
  /\ stage' \in (IF OpenHands THEN {"close", "mcp"}
                 ELSE IF bindings \cap NativeTools # {} THEN {"close"}
                 ELSE {"close", "run"})
  /\ UNCHANGED <<runtimeVars, policy, prepared, mcp, integration, natives, loop, closing,
                 agentVars>>

\* McpToolServer.__init__: when the server does not start in time it closes
\* itself and nothing is assigned to self.mcp.
StartMcp ==
  /\ stage = "mcp"
  /\ \/ mcp' = "running" /\ stage' = "integration"
     \/ mcp' \in {"none", "stuck"} /\ stage' = "close"
  /\ UNCHANGED <<runtimeVars, policy, prepared, spec, integration, natives, loop, closing,
                 agentVars>>

\* OpenHandsAdapter.prepare and the tool table: the framework may have
\* created native executors before a name check refuses the table.
StartIntegration ==
  /\ stage = "integration"
  /\ natives' = bindings \cap NativeTools
  /\ \/ integration' = TRUE /\ stage' \in {"run", "close"}
     \/ integration' = FALSE /\ stage' = "close"
  /\ UNCHANGED <<runtimeVars, policy, prepared, spec, mcp, loop, closing, agentVars>>

\* close_native: an executor that raises stays open and is closed again later.
CloseNatives == natives' \in {{}, natives}

\* ToolHost.freeze shuts down each tool.
FreezeTools ==
  /\ stage = "freeze"
  /\ CloseNatives
  /\ stage' = "close"
  /\ UNCHANGED <<runtimeVars, policy, prepared, spec, mcp, integration, loop, closing,
                 agentVars>>

CloseBegins ==
  /\ stage = "close" /\ closing = "no"
  /\ closing' = "integration"
  /\ UNCHANGED <<runtimeVars, policy, stage, prepared, spec, mcp, integration, natives,
                 loop, agentVars>>

\* As a bug: without the inner finally: an executor that raises hides the MCP server.
CloseIntegration_Variant ==
  /\ closing = "integration"
  /\ \/ /\ natives' = IF integration THEN {} ELSE natives
        /\ closing' = "mcp"
     \/ integration /\ UNCHANGED natives /\ closing' = "loop"
  /\ UNCHANGED <<runtimeVars, policy, stage, prepared, spec, mcp, integration, loop,
                 agentVars>>

\* conversation.close closes the executors that close_native has not; one of
\* them may raise, and then the finally clauses still run.
CloseIntegration ==
  /\ closing = "integration"
  /\ IF integration THEN CloseNatives ELSE UNCHANGED natives
  /\ closing' = "mcp"
  /\ UNCHANGED <<runtimeVars, policy, stage, prepared, spec, mcp, integration, loop,
                 agentVars>>

CloseMcp ==
  /\ closing = "mcp"
  /\ mcp' \in (IF mcp = "running" THEN {"stopped", "stuck"} ELSE {mcp})
  /\ closing' = "loop"
  /\ UNCHANGED <<runtimeVars, policy, stage, prepared, spec, integration, natives, loop,
                 agentVars>>

\* The loop is told to stop; its thread is joined for a while, whatever it does.
CloseLoop ==
  /\ closing = "loop"
  /\ loop' = FALSE /\ closing' = "done" /\ stage' = "end"
  /\ UNCHANGED <<runtimeVars, policy, prepared, spec, mcp, integration, natives, agentVars>>

-----------------------------------------------------------------------------
(* The end of agent.run, and the Worker's poll while the agent computes.   *)

Return(a) == pc' = "returned" /\ answer' = a /\ stage' = "freeze"
Raise == pc' = "failed" /\ stage' = "close" /\ UNCHANGED answer

\* WorkerAgentContext: its task is bound once, its requests go to the Worker,
\* its observation is the last one received; only a cancelled tool raises.
BindTask == pc = "ready" /\ seen' = obs
Request(r) == rpc' = r
ContextRaises == rpc.status = "cancelled"
TakeObservation == seen' = rpc.obs

RunAgent ==
  /\ stage = "run" /\ BindTask
  /\ IF OpenHands /\ obs # "open" THEN Return(0)
     ELSE pc' = "loop" /\ UNCHANGED <<answer, stage>>
  /\ UNCHANGED <<runtimeVars, policy, prepared, spec, mcp, integration, natives, loop,
                 closing, messages, exchange, todo, pending, stopped, failure, finished>>

Running == pc \notin {"ready", "returned", "failed"}

\* check_rpc_active: the Worker gives up agent.run, not the other way round.
PollFails ==
  /\ stage = "run" /\ Running /\ rpc.kind \in {"idle", "generation", "result", "error"}
  /\ cancelled \/ clock # "interaction"
  /\ Raise /\ rpc' = Idle
  /\ UNCHANGED <<clock, cancelled, bindings, usage, generated, started, obs, denied,
                 limited, trace, complete, policy, prepared, spec, mcp, integration,
                 natives, loop, closing, messages, exchange, todo, seen, pending, stopped,
                 failure, finished>>

\* A step of run() changes nothing of the host but the Worker's next call.
InRun ==
  /\ stage = "run"
  /\ UNCHANGED <<policy, prepared, spec, mcp, integration, natives, loop, closing>>
  /\ UNCHANGED <<clock, cancelled, bindings, usage, generated, started, obs, denied,
                 limited, trace, complete>>

Assistant(g, calls) == [role |-> "assistant", gen |-> g, calls |-> calls]

\* The message that answers call c with what the Worker or the server said of
\* call d; `unrecorded' and `unclaimed' stand for the text of an error.
ToolMessage(c, d, status) == [role |-> "tool", call |-> c, of |-> d, status |-> status]

-----------------------------------------------------------------------------
(* PlainAgent.run.                                                         *)

PlainGenerate ==
  /\ ~OpenHands /\ pc = "loop" /\ InRun
  /\ IF seen # "open"
     THEN Return(answer) /\ UNCHANGED rpc
     ELSE /\ Request([kind |-> "generate", messages |-> messages])
          /\ pc' = "generating" /\ UNCHANGED <<answer, stage>>
  /\ UNCHANGED <<messages, exchange, todo, seen, pending, stopped, failure, finished>>

\* As a bug: last_response is only kept from an answer without calls.
PlainGeneration_Variant ==
  /\ ~OpenHands /\ pc = "generating" /\ rpc.kind = "generation" /\ InRun
  /\ rpc' = Idle
  /\ IF rpc.finish # "tool_calls"
     THEN Return(rpc.gen) /\ UNCHANGED <<exchange, todo>>
     ELSE /\ pc' = "calling" /\ UNCHANGED <<answer, stage>>
          /\ todo' = rpc.calls /\ exchange' = <<Assistant(rpc.gen, rpc.calls)>>
  /\ UNCHANGED <<messages, seen, pending, stopped, failure, finished>>

PlainGeneration ==
  /\ ~OpenHands /\ pc = "generating" /\ rpc.kind = "generation" /\ InRun
  /\ rpc' = Idle
  /\ IF rpc.finish # "tool_calls"
     THEN Return(rpc.gen) /\ UNCHANGED <<exchange, todo>>
     ELSE /\ pc' = "calling" /\ answer' = rpc.gen /\ UNCHANGED stage
          /\ todo' = rpc.calls /\ exchange' = <<Assistant(rpc.gen, rpc.calls)>>
  /\ UNCHANGED <<messages, seen, pending, stopped, failure, finished>>

PlainCall ==
  /\ ~OpenHands /\ pc = "calling" /\ todo # <<>> /\ InRun
  /\ Request([kind |-> "step", call |-> Head(todo)])
  /\ pc' = "stepping"
  /\ UNCHANGED <<stage, messages, exchange, todo, answer, seen, pending, stopped, failure,
                 finished>>

PlainResult ==
  /\ ~OpenHands /\ pc = "stepping" /\ rpc.kind = "result" /\ InRun
  /\ rpc' = Idle
  /\ IF ContextRaises
     THEN Raise /\ UNCHANGED <<exchange, todo, seen>>
     ELSE /\ TakeObservation
          /\ exchange' = Append(exchange, ToolMessage(rpc.call, rpc.call, rpc.status))
          /\ todo' = Tail(todo)
          /\ IF rpc.obs # "open" THEN Return(answer)
             ELSE pc' = "calling" /\ UNCHANGED <<answer, stage>>
  /\ UNCHANGED <<messages, pending, stopped, failure, finished>>

PlainExchanged ==
  /\ ~OpenHands /\ pc = "calling" /\ todo = <<>> /\ InRun
  /\ messages' = (IF policy = "last_generation" THEN <<>> ELSE messages) \o exchange
  /\ pc' = "loop"
  /\ UNCHANGED <<rpc, stage, exchange, todo, answer, seen, pending, stopped, failure,
                 finished>>

\* As a bug: limits are tried again instead of ending the loop.
PlainDenied_Variant ==
  /\ ~OpenHands /\ pc \in {"generating", "stepping"} /\ rpc.kind = "error" /\ InRun
  /\ rpc' = Idle
  /\ IF rpc.code \in LimitCodes THEN pc' = "loop" /\ UNCHANGED <<answer, stage>> ELSE Raise
  /\ UNCHANGED <<messages, exchange, todo, seen, pending, stopped, failure, finished>>

\* A limit ends the interaction with the last response; other errors stay errors.
PlainDenied ==
  /\ ~OpenHands /\ pc \in {"generating", "stepping"} /\ rpc.kind = "error" /\ InRun
  /\ rpc' = Idle
  /\ IF rpc.code \in LimitCodes THEN Return(answer) ELSE Raise
  /\ UNCHANGED <<messages, exchange, todo, seen, pending, stopped, failure, finished>>

-----------------------------------------------------------------------------
(* OpenHandsIntegration.                                                   *)

\* run: how conversation.run left, "end", "stopped" or "error", with the
\* failure and the answer the integration then holds.
Leave(how, code, a) ==
  IF how = "stopped" \/ (how = "end" /\ code = "") \/ code \in LimitCodes
  THEN Return(a) ELSE Raise

\* WorkerLLM.completion up to the request; the framework may offer other tools
\* than the selected ones, or content that is not text, and is refused.
Complete ==
  /\ OpenHands /\ pc = "loop" /\ InRun
  /\ IF failure # "" THEN Leave("error", failure, answer) /\ UNCHANGED rpc
     ELSE IF stopped THEN Leave("stopped", failure, answer) /\ UNCHANGED rpc
     ELSE \/ /\ Request([kind |-> "generate", messages |-> messages])
             /\ pc' = "generating" /\ UNCHANGED <<answer, stage>>
          \/ Leave("error", "", answer) /\ UNCHANGED rpc
  /\ UNCHANGED <<messages, exchange, todo, seen, pending, stopped, failure, finished>>

\* The rest of completion: every generation replaces the pending calls.
CompletionReturns ==
  /\ OpenHands /\ pc = "generating" /\ rpc.kind = "generation" /\ InRun
  /\ rpc' = Idle /\ pending' = rpc.calls
  /\ IF rpc.finish = "tool_calls"
     THEN /\ pc' = "calling" /\ answer' = rpc.gen /\ todo' = rpc.calls
          /\ messages' = Append(messages, Assistant(rpc.gen, rpc.calls))
          /\ UNCHANGED stage
     ELSE /\ Leave(IF rpc.finish = "length" THEN "stopped" ELSE "end", failure, rpc.gen)
          /\ UNCHANGED <<todo, messages>>
  /\ UNCHANGED <<exchange, seen, stopped, failure, finished>>

CompletionDenied ==
  /\ OpenHands /\ pc = "generating" /\ rpc.kind = "error" /\ InRun
  /\ rpc' = Idle /\ failure' = rpc.code
  /\ Leave("error", rpc.code, answer)
  /\ UNCHANGED <<messages, exchange, todo, seen, pending, stopped, finished>>

\* As a bug: the latest call of the tool is taken, whatever its arguments.
Claim_Variant(name, args) == SelectLastInSeq(pending, LAMBDA c : ToolOf[c] = name)

\* claim: the first pending call of that tool with those arguments, or 0.
Claim(name, args) ==
  SelectInSeq(pending, LAMBDA c : ToolOf[c] = name /\ ArgumentsOf[c] = args)

\* The claimed call is removed under the lock.  It need not be the one that is
\* run: rewritten arguments can be those of another call of the answer.
CallTool ==
  /\ OpenHands /\ pc = "calling" /\ todo # <<>> /\ InRun
  /\ \E args \in PassedAs[Head(todo)] : \E i \in {Claim(ToolOf[Head(todo)], args)} :
       /\ i > 0
       /\ Request([kind |-> "step", call |-> pending[i]])
       /\ pending' = RemoveAt(pending, i)
  /\ pc' = "stepping"
  /\ UNCHANGED <<stage, messages, exchange, todo, answer, seen, stopped, failure, finished>>

NativeCall == ToolOf[Head(todo)] \in NativeTools

\* The definition of a native tool stores its executor's object once it has
\* returned, then fails on content that is not text: an error may keep one.
NativeResultKept(status) == IF status = "ok" THEN {TRUE} ELSE BOOLEAN

\* The MCP server answers a call that raised with an error, not with a result.
McpError(c, error) == ToolMessage(c, c, error)

\* claim raised, before step's try: the Worker hears nothing of the call, no
\* failure is kept and the call stays pending.  A native executor ends run();
\* an MCP call leaves the error in the framework's history, which goes on.
ClaimFails ==
  /\ OpenHands /\ pc = "calling" /\ todo # <<>> /\ InRun
  /\ \E args \in PassedAs[Head(todo)] : Claim(ToolOf[Head(todo)], args) = 0
  /\ IF NativeCall
     THEN Leave("error", failure, answer) /\ UNCHANGED <<messages, todo>>
     ELSE /\ messages' = Append(messages, McpError(Head(todo), "unclaimed"))
          /\ todo' = Tail(todo) /\ UNCHANGED <<pc, answer, stage>>
  /\ UNCHANGED <<rpc, exchange, seen, pending, stopped, failure, finished>>

\* step returned an observation.  A native call also needs the object its
\* executor left in native_results: without one the pop raises.
StepReturns ==
  /\ OpenHands /\ pc = "stepping" /\ rpc.kind = "result" /\ ~ContextRaises /\ InRun
  /\ rpc' = Idle /\ TakeObservation
  /\ stopped' = (stopped \/ rpc.obs # "open")
  /\ \/ /\ NativeCall => TRUE \in NativeResultKept(rpc.status)
        /\ messages' = Append(messages, ToolMessage(Head(todo), rpc.call, rpc.status))
        /\ todo' = Tail(todo) /\ pc' = "calling"
        /\ finished' = (finished \/ ToolOf[Head(todo)] = FinishTool)
        /\ answer' = IF ToolOf[Head(todo)] = FinishTool THEN rpc.call ELSE answer
        /\ UNCHANGED stage
     \/ /\ NativeCall /\ FALSE \in NativeResultKept(rpc.status)
        /\ Leave("error", failure, answer)
        /\ UNCHANGED <<messages, todo, finished>>
  /\ UNCHANGED <<exchange, pending, failure>>

\* As a bug: the failure of an MCP call is left to the framework.
StepRaises_Variant ==
  /\ OpenHands /\ pc = "stepping" /\ InRun
  /\ rpc.kind = "error" \/ (rpc.kind = "result" /\ ContextRaises)
  /\ rpc' = Idle
  /\ IF NativeCall
     THEN Leave("error", failure, answer) /\ UNCHANGED <<messages, todo>>
     ELSE /\ messages' = Append(messages, McpError(Head(todo), "unrecorded"))
          /\ todo' = Tail(todo) /\ pc' = "calling" /\ UNCHANGED <<answer, stage>>
  /\ UNCHANGED <<exchange, seen, pending, stopped, failure, finished>>

\* step raised: the failure is kept.  A native executor propagates it; the MCP
\* server answers with an error, which the framework puts into its history.
StepRaises ==
  /\ OpenHands /\ pc = "stepping" /\ InRun
  /\ rpc.kind = "error" \/ (rpc.kind = "result" /\ ContextRaises)
  /\ rpc' = Idle
  /\ \E code \in {IF rpc.kind = "error" THEN rpc.code ELSE "TOOL_CANCELLED"} :
       /\ failure' = code
       /\ IF NativeCall
          THEN Leave("error", code, answer) /\ UNCHANGED <<messages, todo>>
          ELSE /\ messages' = Append(messages, McpError(Head(todo), "unrecorded"))
               /\ todo' = Tail(todo) /\ pc' = "calling" /\ UNCHANGED <<answer, stage>>
  /\ UNCHANGED <<exchange, seen, pending, stopped, finished>>

\* The batch is done: after finish the conversation ends, else it completes again.
BatchEnds ==
  /\ OpenHands /\ pc = "calling" /\ todo = <<>> /\ InRun
  /\ IF finished THEN Leave("end", failure, answer)
     ELSE pc' = "loop" /\ UNCHANGED <<answer, stage>>
  /\ UNCHANGED <<rpc, messages, exchange, todo, seen, pending, stopped, failure, finished>>
-----------------------------------------------------------------------------
HostStep ==
  \/ PrepareTools \/ PrepareAgent \/ StartMcp \/ StartIntegration \/ RunAgent
  \/ FreezeTools \/ CloseBegins \/ CloseIntegration \/ CloseMcp \/ CloseLoop

AgentStep ==
  \/ PlainGenerate \/ PlainGeneration \/ PlainCall \/ PlainResult \/ PlainExchanged
  \/ PlainDenied
  \/ Complete \/ CompletionReturns \/ CompletionDenied \/ CallTool \/ ClaimFails
  \/ StepReturns \/ StepRaises \/ BatchEnds

RuntimeStep == RuntimeReplies /\ UNCHANGED <<hostVars, agentVars>>

\* Before and after agent.run the clock and a cancellation only add failures
\* that the other actions already allow.
Outside == stage = "run" /\ (Cancel \/ Tick) /\ UNCHANGED <<hostVars, agentVars>>

Next == HostStep \/ AgentStep \/ RuntimeStep \/ PollFails \/ Outside

\* The host's threads and the Worker run; every model and tool call is bounded
\* by a timeout of the Worker, after which it fails.
Spec == Init /\ [][Next]_vars /\ WF_vars(HostStep \/ AgentStep \/ RuntimeStep)

-----------------------------------------------------------------------------
Events(kind) == {i \in DOMAIN trace : trace[i].kind = kind}

\* runtime.rs `complete': a trajectory that will be sealed as complete has one
\* generation event per counted generation and a result for every tool call
\* that was started, whatever failed to be written on the way.
CompleteTraceAccounts ==
  complete /\ rpc.kind \notin {"model", "tool"} =>
    /\ Cardinality(Events("generation")) = usage.generations
    /\ \A i \in Events("tool_call") :
         \E j \in Events("tool_result") : j > i /\ trace[j].call = trace[i].call

LastGeneration == IF Events("generation") = {} THEN 0
                  ELSE trace[CHOOSE i \in Events("generation") :
                               \A j \in Events("generation") : j <= i].gen

\* agents.py last_response, openhands.py final_answer: what an agent submits is
\* the last answer the Worker recorded, or the message of a finish call whose
\* result it recorded after that answer.
AnswerIsRecorded ==
  pc = "returned" =>
    \/ answer = LastGeneration
    \/ \E i \in Events("tool_result") :
         /\ trace[i].call = answer
         /\ <<answer, LastGeneration>> \in generated

\* termination_reason: an answer that a limit, a truncated generation or the
\* environment forced is never reported as a final answer.
OnlyFinalAnswersAreFinal ==
  pc = "returned" /\ TerminationReason = "final_answer" =>
    \/ finished
    \/ \E i \in Events("generation") :
         trace[i].gen = LastGeneration /\ trace[i].finish = "stop"

\* What is submitted is backed by the trace, the answer and the reason given for
\* it: no agent can have made up either.
AnswerIsBacked == AnswerIsRecorded /\ OnlyFinalAnswersAreFinal

\* check_interaction_open: once the environment ended nothing is generated and
\* no tool is started, even by an agent in the middle of a batch of calls.
NothingAfterEnvironmentEnds ==
  \A i \in Events("tool_result"), j \in Events("generation") \cup Events("tool_call") :
    trace[i].obs # "open" => j < i

\* The call a message for call c speaks of: c itself, or in OpenHands one of
\* the same tool that was generated with the arguments c was made with.
StandsFor(d, c) ==
  IF OpenHands THEN ToolOf[d] = ToolOf[c] /\ ArgumentsOf[d] \in PassedAs[c] ELSE d = c

Repeats(m, result) ==
  result.call = m.of /\ result.status = m.status /\ StandsFor(m.of, m.call)

\* The error of an MCP call that claim refused and the Worker never heard of.
Unclaimed(m) == OpenHands /\ m.status = "unclaimed" /\ ToolOf[m.call] \notin NativeTools

\* agent_context.py "Never append an unrecorded error message to the model
\* history" holds of every call that reached the Worker: each tool message a
\* generation was asked with repeats the result recorded for the call it speaks
\* of, and no failure of such a call is ever shown to the model.  Only an MCP
\* call that claim refused adds a message of its own.  No call of an earlier
\* answer is left without its message.
HistoryIsRecorded ==
  \A i \in Events("generation") :
    LET sent == Range(trace[i].messages)
        tools == {m \in sent : m.role = "tool"}
    IN  /\ \A m \in tools :
             Unclaimed(m) \/ \E j \in Events("tool_result") : j < i /\ Repeats(m, trace[j])
        /\ \A m \in sent \ tools : Range(m.calls) \subseteq {t.call : t \in tools}

\* ComponentHost.close: whatever prepare left half built and whatever closing a
\* part raises, the MCP server has been told to exit and the loop to stop.
CloseReachesEveryPart == closing = "done" => ~loop /\ mcp # "running"

\* The agents count nothing: only the Worker's refusals end their loops.
AgentHostEnds == <>(stage = "end")

=============================================================================
