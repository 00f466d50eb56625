# Verification of the uenv reference implementation

TLA+ specifications of the reference implementation of uenv, a system that runs
*episodes* (an agent working on a task in an environment, then a score) for
training and evaluation. A **Server** admits batches of episodes, places them on
**Workers** under time-limited leases and keeps the results; a Worker runs each
*attempt* of an episode once, records it and reports it until the Server
acknowledges. An attempt is carried out by Python processes (environment, agent,
model transport, scorer) that the Worker talks to over pipes; what they load was
built from dataset packages and from a contract kept as proto files. Paths below are relative to the root of the repository; the Rust
sources are in `reference-control/src/`, the Python SDK in
`reference/sdk/src/uenv/sdk/`.

## 1. Inventory

| Component | State it keeps | Operations | Hard behaviour | What makes it correct |
|---|---|---|---|---|
| `EpisodeRepository` (`repository.rs`) | SQLite tables runs, batches, episodes, attempts, attempt_leases, retry_delays, notifications | `submit`, `dispatch`, `accept_result`, `cancel_run` (one IMMEDIATE transaction each); `statuses`, `results` read | idempotent resubmission, late and repeated reports, retry with backoff, cancellation racing a result, capacity | bounds respected, receipts stand for whole batches, one lease per attempt, attempts form a chain, final results stay final and are announced once |
| `WorkerLedger` (`repository.rs`) | SQLite table executions (dispatch, result, acked) | `claim`, `finish`, `acknowledge`; `unfinished`, `pending_reports` read | duplicated dispatch, capacity, survives crashes | an attempt is claimed once, its result is immutable |
| Worker process (`worker.rs`) | none that lasts: threads between ledger transactions, snapshot of the outbox | `execute_dispatch`, `recover_interrupted`, `flush_results` | crash between any two transactions, lost ACK, skewed clock | at-most-once execution, nothing acked that is not saved, every result gets through |
| Lease (`lease.rs`) | none | `issue`, `verify` | expiry on two clocks | binds worker, plan, time and usage |
| `PlanResolver` (`plan.rs`) | none | `resolve`, `validate_batch_submission`, `retry_execution_plan`, `validate_result_for_plan` | selection among catalog entries and policies | the plan fixes everything once; a retry changes only the attempt |
| `EpisodeSupervisor` (`supervisor.rs`) | phase of an attempt | `execute`, `run_components` | failure or cancellation in any phase, cleanup of five hosts, sealing | cleanup always attempted in order, status and error agree, score only after freeze |
| Attempt runtime (`runtime.rs`) | budget counters, last generation, trajectory events | `BudgetEnforcer`, `AgentRuntime` (`generate`, `step`), `TrajectoryWriter` | limits, a call that fails after it was counted, partial trajectories | usage never exceeds what was reserved, a trajectory called complete is complete |
| Storage (`storage.rs`) | files: objects, spool events, usage reservations | `write_immutable`, `LocalFileStore`, `EventSpool` | crash between write and link, two writers | published content is immutable, recovered usage is conservative |
| RPC (`rpc.rs`, `rpc.py`) | Worker: stack of calls; component: pending requests, reader, thread pool | `call_with`, `request`, `_read`, `_dispatch`, `close` | both sides calling each other over one pipe, threads that answer in any order, timeout, end of file | replies come in stack order, no call hangs, nothing waits for a dead Worker |
| Tool host and session (`tools.py`, `session.py`) | tool table, lock, recorded tasks and threads; files and processes | `prepare`, `execute`, `freeze`; `write_file`, `run`, `freeze_tools` | freeze against a call in flight and against what calls leave running | after a freeze nothing of a tool writes; a freeze returns |
| Environment host (`environment_host.py`) | environment, flags, locks | `prepare`, `reset`, `execute_tool`, `freeze_tools`, `state_snapshot`, `close` | close from two threads, a freeze that fails | the snapshot is final, the environment is closed |
| Agent host, agents, integrations (`component_host.py`, `agents.py`, `agent_context.py`, `openhands.py`, `mcp_server.py`) | history, pending calls, MCP server, native executors | `prepare_tools`, `prepare_agent`, `run_agent`, `freeze_tools`, `close` | refusals in the middle of a batch, a failed prepare, errors while closing | history and answer are what was recorded, everything is closed |
| Model transport (`model_host.py`, `model_provider.py`) | none | `generate` | malformed answers, repeated call ids | an answer that breaks the contract is an error |
| Scoring (`scoring.rs`, `scorer_host.py`, `uenv_reference_rules`) | none that lasts | `run_score`, `validate_generation_rewards`, callbacks, text rules | deadline against callbacks, arbitrary scorers | an ok score is backed, scoring ends, a wrong answer is not a match |
| Packages (`package_loader.py`, `fixture_plan.py`, `modeling.py`, `schema_registry.py`, datasets) | schemas of the registry | load, publish, prepare, expand, plan; dump and restore | defaults filled in three places, several lookups of one reference | the plan says what the run said, typed data survives |
| Contract build (`proto_contracts.py`, `build_contracts.py`) | files under `contracts/`, the SDK's copies, the dictionary | compile, write, copy, remove | killed between two files, edited since | a finished build leaves exactly its contract |
| Backends (`backends.rs`, `process.rs`) | processes, containers | open, execute, freeze, close | process groups, timeouts | closed sessions leave nothing behind |

Interaction: a client calls `submit` and `cancel_run`; a scheduler outside the
repository calls `dispatch` and delivers the returned DispatchRequest to the
Worker; the Worker claims it in its ledger, lets the Supervisor execute it (which
drives the Python hosts over RPC and writes the spool), finishes it in the ledger
and sends a ResultReport; the Server's answer becomes an `acknowledge`.
Server and Worker share nothing but these messages and (roughly) the time.

The full list of hazards, each at its line with the properties that cover it, is
in `PROJECT.json`.

## 2. Plan

Done, in this order:

1. `ControlContracts`, `EpisodeRepository`, `WorkerLedger`, their composition
   `DispatchSystem`, and the theorems about the repository.
2. `EpisodeContract`, which `EpisodeRepository` implements, model-checked and proved.
3. `RpcChannel`; `ToolHost` and `EnvironmentHost` with the freeze and close protocol
   and its theorems; `AgentRuntime` and, composed with it, `AgentHost`.
4. `ScoringRules` and `Scoring`.
5. `TypedModels`, `Datasets`, `ContractBuild` and, composed of them, `Packages`.
6. Theorems about `DispatchSystem` (the agreement of Server and Workers, and that the
   whole implements the repository with arbitrary workers), about `RpcChannel` and
   about `AgentHost`; `WorkerReservations` of the repository.

7. `Scoring` and `ContractBuild` made independent of the recursive definitions (the
   verdict of a text rule, the schema of a message are parameters), and theorems about
   both.
8. `EpisodeSupervisor`: one attempt over all its hosts with its trajectory and spool,
   and the theorems about its result and its usage.

Left: the Server's epoch as state (leases of an earlier epoch after a restart), and the
publication of files in `storage.rs` on a model of the file system.

## 3. Modules

| Module | Models |
|---|---|
| `ControlContracts` | parameters, records exchanged and stored, assumptions |
| `EpisodeRepository` | the Server's database and its operations; repository properties |
| `WorkerLedger` | the Workers' ledgers and processes |
| `DispatchSystem` | Server, Workers and the network between them; system properties |
| `EpisodeContract` | what a client may rely on; implemented by `EpisodeRepository` |
| `RpcChannel` | both ends of the pipe between Worker and component |
| `ToolHost` | tool table, calls, leftovers, freeze, session |
| `EnvironmentHost` | `ToolHost` inside the environment process |
| `AgentRuntime` | the Worker's side of an agent's requests, with the model transport |
| `AgentHost` | `AgentRuntime` with the agent process: host, context, both agents, MCP server |
| `EpisodeSupervisor` | one attempt: the phases over all hosts, trajectory, spool, recovery |
| `Scoring` | Worker, scorer host, scorers and harness; the verdict of a text rule is a parameter |
| `ScoringRules` | the text rules, as operators, for `Scoring` |
| `TypedModels` | JSON values, models, generated schemas, defaults, as operators |
| `Datasets` | the nine dataset packages over `TypedModels` |
| `ContractBuild` | the contract as files, built and copied; what a schema says is a parameter |
| `ContractSchemas` | the schemas and the dictionary a build publishes, for `ContractBuild` |
| `Packages` | `Datasets` and `ContractSchemas` composed: from declaration to plan and back |
| `EpisodeRepositoryProofs` | theorems about `EpisodeRepository`: rows, leases, queue, contract |
| `DispatchProofs`, `RpcProofs`, `HostProofs`, `AgentProofs` | theorems about `DispatchSystem`, `RpcChannel`, `EnvironmentHost`, `AgentHost` |
| `ScoringProofs`, `BuildProofs`, `SupervisorProofs` | theorems about `Scoring`, `ContractBuild`, `EpisodeSupervisor` |
| `MCRepository`, `MCDispatch`, `MCRpc`, `MCEnvironment`, `MCTools`, `MCAgent`, `MCScoring`, `MCPackages`, `MCPlanAndAttempt` | instances for TLC |

**EpisodeRepository.** One action per operation. A transaction that returns an
error rolls back, so the guard of an action is the conjunction of all checks and
the refused calls are stuttering. `episodes[e]` is the row of the table with the
two fields of its `plan` column that change or are compared, `attempt_id` and
`deadline_at_ms`; the rest of the plan is fixed per episode (`ResourceNeed`,
`Compatible`). The resources in use are a sum in the code; here each unit needed is one
element of a set (`Units`) and the sum its cardinality, which the prover can reason
about; `MCRepository` compares the two over every set of its episodes. `accept_result` is `AcceptResult` (its two branches are
`RetryEpisode` and `SettleEpisode`) and, for the two early returns that answer Ok
without writing, `AlreadyAccepted`. `nonce` stands for the random lease id,
`dispatches` is a history variable: everything `dispatch` has returned.
Abstractions: the three usage counters are one number, the four resource
dimensions one dimension, a request's body one number; `conforms` in a result is
the verdict of the parts of `validate_result_for_plan` beyond identity.
In `ServerSpec` workers are arbitrary: any result, any time, any number of times,
under any lease ever issued.

**WorkerLedger.** One action per ledger transaction, so that a crash or another
thread can come between `claim`, `execute` and `finish`, and between `send` and
`acknowledge`. `threads` and `outbox` are lost in a crash, `executions` is not.
`AbandonExecution` is the `?` after `execute` or `finish`. A recovered attempt is
`failed` with code WORKER_RESTART, retryable exactly if its cleanup succeeded.
`started` is a history variable that counts calls of `execute`.

**DispatchSystem.** Messages sent stay available, so they can be delivered late,
out of order, again or never. `acks` holds answers on their way and loses one when
the worker gives the call up. Each worker's clock is `ClockLag[w]` behind the
Server's.

**EpisodeContract.** An episode is unknown, pending, withdrawing or finished; it is
admitted within the capacity, tried again while pending, settled once with an outcome
that is announced in the same step, or withdrawn without one. `EpisodeRepository`
instantiates it (`Contract`): the phase is a function of the state column, the tries
are `attempt_id`, the outcome is `result`, the announcements are `notifications`.

**RpcChannel.** The Worker's calls form a stack, since a request it serves may call
the component again. The component has one reader, a pool of `PoolSize` threads and
one future per request. Registering a request and sending it are two steps, since
`close` may come between; `close` is two steps, around its lock. A timeout, a
cancellation, a broken pipe or the reply to another call (`MismatchedReply`) kills the
child. A failed poll of `agent.run` or `scorer.score` (finalize reserve, episode or
scorer timeout) does not: the call is given up (`CallAbandoned`) while its handler, its
requests and its reply live on. The attempt has then failed, and only a plain call,
`host.close`, follows on that channel (the guard of `StartCall`): it refuses the requests
left over, and when the reply left over comes before its own it fails with
RPC_RESPONSE_ID_MISMATCH. A reply that is too large is dropped by the component
(`dropped`).

**ToolHost, EnvironmentHost.** `execute` and `freeze` share one asyncio lock; `freeze`
is the steps between its awaits. Tool code is arbitrary: it may write, start tasks,
threads and commands, during its call or afterwards. `LateSpawn` says whether what a
call left behind starts *new* threads, or tasks while it is being cancelled: the host
cannot see those. The Worker makes one call at a time; when it dies the main thread
closes the host beside whatever is running.

**AgentRuntime, AgentHost.** `rpc` is the agent's one outstanding request. `generate`
and `step` are a start (checks, reservation) and an end (answer, validation, event),
with every refusal in between; `complete` is the trajectory's flag. `policy` selects
PlainAgent with one of its history policies, or OpenHands, which is external: it
alternates completions with the calls of the last answer, and may rewrite the arguments
of a call before it makes it (`PassedAs`): `claim` compares the tool's name and the
arguments, so a rewritten call can claim another call of the same answer, or none
(`ClaimFails`). A tool message therefore names the call it answers and the call it speaks
of. `agent_context.py` says "Never append an unrecorded error message to the model
history": that holds of every call the Worker has heard of, and of no more; the error of
a refused claim is in no record (`HistoryIsRecorded`). `close` is one action per nested `finally`.

**ScoringRules, Scoring.** A text is a short sequence of the tokens the rules tell
apart; numbers are small rationals. `Scoring` has three readings of the clock (in
time, past the Worker's deadline, past the host's too) and one action per step of
`run_score`, of the host and of its callbacks. An author's scorer returns any member
of `Returned`; requests outside `Contested` are scored without interference, which
keeps the many texts of the rules apart from the interleavings. `TextVerdict`, what a
text rule says of a request, is a parameter: the runs take `RuleVerdict` of
`ScoringRules`, the proofs nothing.

**EpisodeSupervisor.** `stage` is the line of `execute` that is next: one stage per host
call, per record and per close, so that the Worker may die between any two. A host call
(`Call`) fails, times out or succeeds, after the check of its deadline and before that of
the cancellation flag; a record (`Phase` where its failure fails the attempt, `Log` where
it is ignored) or a usage record may fail with or without leaving its file. An event is
its sequence number. `generate` is four steps around the model call and two writes, `step`
three: `op` is the call under way with the `previous_complete` it will restore. `spool` is
what survives a death; `Recover` and the steps after it are `recover_interrupted`, which
starts again when it fails. `spent`, `unanswered`, `uncovered` and `outcomes` are history:
everything that was asked of model and tools and every token the models have produced;
those of the tokens whose generation failed; those no usage record on the disk allows
for; and what of the calls is in the trace. The tokens of a failed generation are produced
and counted nowhere: its reservation covers them until the next usage record drops it,
although the comment at `storage.rs:207-209` speaks of retaining the reservation of an
operation without a completion record. An answer over its allowance is counted, in memory
only (`finish_model` adds before it checks, and nothing is written after the refusal): a
death before the next record loses what exceeds the allowance. `UsageIsConservative` says
exactly this: what `execute` settles misses the failed generations and nothing else, what
a recovery settles misses at most `uncovered`. What the agent says, the hosts' own protocols and how a score comes
about are in the other modules.

**TypedModels, Datasets, ContractBuild, ContractSchemas, Packages.** A scalar is named by the column of
the source row it came from, so that a value can be traced through adapter, envelope,
plan and component. A build of the contract is one action per file written, copied or
removed, and may be killed between any two; a message stands for the proto file that
holds it. Bindings are copied and never removed: after a build the SDK has a current one
of every message, and exactly those that were ever generated. After a finished build one
package is taken through the steps of `build_examples.py`; each either succeeds or records
the error that ends it. Its schemas are published over the files that are there, and only
then does the registry read the installed contract and every file under
`generated/packages`: a directory left under an earlier name may still hold one of the
package's ids (`schema_conflict`). The settings of a run that select no component (model,
retry) are expanded through the contract's references by `ApplyDefaults`, which the
`RunSpec` of the code needs for `generation` and `retry`.

**Variants.** A definition `X_Variant` is `X` with a plausible bug. Nothing uses it;
replacing `X` by it must make TLC report the property named here, which shows that
the property depends on that code.

| Variant | Bug | Detected by |
|---|---|---|
| `ResolvedRow_FromZero` | attempts counted from 0 | `TypeOK` |
| `HasRoom_Stale` | capacity compared without the members being added | `CapacityRespected` |
| `Fits_CancelledFree` | a cancelled, still running episode frees its slot | `WorkerReservations` |
| `Fits_OffByOne` | `<=` for `<` in the slot check | `LiveDispatchHasSlot` |
| `NoConflict_RunOnly` | stored request not compared with the resubmitted one | `ReceiptCoversBatch` |
| `Dispatchable_Expired` | an episode with an expired lease is dispatched again | `UnfinishedIsCurrent` |
| `PriorUsage_Fresh` | a retry starts with zero usage | `UsageCarriesOver` |
| `AlreadyAccepted_CurrentOnly` | replays looked up in the current row only | `OutboxDrains` |
| `ShouldRetry_Unclean` | retry in spite of a failed cleanup | `RetryChain` |
| `RetriedRow_SameAttempt` | a retry keeps its attempt_id | `OneLeasePerAttempt` |
| `RetriedRow_NewDeadline` | a retry gets a new deadline | `RetryGrantsNoTime` |
| `RetryEpisode_Notifies` | intermediate failures are announced | `NotifiedExactlyOnce` |
| `CancelledRow_Any` | cancellation not limited to queued and dispatched rows | `SettledIsFinal` |
| `Fresh_Finished` | a finished row may be claimed again | `AtMostOnceExecution` |
| `Fresh_ByEpisode` | deduplication by episode instead of by attempt | `EpisodeSettles` |
| `Finish_Overwrites` | a stored result can be replaced | `LedgersAgree` |
| `Acknowledge_Snapshot` | one ACK marks the whole snapshot | `LedgersAgree` |
| `SettleEpisode_CancelSilent` | a cancelled result is not announced | `ImplementsContract` |
| `FinishHandler_Variant` | a handler answers while a request of its own is outstanding | `RepliesNest` |
| `ReadCall_Variant` | the reader runs calls itself | `CallsReturn` |
| `EndClose_Variant` | futures collected by `close` are not failed | `EofReleasesHandlers` |
| `CancelTasks_Variant` | tasks are cancelled, not awaited | `NoWriterSurvivesFreeze` |
| `WriteFile_Variant` | `write_file` ignores the freeze | `FrozenSessionIsFinal` |
| `StopTools_Variant` | the freeze joins threads | `FreezeReturns` |
| `StateSnapshot_Variant` | snapshot after a freeze that only began | `SnapshotIsFinal` |
| `HostCloseEnds_Variant` | environment closed only after a settled freeze | `CloseReachesEnvironment` |
| `ModelFails_Variant` | completeness restored after a failed generation | `CompleteTraceAccounts` |
| `PlainGeneration_Variant` | an answer with tool calls is not kept | `AnswerIsBacked` |
| `Deny_Variant` | the tool call limit is not noted as a denial | `AnswerIsBacked` |
| `InteractionDenial_Variant` | an ended environment is not asked about | `NothingAfterEnvironmentEnds` |
| `StepRaises_Variant` | a failed MCP call is left to the framework | `HistoryIsRecorded` |
| `Claim_Variant` | `claim` takes the tool's latest call, whatever its arguments | `HistoryIsRecorded` |
| `CloseIntegration_Variant` | no inner `finally` around the executors | `CloseReachesEveryPart` |
| `PlainDenied_Variant` | a limit is tried again | `AgentHostEnds` |
| `ScoreOlymmath_Variant` | unknown commands are erased | `RulesKeepTheirPromises` |
| `ReportAccepted_Variant` | the report's status is ignored | `OkScoreIsBacked` |
| `GiveUp_Variant` | the deadline does not end a call | `ScoringEnds` |
| `BindingCopied_Variant` | a binding that is there is not copied again | `BuildIsComplete` |
| `DropStale_Variant` | removed extensions stay in the SDK | `BuildIsComplete` |
| `ExternalReference_Variant` | every reference is taken to stay in the core document | `SchemasAreConsistent` |
| `HarnessCommand_Variant` | absent optional fields left out of a request | `MaterialArrives` |
| `ConfigEnvelope_Variant` | the unfilled configuration is sent | `PlanFollowsRun` |
| `ApplyDefaults_Variant` | an explicit null taken for an absent value | `SchemasAreConsistent` |
| `CloseHost_Variant` | the first failed close ends the closing | `ResultIsHonest` |
| `Reservation_Variant` | a generation is recorded without its tokens before the call | `UsageIsConservative` |
| `Counted_Variant` | the limit is checked before the tokens are counted | `UsageIsConservative` |

## 4. Runs

| Run | Instance | Shows |
|---|---|---|
| `repository` | 3 episodes, 2 clients, 2 workers, 5 submissions, 2 attempts, clock 0..3 (178,075 states) | all repository properties; `ImplementsContract` |
| `dispatch` | 2 episodes, 2 workers (one clock 1 behind), 2 attempts, 1 crash, leases of 2, clock 0..2 (415,433 states) | safety of Server and Workers together |
| `dispatch_live` | 2 episodes, 1 worker with one slot, 1 crash, leases that outlive the clock (8,554 states) | settlement and acknowledgement |
| `head_of_line` | 1 worker with two slots, leases that expire | **violated**: `EveryResultIsSent` |
| `cancel_ack` | 1 worker, cancellation after finish | **violated**: `CancelledResultIsAcked` |
| `rpc` | 3 calls, 2 requests, 2 threads (30,068 states) | replies nest, also around an abandoned call, calls return, end of file releases all |
| `environment_host` | 2 calls, 1 task, 1 thread, 3 tables (52,408 states) | freeze, snapshot and close |
| `late_spawn` | `ToolHost` alone, 2 tasks, 2 threads, leftovers that start threads | **violated**: `NoWriterSurvivesFreeze` |
| `agent` | 3 call ids, 2 generations, 2 tool calls, 2 tokens, batches of 2 one of which may be made with rewritten arguments (892,383 states) | trajectory, answer, history, termination, close |
| `scoring` | 10,582 requests, 7 trajectories (135,108 states) | text rules, evidence of a score, scoring ends |
| `score_timeout` | the contested requests | **violated**: `TimeoutIsReported` |
| `plan_and_attempt` | 9 packages and the departures from one of them, 2 protos (211,882 states); an attempt with 1 generation and 1 tool call left, 1 failing write, 2 failing closes, 1 death of the Worker (together 3,962,285 states) | contract, defaults, plan, typed data; the result and the usage of an attempt |

*Why these bounds.* Capacity 2 with 3 episodes makes the queue full and lets a
retry re-queue while a submission waits; the five submissions overlap, conflict in
body and batch id, come from a client that does not own the run and change the
run's configuration. Worker `w1` runs out of resources before slots and `w2` out of
slots before resources. Two attempts are the smallest number with a retry, and the
clock range lets leases expire, backoffs pass and deadlines be missed. In
`dispatch` episode `e1` may be placed on both workers, so that a retry can go to
another worker than the one that crashed. Deadlock is not checked: every bounded
instance ends when its clock and its attempts are used up, and the code may really
stop (an expired lease is not taken back). The same holds of the other instances: an
attempt, a scoring or a build ends.

`rpc` has the smallest pool that can serve a call nested in a request of a call, and a
third call to find frames the first two left behind: an abandoned call may have one
nested call behind it and has one plain call after it. In `environment_host` one of two
calls is in flight while the other waits, and a task and a thread may be left by each;
one table is refused, one empty. `agent` has two calls of one Python tool, which
OpenHands cannot tell apart, and one call of its finish tool; every limit is reached
by one operation more. `scoring` takes every olymmath answer of up to five tokens over
the boxing alphabet and of up to three over the numeric one, every gsm8k and pubmedqa
answer of up to three and every scitab answer of up to four words, and contests one or
two requests of each kind of scorer. `plan_and_attempt` runs every dataset with its own
run file, and one of them with each way in which a declaration, a run or a row can depart
from what is accepted; and an attempt that follows another one, so that usage brought in
matters, with an answer that fits, one that exceeds its allowance and one that exceeds
the limit, and every place for one failing write and one death, with and without
scoring, and every two hosts whose close fails (`FewFailedCloses`). The two share no state, so a state of one is not combined with those of the
other: only one of them moves.

*Fairness* (`Fairness` in `DispatchSystem`) is what the surrounding programs owe
the code: the scheduler keeps trying to place a queued episode (strong, since a slot
may come and go), a delivered dispatch is claimed and started, an execution ends
because its time budget does, a dead worker is restarted and recovery runs, the
flush loop keeps being called, and the network delivers a report or an answer that
is sent again and again (strong for the answer). Crashes, cancellations,
submissions and abandoned executions are never forced. `EpisodeSettles` excuses what
the code really leaves open: a cancellation without answer, an execution given up
with an error, and a backoff beyond the instance's clock.

`RpcChannel`: threads that can run do run and handlers end; timeouts, new calls and
requests are not forced, so `CallsReturn` does not rest on a timeout. `ToolHost`: the
event loop runs what is ready, a command ends, a call ends after finitely many
commands (strong, since commands come and go; the Worker's timeout kills the process
otherwise), a cancelled task ends; threads need not end. `AgentHost`: host, agent and
Worker run, since every model and tool call has a timeout; neither the clock nor
cancellation is forced. `Scoring`: the Worker runs, time passes and a harness ends; a
scorer need do nothing.

### Disagreements with the documentation

* **A refused report blocks the outbox** (`head_of_line`). `flush_results` leaves its
  loop at the first failed `send` (`worker.rs:84`) and always starts with the oldest
  row. A report whose lease has expired is refused for ever (`repository.rs:303`), so
  no later result of this worker is ever sent, although `docs/uenv_design.md:372` has
  each result retransmitted until the Server's ACK.
* **A result finished before a cancellation is never acknowledged** (`cancel_ack`).
  `repository.rs:306` refuses it for ever and the ledger does not let it be replaced:
  the episode remains `cancel_requested` and keeps its slot, although
  `docs/uenv_design.md:1110` ends the cancellation path with an ACK.

* **A thread started after its call returned survives a freeze** (`late_spawn`).
  `execute` records the threads that are new when a call returns (`tools.py:189`). A
  thread that one of those starts later is in no table, so the freeze settles and the
  thread may write, although `docs/development/verification.md:12` promises that
  nothing of a tool writes in the background afterwards. `environment_host` shows, and
  `HostProofs` proves, that there is no other way.
* **A scoring timeout can be reported as a general failure** (`score_timeout`). When a
  callback outlives the deadline, `call_with` returns RPC_TIMEOUT (`rpc.rs:195`), which
  `run_score` turns into SCORER_FAILED (`scoring.rs:152`), although
  `docs/development/verification.md:342` says that a scoring timeout is not rewritten.

Two more gaps are visible in the model but promised by no text, and the
implementation notes list lease renewal and reconciliation as unfinished
(`docs/development/reference_implementation.md:204`): an episode whose lease expires
stays `dispatched`, and one whose deadline passes in the queue stays `queued`.

## 5. Proofs

The theorems of the first module are about `ServerSpec`, hence hold for arbitrary
workers, every finite set of episodes and every value of the other constants, under
the assumptions of `ControlContracts`: capacities, times and bounds are naturals,
RunSpecs, Submissions and Results are records of their types, batches are finite,
`None` is no value of a column, and powers of two are positive naturals
(`PowerAssumption`, a fact of arithmetic the provers lack).

* `EpisodeRepositoryProofs`. `RetryChain` is not inductive: that `accept_result` saves
  the *next* attempt needs to know that a row in a held state has no result and that
  its lease, worker and run columns are filled. `RepoInv` adds `RowOK` (what the
  state column says about the others) and `SavedOK` (the chain, attempt by attempt,
  without set constructors). One lemma per operation first says which columns it
  changes, another that it preserves `RepoInv`. Results: `RepositoryInvariant`,
  `RepositoryTypeCorrect`, `RetryChainHolds`, `SettledIsFinalHolds`.
  Leases: `LeaseInv` says of every dispatch ever issued that its attempt is not
  ahead of the row's, is strictly behind it once the row is queued, holds the row's
  lease while it is the current one, and was issued before the row's retry delay.
  Then a queued row has no lease for its attempt (`OneLeasePerAttemptHolds`), and a
  later dispatch is later in time and so gets less of the same deadline
  (`RetryGrantsNoTimeHolds`).
  The queue: every step but a submission leaves identities alone and activates no
  settled episode (`OtherRows`); a submission adds at most as many active rows as it
  has new members (`SubmitCount`, through a surjection from members to rows). Results:
  `CapacityRespectedHolds`, `ReceiptCoversBatchHolds`, `NotifiedExactlyOnceHolds`.
  Towards the workers: `dispatch` alone adds to what a worker holds, one episode that it
  did not hold (`AssignedStep`), and needs add up because the units of different
  episodes are disjoint (`TotalNeedAdd`), so its check is enough:
  `WorkerReservationsHolds`. That a cancelled episode keeps its slot is what the
  argument rests on: leaving a held state is the only way out.
  The contract: `ImplementsContractHolds`: initial states map to initial states and
  every step of the Server to one of the contract or to a stutter. A submission of
  several episodes is one `Admit`, whose bound is the capacity in the state after it;
  a settlement needs `RepoInv` to know that the row had no result and no notification.
* `DispatchProofs` is about `DispatchSystem`: any number of episodes and workers, any
  clock differences, crashes, lost, repeated and reordered messages. None of the
  agreement properties is inductive alone. `SystemInv` joins them with `HolderInv`
  (about the Server: a dispatch whose episode is neither held nor settled belongs to an
  attempt that is over, a lease names one dispatch, a final result is saved, a dispatch
  hands on the usage of the attempt before), `LedgerInv` (about a Worker: a claimed row holds a dispatch that was
  issued to it, a thread works on a claimed and unfinished row, what was started is
  claimed, the outbox holds finished rows) and what messages in flight say (`ReportOK`: a report
  repeats its ledger row; `AckOK`: what was answered is saved). The circle closes like
  this: a row without a result is current, hence the Server saves a report only from
  the worker that holds the episode, hence what it saves is that worker's immutable
  result, hence a retry is queued only when no unfinished row is left behind. Results:
  `AtMostOnceExecutionHolds`, `UnfinishedIsCurrentHolds`, `LedgersAgreeHolds`,
  `UsageCarriesOverHolds`, `SystemTypeCorrect`.
  `LiveDispatchHasSlotHolds` counts: the unfinished rows of a worker inject into the
  episodes the Server has assigned to it, and the new one is not among them.
  `SystemImplementsRepository`: the whole system implements `ServerSpec`, so the
  theorems of `EpisodeRepositoryProofs`, and the client's contract, hold in it.
* `RpcProofs` is about `RpcChannel`, for any number of calls, requests and threads.
  `RepliesNest` says where replies are; that they can be nowhere else needs to know
  where everything is. `ChannelInv` says, while both ends live, how deep the stack is,
  which call serves which request and that nothing but plain calls follow an abandoned
  one (`StackOK`), where each call and each request is
  (`CallsOK`, `RequestsOK`: frame, queue, handler, stack or reply, one of them), and
  that no frame is in a pipe twice (`FramesOK`). A handler with a request outstanding
  has not ended, so the reply that comes is the one for the top of the stack or that of
  the abandoned call: `ChannelInvariant`, `RepliesNestHolds`.
* `AgentProofs` is about `AgentHost`, for any call ids, limits and batch sizes, both
  agents and whatever the model server answers. `HostInv` has a part for each side.
  `RuntimeInv` (Worker): the trace is suspect while a model or tool call is under way
  and one event short of what it was when the call began (`AccountInv`); the Worker
  works only while the environment is open (`EndInv`); a reply says what was recorded
  (`ReplyInv`). `AgentInv` (agent): what it waits for (`PhaseInv`), that the calls left
  of a batch and those still pending are calls of the last answer, and the call that
  `claim` gave out was generated with the arguments it was run with (`BatchInv`), that
  the answer at hand may be submitted (`AnswerInv`), that every way out of `run` but a
  final answer leaves its mark (`ReasonInv`), and that messages repeat records, but for
  those of calls that were not claimed, and leave no call open (`MessagesInv`).
  `CloseInv` follows `close`. Each side's part is preserved by its own steps, and by the
  other's because of what those may change (`WorkerMove`, `WorkerStands`). Results:
  `AgentHostInvariant`, `CompleteTraceAccountsHolds`, `AnswerIsBackedHolds`,
  `NothingAfterEnvironmentEndsHolds`, `HistoryIsRecordedHolds`,
  `CloseReachesEveryPartHolds`. Assumed of the constants (`AgentAssumption`): the
  limits and bounds are naturals, the configured number of tokens is positive.
* `HostProofs` is about `EnvironmentHost`, for any calls, tasks, threads and tables.
  `NoWriterSurvivesFreeze` is not inductive: `HostInv` adds that a running call holds
  the lock alone, that a freeze past the lock excludes calls (`LockOK`), that every task
  is recorded at once and every thread by the time the lock is released (`RecordOK`),
  and that a gathering freeze awaits every live task (`QuietOK`). Then a settled freeze
  has seen everything, and nothing alive is left to start more:
  `EnvironmentInvariant`, `NoWriterSurvivesFreezeHolds`, `SnapshotIsFinalHolds`, all
  under the hypothesis `~LateSpawn`, without which they are false (`late_spawn`).
  `FrozenSessionIsFinalHolds` needs no hypothesis.
* `ScoringProofs` is about `Scoring`, for every set of requests, checkpoints and results a
  scorer may return, and whatever the text rules say. `OkScoreIsBacked` is about the end
  of a chain: `ScoringInv` adds that a scorer at work was declared and that its host has
  not answered before (`WorkIsDeclared`), that a score on its way has its evidence
  (`ReplyIsBacked`), and that the host has nothing left to say while the Worker verifies
  (`VerifiedIsSettled`). That the check of the rewards admits exactly such generations is
  a lemma about the operator (`AdmittedIsBacked`): `ScoringInvariant`,
  `OkScoreIsBackedHolds`.
* `BuildProofs` is about `ContractBuild`, for every set of proto packages and whatever
  their schemas are. `BuildInv` says for each step of the build which files are this
  package's by then, and of a killed build nothing but that the SDK has no binding
  that was not generated. Assumed (`ProtosAssumption`): a package is a function. `BuildInvariant`,
  `BuildIsCompleteHolds`; a step of `Packages` is one of `ContractBuild` or leaves its
  files alone.
* `SupervisorProofs` is about `EpisodeSupervisor`, for all limits, all usage brought in
  and any number of failing writes and deaths. `SupervisorInv` has a part for each thing
  a result speaks of: what error, answer and score there are at each stage (`PhaseInv`),
  which hosts are past their close (`CloseInv`), that a trace called complete has every
  number and the outcome of every call, and that one under suspicion had so before the
  call (`TraceInv`), and that the counters *and* what a recovery would read of the spool
  account for every token that was produced, with the allowance of a model call on top
  while it is under way, but for those of failed generations, and in the records but for
  `uncovered`
  (`UsageInv`). The last is why the reservation is written before the call: without it a
  death during the call loses its tokens. That a recovery finds a number no file has used
  rests on every set of numbers in the spool being bounded (`Spools`, `NextFreeIsFree`).
  `SupervisorInvariant`, `ResultIsHonestHolds`, `UsageIsConservativeHolds`. Assumed
  (`SupervisorAssumption`): limits, bounds and the usage brought in are naturals.

The inductive invariants were checked with TLC on the instances of section 4 before
they were proved.

*Only model-checked:* what the recursive operators of `ScoringRules`, `TypedModels`,
`Datasets`, `ContractSchemas` and `Packages` compute (`RulesKeepTheirPromises`,
`SchemasAreConsistent`, `PlanFollowsRun`, `MaterialArrives`): they follow recursive code
and are declared RECURSIVE, which leaves the prover without its SMT backend, and what
recursion computes for every input needs an induction over data that the prover cannot
do. And liveness
(`EpisodeSettles`, `OutboxDrains`, `CallsReturn`, `EofReleasesHandlers`,
`FreezeReturns`, `CloseReachesEnvironment`, `AgentHostEnds`, `ScoringEnds`), which the
prover does not do. Every other safety property of a run is a theorem.

## 6. Not modelled

* The read-only queries `statuses` and `results`, `notifications.acked` (no code
  writes it), lease keys and epochs (one configuration for the instance), SQLite
  itself (a transaction is atomic and durable).
* `storage.rs`: publication of files by write, sync, link and rename depends on
  guarantees of the file system that the code does not state. In `EpisodeSupervisor` a
  write takes effect or not, and a failed one may have. In `WorkerLedger` a recovered
  attempt settles any usage that is not below what it started from.
* `backends.rs`, `process.rs`, `ports.rs`: processes and containers, declarations.
* Encoding: event bytes, segments and digests in `runtime.rs`, line framing in the RPC
  code, the JSON Schema validator (a library), HTTP, the authentication of the local
  MCP server, descriptions and wording.
* Most of `plan.rs` beyond what submission, retry and results need; the plan of the
  fixtures, which has the same shape, is modelled in `Packages`.
* `scripts/validate_design.py` (assertions over documents and fixtures),
  `build_module_map.py`, `serve_backend_fixture.py`, `validate_agent_integration.py`:
  drivers and tests. The generated bindings (`*_pb2.py`) are data; how they are
  produced and copied is `ContractBuild`.
