------------------------------ MODULE ToolHost ------------------------------
(***************************************************************************)
(* The attempt-local tool table of a component process (tools.py,          *)
(* ToolHost) and the workspace session its tools use (session.py).  Tool   *)
(* code is arbitrary: while a call runs, and in what it leaves behind, it  *)
(* may start asyncio tasks, threads and session processes and may write    *)
(* workspace files (through the session) or environment state (directly).  *)
(***************************************************************************)
EXTENDS Integers, FiniteSets

CONSTANTS
  Call,       \* tool calls the Worker routes to this host
  Task,       \* asyncio tasks that tool code may create
  Thread,     \* threads that tool code may start
  Table,      \* binding tables the Worker may send
  LateSpawn   \* whether code left behind starts threads, or tasks while being cancelled

ASSUME ToolHostAssumption == LateSpawn \in BOOLEAN

VARIABLES
  tools,     \* _tools: the accepted table; {} before prepare
  prepared,  \* _prepared
  frozen,    \* _frozen: set when a freeze begins
  settled,   \* _settled: what the property "frozen" reports
  lock,      \* who holds the asyncio lock
  call,      \* each call: where execute() is
  freezing,  \* where freeze() is
  awaited,   \* the tasks that freeze() has cancelled and gathers
  tasks, bgTasks,      \* live tasks of tool code; _background_tasks
  threads, bgThreads,  \* live threads of tool code; _background_threads
  before,    \* threads alive when the running call started
  sFrozen,   \* Session._frozen
  procs,     \* the calls and threads with a live session process
  files,     \* workspace content, written through the session
  state      \* environment state, written directly

hostVars == <<tools, prepared, frozen, settled, lock, call, freezing, awaited,
              tasks, bgTasks, threads, bgThreads, before>>
sessionVars == <<sFrozen, procs, files>>
toolVars == <<hostVars, sessionVars, state>>

ToolTypeOK ==
  /\ tools \in Table \cup {{}} /\ prepared \in BOOLEAN
  /\ frozen \in BOOLEAN /\ settled \in BOOLEAN /\ sFrozen \in BOOLEAN
  /\ lock \in {"free", "call", "freeze"}
  /\ call \in [Call -> {"idle", "waiting", "running", "ok", "error"}]
  /\ freezing \in {"idle", "waiting", "gathering", "stopping"}
  /\ awaited \subseteq Task /\ tasks \subseteq Task /\ bgTasks \subseteq Task
  /\ threads \subseteq Thread /\ bgThreads \subseteq Thread
  /\ before \subseteq Thread
  /\ procs \subseteq Call \cup Thread
  /\ files \in 0 .. 1 /\ state \in 0 .. 1

\* Session.__init__
SessionInit == sFrozen = FALSE /\ procs = {} /\ files = 0

ToolInit ==
  /\ tools = {} /\ prepared = FALSE /\ frozen = FALSE /\ settled = FALSE
  /\ lock = "free" /\ call = [c \in Call |-> "idle"] /\ freezing = "idle"
  /\ awaited = {} /\ tasks = {} /\ bgTasks = {}
  /\ threads = {} /\ bgThreads = {} /\ before = {}
  /\ SessionInit /\ state = 0

-----------------------------------------------------------------------------
(* ToolHost.prepare: staged, so a table is installed whole or not at all.  *)

\* A binding is usable: a native tool belongs to the selected agent in the
\* agent's own version, and the context was built from the same config.
Usable(b) == b.native \in {"no", "own"} /\ b.config_matches

Acceptable(bs) ==
  /\ \A b \in bs : Usable(b)
  /\ \A a, b \in bs : a.name = b.name => a = b

PrepareTools(bs) ==
  /\ ~prepared /\ ~frozen
  /\ Acceptable(bs)
  /\ tools' = bs
  /\ prepared' = TRUE
  /\ UNCHANGED <<frozen, settled, lock, call, freezing, awaited, tasks, bgTasks,
                 threads, bgThreads, before, sessionVars, state>>

\* validate_call: the call names a registered binding and its implementation.
Valid(c) == \E b \in tools : b.name = c.name /\ b.implementation = c.implementation

-----------------------------------------------------------------------------
(* ToolHost.execute.                                                       *)

Submit(c) ==
  /\ call[c] = "idle" /\ prepared /\ Valid(c)
  /\ call' = [call EXCEPT ![c] = "waiting"]
  /\ UNCHANGED <<tools, prepared, frozen, settled, lock, freezing, awaited, tasks,
                 bgTasks, threads, bgThreads, before, sessionVars, state>>

\* Under the lock: TOOL_HOST_FROZEN once a freeze has begun, else the tool runs.
Execute(c) ==
  /\ call[c] = "waiting" /\ lock = "free"
  /\ IF frozen
     THEN call' = [call EXCEPT ![c] = "error"] /\ UNCHANGED <<lock, before>>
     ELSE /\ call' = [call EXCEPT ![c] = "running"]
          /\ lock' = "call" /\ before' = threads
  /\ UNCHANGED <<tools, prepared, frozen, settled, freezing, awaited, tasks,
                 bgTasks, threads, bgThreads, sessionVars, state>>

\* The tool returned or raised: threads it started and left are recorded.
FinishCall(c) ==
  /\ call[c] = "running" /\ c \notin procs
  /\ \E r \in {"ok", "error"} : call' = [call EXCEPT ![c] = r]
  /\ lock' = "free"
  /\ bgThreads' = bgThreads \cup (threads \ before)
  /\ UNCHANGED <<tools, prepared, frozen, settled, freezing, awaited, tasks,
                 bgTasks, threads, before, sessionVars, state>>

-----------------------------------------------------------------------------
(* What tool code does.                                                    *)

CallRunning == \E c \in Call : call[c] = "running"

\* Code of a tool that is being executed now: a call, or what it left behind.
Writers == {c \in Call : call[c] = "running"} \cup tasks \cup threads

\* The task factory records every task whose creator belongs to this host.
SpawnTask(t) ==
  /\ t \notin bgTasks
  /\ \/ CallRunning \/ (tasks \ awaited) # {}
     \/ LateSpawn /\ tasks # {}
  /\ tasks' = tasks \cup {t} /\ bgTasks' = bgTasks \cup {t}
  /\ UNCHANGED <<tools, prepared, frozen, settled, lock, call, freezing, awaited,
                 threads, bgThreads, before, sessionVars, state>>

SpawnThread(h) ==
  /\ h \notin threads \cup bgThreads
  /\ CallRunning \/ (LateSpawn /\ tasks \cup threads # {})
  /\ threads' = threads \cup {h}
  /\ UNCHANGED <<tools, prepared, frozen, settled, lock, call, freezing, awaited,
                 tasks, bgTasks, bgThreads, before, sessionVars, state>>

TaskEnds(t) ==
  /\ t \in tasks
  /\ tasks' = tasks \ {t}
  /\ UNCHANGED <<tools, prepared, frozen, settled, lock, call, freezing, awaited,
                 bgTasks, threads, bgThreads, before, sessionVars, state>>

CancelledTaskEnds(t) == t \in awaited /\ TaskEnds(t)

ThreadEnds(h) ==
  /\ h \in threads \ procs
  /\ threads' = threads \ {h}
  /\ UNCHANGED <<tools, prepared, frozen, settled, lock, call, freezing, awaited,
                 tasks, bgTasks, bgThreads, before, sessionVars, state>>

WriteState ==
  /\ Writers # {}
  /\ state' = 1 - state
  /\ UNCHANGED <<hostVars, sessionVars>>

-----------------------------------------------------------------------------
(* Session.                                                                *)

\* As a bug: write_file does not ask whether the session is frozen.
WriteFile_Variant ==
  /\ Writers # {} \/ procs # {}
  /\ files' = 1 - files
  /\ UNCHANGED <<hostVars, sFrozen, procs, state>>

\* write_file, by tool code or by a live process of the session.
WriteFile ==
  /\ (Writers # {} /\ ~sFrozen) \/ procs # {}
  /\ files' = 1 - files
  /\ UNCHANGED <<hostVars, sFrozen, procs, state>>

\* run: refused once frozen; started and recorded under the session's lock.
RunProcess(w) ==
  /\ w \in Writers \ tasks /\ w \notin procs
  /\ ~sFrozen
  /\ procs' = procs \cup {w}
  /\ UNCHANGED <<hostVars, sFrozen, files, state>>

\* _stop: the whole process group of each is killed, and waited for.
Stop(ws) == procs' = procs \ ws

\* The command ends or times out; either way what it left is killed.
ProcessEnds(w) ==
  /\ w \in procs
  /\ Stop({w})
  /\ UNCHANGED <<hostVars, sFrozen, files, state>>

\* freeze_tools: no further write or command, running ones are killed.
FreezeSession == sFrozen' = TRUE /\ Stop(procs) /\ UNCHANGED files

-----------------------------------------------------------------------------
(* ToolHost.freeze.                                                        *)

FreezeBegins ==
  /\ freezing = "idle" /\ ~settled
  /\ frozen' = TRUE
  /\ freezing' = "waiting"
  /\ UNCHANGED <<tools, prepared, settled, lock, call, awaited, tasks, bgTasks,
                 threads, bgThreads, before, sessionVars, state>>

\* As a bug: the tasks are cancelled, and not waited for.
CancelTasks_Variant ==
  /\ freezing = "waiting" /\ lock = "free"
  /\ lock' = "freeze" /\ freezing' = "gathering" /\ awaited' = {}
  /\ UNCHANGED <<tools, prepared, frozen, settled, call, tasks, bgTasks, threads,
                 bgThreads, before, sessionVars, state>>

\* The lock is free: cancel the tasks and wait for them.
CancelTasks ==
  /\ freezing = "waiting" /\ lock = "free"
  /\ lock' = "freeze" /\ freezing' = "gathering" /\ awaited' = bgTasks
  /\ UNCHANGED <<tools, prepared, frozen, settled, call, tasks, bgTasks, threads,
                 bgThreads, before, sessionVars, state>>

\* As a bug: a freeze that joins the threads instead of failing.
StopTools_Variant ==
  /\ freezing = "gathering" /\ awaited \cap tasks = {} /\ threads = {}
  /\ freezing' = "stopping"
  /\ IF tools # {} THEN FreezeSession ELSE UNCHANGED sessionVars
  /\ UNCHANGED <<tools, prepared, frozen, settled, lock, call, awaited, tasks,
                 bgTasks, threads, bgThreads, before, state>>

\* All gathered: run each tool's shutdown and its context's freeze once.  One
\* that raises ends the freeze, before or after the session was frozen.
StopTools ==
  /\ freezing = "gathering" /\ awaited \cap tasks = {}
  /\ \/ /\ freezing' = "stopping"
        /\ IF tools # {} THEN FreezeSession ELSE UNCHANGED sessionVars
        /\ UNCHANGED <<lock, awaited>>
     \/ /\ tools # {} /\ (FreezeSession \/ UNCHANGED sessionVars)
        /\ freezing' = "idle" /\ lock' = "free" /\ awaited' = {}
  /\ UNCHANGED <<tools, prepared, frozen, settled, call, tasks, bgTasks, threads,
                 bgThreads, before, state>>

\* Settled, unless a recorded thread is alive: then the freeze fails, and a
\* later one starts over.
Settle ==
  /\ freezing = "stopping"
  /\ settled' = (bgThreads \cap threads = {})
  /\ lock' = "free" /\ freezing' = "idle" /\ awaited' = {}
  /\ UNCHANGED <<tools, prepared, frozen, call, tasks, bgTasks, threads, bgThreads,
                 before, sessionVars, state>>

-----------------------------------------------------------------------------
\* The steps that need no further permission of the process they run in.
ToolSteps ==
  \/ \E c \in Call : Execute(c) \/ FinishCall(c) \/ RunProcess(c)
                     \/ ProcessEnds(c)
  \/ \E t \in Task : SpawnTask(t) \/ TaskEnds(t)
  \/ \E h \in Thread : SpawnThread(h) \/ ThreadEnds(h) \/ RunProcess(h)
                       \/ ProcessEnds(h)
  \/ WriteState \/ WriteFile
  \/ CancelTasks \/ StopTools \/ Settle

ToolNext ==
  \/ ToolSteps
  \/ \E c \in Call : Submit(c)
  \/ \E bs \in Table : PrepareTools(bs)
  \/ FreezeBegins

\* The event loop runs what is ready; a command ends, and a call ends after
\* finitely many of them (the Worker's timeout kills the process otherwise); a
\* cancelled task ends.  Threads need not.
ToolFairness ==
  /\ \A c \in Call : WF_toolVars(Execute(c)) /\ SF_toolVars(FinishCall(c))
                     /\ WF_toolVars(ProcessEnds(c))
  /\ \A t \in Task : WF_toolVars(CancelledTaskEnds(t))
  /\ WF_toolVars(CancelTasks) /\ WF_toolVars(StopTools) /\ WF_toolVars(Settle)

ToolSpec == ToolInit /\ [][ToolNext]_toolVars /\ ToolFairness

-----------------------------------------------------------------------------
\* After a freeze has settled nothing of any tool is left that could write:
\* no call in progress, no task, no thread, no process (tools.py, freeze; the
\* in-flight call, its leftovers and the freeze interleave).
NoWriterSurvivesFreeze == settled => Writers = {} /\ procs = {}

\* A frozen session's files no longer change and no command runs in it, even
\* when the freeze failed because a thread of a tool is still alive
\* (session.py, write_file, run and freeze_tools).
FrozenSessionIsFinal == [][sFrozen => sFrozen' /\ files' = files /\ procs' = {}]_toolVars

\* A freeze waits for the call in progress and for the cancelled tasks, and
\* then succeeds or fails: it does not wait for itself or for calls that come
\* later (tools.py, freeze and execute share one lock).
FreezeReturns == freezing # "idle" ~> freezing = "idle"
=============================================================================
