----------------------------- MODULE HostProofs -----------------------------
(***************************************************************************)
(* What a settled freeze means, for any tools, tasks, threads and tables:  *)
(* theorems about ToolHost inside EnvironmentHost, where the Worker's      *)
(* handlers, its death and the process's own close interleave with it.     *)
(* They rest on who may be alive while the host's lock is where it is      *)
(* (HostInv).  That nothing writes after a freeze is proved for tools      *)
(* whose leftovers start no further threads or tasks once their call has   *)
(* returned or they are cancelled: with LateSpawn it does not hold.        *)
(***************************************************************************)
EXTENDS EnvironmentHost, TLAPS

Active == {c \in Call : call[c] = "running"}

\* The lock, the calls and the freeze agree.
LockOK ==
  /\ lock \in {"free", "call", "freeze"}
  /\ freezing \in {"idle", "waiting", "gathering", "stopping"}
  /\ call \in [Call -> {"idle", "waiting", "running", "ok", "error"}]
  /\ lock # "call" => Active = {}
  /\ \A c, d \in Active : c = d
  /\ lock = "freeze" <=> freezing \in {"gathering", "stopping"}

\* A freeze marks the host first, and a settled one is over.
FreezeOK ==
  /\ frozen \in BOOLEAN /\ settled \in BOOLEAN
  /\ freezing # "idle" => frozen /\ ~settled
  /\ settled => frozen

\* Every process belongs to a call or thread that is alive; none once frozen.
ProcessOK ==
  /\ sFrozen \in BOOLEAN
  /\ procs \subseteq Active \cup threads
  /\ sFrozen => procs = {}

\* Every task is recorded when it is created; every thread when its call ends.
RecordOK ==
  /\ tasks \subseteq bgTasks
  /\ lock = "call" => before \subseteq bgThreads
  /\ lock # "call" => threads \subseteq bgThreads

\* A freeze that waits has cancelled all there are; then none is left.
QuietOK ==
  /\ freezing = "gathering" => tasks \subseteq awaited
  /\ freezing = "stopping" => tasks = {}
  /\ settled => tasks = {} /\ threads = {} /\ Active = {} /\ lock = "free"

HostInv == LockOK /\ FreezeOK /\ ProcessOK /\ RecordOK /\ QuietOK
-----------------------------------------------------------------------------
(* The invariant holds initially and every step of the tool host keeps it.  *)

\* The host starts unfrozen with nothing running (ToolHost.__init__).
LEMMA HostInvInit == ToolInit => HostInv
  BY DEF ToolInit, SessionInit, HostInv, LockOK, FreezeOK, ProcessOK, RecordOK, QuietOK, Active

\* Freezing the session, or leaving it, keeps what is said of its processes
\* (freeze_tools).
LEMMA SessionFreezes ==
  ASSUME HostInv, FreezeSession \/ UNCHANGED sessionVars, UNCHANGED <<call, threads>>
  PROVE  ProcessOK'
<1> USE DEF HostInv, ProcessOK, Active
<1>1. CASE FreezeSession
  BY <1>1 DEF FreezeSession, Stop
<1>2. CASE UNCHANGED sessionVars
  BY <1>2 DEF sessionVars
<1> QED
  BY <1>1, <1>2

\* execute: its call runs alone, under the lock, and not after a freeze began.
LEMMA CallKeeps ==
  ASSUME HostInv, NEW c \in Call, Submit(c) \/ Execute(c) \/ FinishCall(c)
  PROVE  HostInv'
<1> USE DEF HostInv, LockOK, FreezeOK, ProcessOK, RecordOK, QuietOK, Active, sessionVars
<1>1. CASE Submit(c)
  BY <1>1 DEF Submit
<1>2. CASE Execute(c)
  BY <1>2 DEF Execute
<1>3. CASE FinishCall(c)
  BY <1>3 DEF FinishCall
<1> QED
  BY <1>1, <1>2, <1>3

\* Tasks of tool code: created by a running call or by an uncancelled task.
LEMMA TaskKeeps ==
  ASSUME HostInv, ~LateSpawn, NEW t \in Task, SpawnTask(t) \/ TaskEnds(t)
  PROVE  HostInv'
<1> USE DEF HostInv, LockOK, FreezeOK, ProcessOK, RecordOK, QuietOK, Active, sessionVars
<1>1. CASE SpawnTask(t)
  BY <1>1 DEF SpawnTask, CallRunning
<1>2. CASE TaskEnds(t)
  BY <1>2 DEF TaskEnds
<1> QED
  BY <1>1, <1>2

\* Threads of tool code: started by a running call only.
LEMMA ThreadKeeps ==
  ASSUME HostInv, ~LateSpawn, NEW h \in Thread, SpawnThread(h) \/ ThreadEnds(h)
  PROVE  HostInv'
<1> USE DEF HostInv, LockOK, FreezeOK, ProcessOK, RecordOK, QuietOK, Active, sessionVars
<1>1. CASE SpawnThread(h)
  BY <1>1 DEF SpawnThread, CallRunning
<1>2. CASE ThreadEnds(h)
  BY <1>2 DEF ThreadEnds
<1> QED
  BY <1>1, <1>2

\* Session.run and what ends it.
LEMMA ProcessKeeps ==
  ASSUME HostInv, NEW w, RunProcess(w) \/ ProcessEnds(w)
  PROVE  HostInv'
<1> USE DEF HostInv, LockOK, FreezeOK, ProcessOK, RecordOK, QuietOK, Active, hostVars
<1>1. CASE RunProcess(w)
  BY <1>1 DEF RunProcess, Writers
<1>2. CASE ProcessEnds(w)
  BY <1>2 DEF ProcessEnds, Stop
<1> QED
  BY <1>1, <1>2

\* freeze: mark, take the lock and cancel, gather and shut down, settle.
LEMMA FreezeKeeps ==
  ASSUME HostInv, FreezeBegins \/ CancelTasks \/ StopTools \/ Settle
  PROVE  HostInv'
<1> USE DEF HostInv, LockOK, FreezeOK, RecordOK, QuietOK, Active
<1>1. CASE FreezeBegins
  BY <1>1 DEF FreezeBegins, ProcessOK, sessionVars
<1>2. CASE CancelTasks
  BY <1>2 DEF CancelTasks, ProcessOK, sessionVars
<1>3. CASE StopTools
  <2>1. ProcessOK'
    BY <1>3, SessionFreezes DEF StopTools
  <2> QED
    BY <1>3, <2>1 DEF StopTools
<1>4. CASE Settle
  BY <1>4 DEF Settle, ProcessOK, sessionVars
<1> QED
  BY <1>1, <1>2, <1>3, <1>4

\* Whatever the tool host does, alone.
LEMMA ToolStepsKeep ==
  ASSUME HostInv, ~LateSpawn, ToolSteps
  PROVE  HostInv'
<1>1. CASE \E c \in Call : Execute(c) \/ FinishCall(c) \/ RunProcess(c) \/ ProcessEnds(c)
  BY <1>1, CallKeeps, ProcessKeeps
<1>2. CASE \E t \in Task : SpawnTask(t) \/ TaskEnds(t)
  BY <1>2, TaskKeeps
<1>3. CASE \E h \in Thread : SpawnThread(h) \/ ThreadEnds(h) \/ RunProcess(h) \/ ProcessEnds(h)
  BY <1>3, ThreadKeeps, ProcessKeeps
<1>4. CASE WriteState \/ WriteFile
  BY <1>4 DEF WriteState, WriteFile, hostVars, sessionVars,
              HostInv, LockOK, FreezeOK, ProcessOK, RecordOK, QuietOK, Active
<1>5. CASE CancelTasks \/ StopTools \/ Settle
  BY <1>5, FreezeKeeps
<1> QED
  BY <1>1, <1>2, <1>3, <1>4, <1>5 DEF ToolSteps

-----------------------------------------------------------------------------
(* The environment host around it.                                         *)

\* What was snapshot is what there is, and was taken after a settled freeze.
EnvInv == HostInv /\ SnapshotIsFinal /\ (snapshot # <<>> => settled)

LEMMA StartFreezeKeeps ==
  ASSUME HostInv, StartFreeze
  PROVE  HostInv' /\ UNCHANGED <<files, state>> /\ (settled => settled')
<1>1. CASE UNCHANGED toolVars
  BY <1>1 DEF toolVars, hostVars, sessionVars,
              HostInv, LockOK, FreezeOK, ProcessOK, RecordOK, QuietOK, Active
<1>2. CASE FreezeBegins
  BY <1>2, FreezeKeeps DEF FreezeBegins, sessionVars
<1> QED
  BY <1>1, <1>2 DEF StartFreeze

\* After a settled freeze the host's own steps write nothing and stay settled.
LEMMA SettledIsQuiet ==
  ASSUME HostInv, ~LateSpawn, settled, ToolSteps
  PROVE  settled' /\ UNCHANGED <<files, state>>
<1> USE DEF HostInv, LockOK, FreezeOK, ProcessOK, QuietOK, Active, hostVars, sessionVars
<1>0. procs = {} /\ Writers = {} /\ freezing = "idle"
  BY DEF Writers
<1>1. CASE \E c \in Call : Execute(c) \/ FinishCall(c) \/ RunProcess(c) \/ ProcessEnds(c)
  BY <1>1 DEF Execute, FinishCall, RunProcess, ProcessEnds
<1>2. CASE \E t \in Task : SpawnTask(t) \/ TaskEnds(t)
  BY <1>2 DEF SpawnTask, TaskEnds
<1>3. CASE \E h \in Thread : SpawnThread(h) \/ ThreadEnds(h) \/ RunProcess(h) \/ ProcessEnds(h)
  BY <1>3 DEF SpawnThread, ThreadEnds, RunProcess, ProcessEnds
<1>4. CASE WriteState \/ WriteFile
  BY <1>0, <1>4 DEF WriteState, WriteFile
<1>5. CASE CancelTasks \/ StopTools \/ Settle
  BY <1>0, <1>5 DEF CancelTasks, StopTools, Settle
<1> QED
  BY <1>1, <1>2, <1>3, <1>4, <1>5 DEF ToolSteps

LEMMA EnvInvStep ==
  ASSUME EnvInv, ~LateSpawn, [Next]_vars
  PROVE  EnvInv'
<1> USE DEF EnvInv, SnapshotIsFinal
<1> DEFINE Same == UNCHANGED toolVars
<1>0. ASSUME Same PROVE HostInv' /\ UNCHANGED <<files, state, settled>>
  BY <1>0 DEF toolVars, hostVars, sessionVars,
              HostInv, LockOK, FreezeOK, ProcessOK, RecordOK, QuietOK, Active
<1>1. CASE UNCHANGED vars
  BY <1>0, <1>1 DEF vars, envVars
<1>2. CASE Prepare
  BY <1>0, <1>2 DEF Prepare
<1>3. CASE Reset
  <2>1. ~settled
    BY <1>3 DEF Reset, HostInv, FreezeOK
  <2>2. HostInv'
    BY <1>3 DEF Reset, hostVars, sessionVars,
                HostInv, LockOK, FreezeOK, ProcessOK, RecordOK, QuietOK, Active
  <2> QED
    BY <1>3, <2>1, <2>2 DEF Reset
<1>4. CASE HostFreeze
  BY <1>4, StartFreezeKeeps DEF HostFreeze
<1>5. CASE HostFreezeEnds
  <2>1. ProcessOK'
    BY <1>5, SessionFreezes DEF HostFreezeEnds, hostVars
  <2>2. HostInv'
    BY <1>5, <2>1 DEF HostFreezeEnds, hostVars, HostInv, LockOK, FreezeOK, RecordOK, QuietOK, Active
  <2>3. UNCHANGED <<files, state, settled, snapshot>>
    BY <1>5 DEF HostFreezeEnds, hostVars, sessionVars, FreezeSession
  <2> QED
    BY <2>2, <2>3
<1>6. CASE StateSnapshot
  BY <1>0, <1>6 DEF StateSnapshot
<1>7. CASE HostClose
  BY <1>7, StartFreezeKeeps DEF HostClose
<1>8. CASE HostCloseEnds
  BY <1>0, <1>8 DEF HostCloseEnds
<1>9. CASE WorkerDies
  BY <1>0, <1>9 DEF WorkerDies
<1>10. CASE MainCloses
  BY <1>0, <1>10, StartFreezeKeeps DEF MainCloses
<1>11. CASE ToolStep
  BY <1>11, ToolStepsKeep, SettledIsQuiet DEF ToolStep
<1>12. CASE \E bs \in Table : HostPrepareTools(bs)
  <2>1. PICK bs \in Table : HostPrepareTools(bs)
    BY <1>12
  <2> QED
    BY <2>1 DEF HostPrepareTools, PrepareTools, envVars, sessionVars,
                HostInv, LockOK, FreezeOK, ProcessOK, RecordOK, QuietOK, Active
<1>13. CASE \E c \in Call : HostExecute(c)
  <2>1. PICK c \in Call : HostExecute(c)
    BY <1>13
  <2>2. HostInv'
    BY <2>1, CallKeeps DEF HostExecute
  <2> QED
    BY <2>1, <2>2 DEF HostExecute, Submit, sessionVars
<1> QED
  BY <1>1, <1>2, <1>3, <1>4, <1>5, <1>6, <1>7, <1>8, <1>9, <1>10, <1>11, <1>12, <1>13 DEF Next

-----------------------------------------------------------------------------
(* The theorems.                                                           *)

\* The inductive invariant: lock, calls, freeze and what tool code has left
\* agree in every state of the environment process (tools.py, session.py).
THEOREM EnvironmentInvariant ==
  ASSUME ~LateSpawn
  PROVE  Spec => []EnvInv
<1>1. Init => EnvInv
  BY HostInvInit DEF Init, EnvInv, SnapshotIsFinal
<1>2. EnvInv /\ [Next]_vars => EnvInv'
  BY EnvInvStep
<1> QED
  BY <1>1, <1>2, PTL DEF Spec

\* After a settled freeze no call, task, thread or process of a tool is left,
\* however many there were (tools.py, freeze).
THEOREM NoWriterSurvivesFreezeHolds ==
  ASSUME ~LateSpawn
  PROVE  Spec => []NoWriterSurvivesFreeze
<1>1. EnvInv => NoWriterSurvivesFreeze
  BY DEF EnvInv, NoWriterSurvivesFreeze, Writers, HostInv, QuietOK, ProcessOK, Active
<1> QED
  BY <1>1, EnvironmentInvariant, PTL

\* The snapshot that scoring uses stays what files and state are, whoever
\* closes, dies or calls afterwards (environment_host.py, state_snapshot).
THEOREM SnapshotIsFinalHolds ==
  ASSUME ~LateSpawn
  PROVE  Spec => []SnapshotIsFinal
<1>1. EnvInv => SnapshotIsFinal
  BY DEF EnvInv
<1> QED
  BY <1>1, EnvironmentInvariant, PTL

-----------------------------------------------------------------------------
(* The session alone: this needs nothing of the tools, LateSpawn or not.    *)

SessionInv == sFrozen => procs = {}

\* A step freezes the session, or leaves a frozen one as it is.
SessionStep == sFrozen => sFrozen' /\ files' = files /\ procs' = {}

\* Freezing once more, or leaving the session, is such a step (freeze_tools).
LEMMA FrozenAgain ==
  ASSUME SessionInv, FreezeSession \/ UNCHANGED sessionVars
  PROVE  SessionInv' /\ SessionStep
  BY DEF SessionInv, SessionStep, FreezeSession, Stop, sessionVars

LEMMA SessionToolSteps ==
  ASSUME SessionInv, ToolSteps
  PROVE  SessionInv' /\ SessionStep
<1> USE DEF sessionVars
<1>1. ASSUME NEW w, RunProcess(w) \/ ProcessEnds(w)
      PROVE  SessionInv' /\ SessionStep
  BY <1>1 DEF RunProcess, ProcessEnds, Stop, SessionInv, SessionStep
<1>2. CASE \E c \in Call : Execute(c) \/ FinishCall(c) \/ RunProcess(c) \/ ProcessEnds(c)
  BY <1>1, <1>2, FrozenAgain DEF Execute, FinishCall
<1>3. CASE \E t \in Task : SpawnTask(t) \/ TaskEnds(t)
  BY <1>3, FrozenAgain DEF SpawnTask, TaskEnds
<1>4. CASE \E h \in Thread : SpawnThread(h) \/ ThreadEnds(h) \/ RunProcess(h) \/ ProcessEnds(h)
  BY <1>1, <1>4, FrozenAgain DEF SpawnThread, ThreadEnds
<1>5. CASE WriteState
  BY <1>5, FrozenAgain DEF WriteState
<1>6. CASE WriteFile
  BY <1>6 DEF WriteFile, SessionInv, SessionStep
<1>7. CASE CancelTasks \/ StopTools \/ Settle
  BY <1>7, FrozenAgain DEF CancelTasks, StopTools, Settle
<1> QED
  BY <1>2, <1>3, <1>4, <1>5, <1>6, <1>7 DEF ToolSteps

LEMMA SessionNext ==
  ASSUME SessionInv, [Next]_vars
  PROVE  SessionInv' /\ SessionStep
<1> USE FrozenAgain DEF toolVars
<1>0. ASSUME StartFreeze PROVE UNCHANGED sessionVars
  BY <1>0 DEF StartFreeze, FreezeBegins
<1>1. CASE UNCHANGED vars \/ Prepare \/ Reset \/ StateSnapshot \/ HostCloseEnds \/ WorkerDies
  BY <1>1 DEF vars, Prepare, Reset, StateSnapshot, HostCloseEnds, WorkerDies
<1>2. CASE HostFreeze \/ HostClose \/ MainCloses
  BY <1>0, <1>2 DEF HostFreeze, HostClose, MainCloses
<1>3. CASE HostFreezeEnds
  BY <1>3 DEF HostFreezeEnds
<1>4. CASE ToolStep
  BY <1>4, SessionToolSteps DEF ToolStep
<1>5. CASE \E bs \in Table : HostPrepareTools(bs)
  BY <1>5 DEF HostPrepareTools, PrepareTools
<1>6. CASE \E c \in Call : HostExecute(c)
  BY <1>6 DEF HostExecute, Submit
<1> QED
  BY <1>1, <1>2, <1>3, <1>4, <1>5, <1>6 DEF Next

\* A frozen session's files never change again and no command runs in it,
\* whatever code a tool has left alive (session.py).
THEOREM FrozenSessionIsFinalHolds == Spec => FrozenSessionIsFinal
<1>1. Init => SessionInv
  BY DEF Init, ToolInit, SessionInit, SessionInv
<1>2. SessionInv /\ [Next]_vars => SessionInv'
  BY SessionNext
<1>3. SessionInv /\ [Next]_vars => [sFrozen => sFrozen' /\ files' = files /\ procs' = {}]_toolVars
  BY SessionNext DEF SessionStep
<1> QED
  BY <1>1, <1>2, <1>3, PTL DEF Spec, FrozenSessionIsFinal

=============================================================================
