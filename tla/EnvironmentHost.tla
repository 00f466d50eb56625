--------------------------- MODULE EnvironmentHost ---------------------------
(***************************************************************************)
(* The environment process (environment_host.py): one dataset environment, *)
(* the sandbox tools that share its state, and the handlers the Worker     *)
(* calls one at a time over RPC.  If the Worker dies the main thread       *)
(* closes the host itself (component_host.py, main), concurrently with a   *)
(* handler that is still running.                                          *)
(***************************************************************************)
EXTENDS ToolHost

VARIABLES
  environment,  \* "none", "ready" (constructed), "closed"
  wasReset,     \* _reset
  handler,      \* the handler in progress, besides tool calls
  loopLock,     \* loop_lock is held by an execute or a freeze handler
  hostClosed,   \* _closed
  snapshot,     \* the state snapshot that scoring uses; <<>> if none
  eof           \* the Worker has died

envVars == <<environment, wasReset, handler, loopLock, hostClosed, snapshot, eof>>
vars == <<toolVars, envVars>>

TypeOK ==
  /\ ToolTypeOK
  /\ environment \in {"none", "ready", "closed"}
  /\ wasReset \in BOOLEAN /\ hostClosed \in BOOLEAN /\ eof \in BOOLEAN
  /\ loopLock \in BOOLEAN
  /\ handler \in {"none", "freeze", "close"}
  /\ snapshot \in {<<>>} \cup {<<f, s>> : f, s \in 0 .. 1}

Init ==
  /\ ToolInit
  /\ environment = "none" /\ wasReset = FALSE /\ handler = "none"
  /\ loopLock = FALSE /\ hostClosed = FALSE /\ snapshot = <<>> /\ eof = FALSE

\* The Worker has one call in progress on this process at a time, and kills the
\* process after host.close (rpc.rs, RpcEnvironmentHost::close).
InFlight == handler # "none" \/ \E c \in Call : call[c] \in {"waiting", "running"}
WorkerCalls == ~eof /\ ~hostClosed /\ ~InFlight

-----------------------------------------------------------------------------
\* prepare, with the package, session and config schema it expects: any other
\* call is refused and changes nothing.
Prepare ==
  /\ WorkerCalls
  /\ environment = "none"
  /\ environment' = "ready"
  /\ UNCHANGED <<toolVars, wasReset, handler, loopLock, hostClosed, snapshot, eof>>

\* reset: once, and not again even when the environment's reset raised.  The
\* Supervisor resets before it freezes (supervisor.rs, run_components).
Reset ==
  /\ WorkerCalls /\ ~frozen
  /\ environment = "ready" /\ ~wasReset
  /\ wasReset' = TRUE
  /\ \E s \in 0 .. 1 : state' = s
  /\ UNCHANGED <<hostVars, sessionVars, environment, handler, loopLock, hostClosed,
                 snapshot, eof>>

\* prepare_tools: sandbox tools only, none of an agent's own.
HostPrepareTools(bs) ==
  /\ WorkerCalls
  /\ environment # "none"
  /\ \A b \in bs : b.native = "no"
  /\ PrepareTools(bs)
  /\ UNCHANGED envVars

\* execute_tool: validated, then run on the loop under loop_lock.
HostExecute(c) ==
  /\ WorkerCalls
  /\ Submit(c)
  /\ loopLock' = TRUE
  /\ UNCHANGED <<environment, wasReset, handler, hostClosed, snapshot, eof>>

\* A handler calls tools.freeze(), which returns at once when settled.
StartFreeze == IF settled THEN UNCHANGED toolVars ELSE FreezeBegins

HostFreeze ==
  /\ WorkerCalls
  /\ handler' = "freeze" /\ loopLock' = TRUE
  /\ StartFreeze
  /\ UNCHANGED <<environment, wasReset, hostClosed, snapshot, eof>>

\* The freeze settled: the session is frozen as well; or it raised.
HostFreezeEnds ==
  /\ handler = "freeze" /\ freezing = "idle"
  /\ handler' = "none" /\ loopLock' = FALSE
  /\ IF settled THEN FreezeSession ELSE UNCHANGED sessionVars
  /\ UNCHANGED <<hostVars, state, environment, wasReset, hostClosed, snapshot, eof>>

\* As a bug: a freeze that has only begun is enough for a snapshot.
StateSnapshot_Variant ==
  /\ WorkerCalls /\ environment = "ready" /\ frozen
  /\ snapshot' = <<files, state>>
  /\ UNCHANGED <<toolVars, environment, wasReset, handler, loopLock, hostClosed, eof>>

\* state_snapshot: TOOLS_NOT_FROZEN unless the freeze has settled.
StateSnapshot ==
  /\ WorkerCalls /\ environment = "ready" /\ settled
  /\ snapshot' = <<files, state>>
  /\ UNCHANGED <<toolVars, environment, wasReset, handler, loopLock, hostClosed, eof>>

\* close: freezes first; takes no loop_lock.  Called by the Worker when idle.
HostClose ==
  /\ WorkerCalls
  /\ handler' = "close"
  /\ StartFreeze
  /\ UNCHANGED <<environment, wasReset, loopLock, hostClosed, snapshot, eof>>

CloseEnvironment ==
  /\ environment' = IF environment = "none" THEN "none" ELSE "closed"
  /\ hostClosed' = TRUE

\* As a bug: the environment is closed only after a freeze that settled.
HostCloseEnds_Variant ==
  /\ handler = "close" /\ freezing = "idle"
  /\ handler' = "none"
  /\ IF settled THEN CloseEnvironment ELSE UNCHANGED <<environment, hostClosed>>
  /\ UNCHANGED <<toolVars, wasReset, loopLock, snapshot, eof>>

\* The nested finally clauses: the environment is closed and the host marked
\* closed whether the freeze settled or raised.
HostCloseEnds ==
  /\ handler = "close" /\ freezing = "idle"
  /\ handler' = "none"
  /\ CloseEnvironment
  /\ UNCHANGED <<toolVars, wasReset, loopLock, snapshot, eof>>

\* The Worker dies; its half-done call goes on.
WorkerDies ==
  /\ ~eof /\ eof' = TRUE
  /\ UNCHANGED <<toolVars, environment, wasReset, handler, loopLock, hostClosed, snapshot>>

\* The main thread's close: the event loop is idle, or it is running and
\* run_until_complete raises, so that only the environment is closed.
MainCloses ==
  /\ eof /\ ~hostClosed
  /\ \/ /\ ~InFlight /\ handler' = "close"
        /\ StartFreeze
        /\ UNCHANGED <<environment, hostClosed>>
     \/ /\ InFlight
        /\ CloseEnvironment
        /\ UNCHANGED <<toolVars, handler>>
  /\ UNCHANGED <<wasReset, loopLock, snapshot, eof>>

\* A step of the tool host; a call that ends releases loop_lock.
ToolStep ==
  /\ ToolSteps
  /\ loopLock' = (loopLock /\ ~ \E c \in Call :
                    call[c] \in {"waiting", "running"} /\ call'[c] \in {"ok", "error"})
  /\ UNCHANGED <<environment, wasReset, handler, hostClosed, snapshot, eof>>

-----------------------------------------------------------------------------
Next ==
  \/ Prepare \/ Reset \/ HostFreeze \/ HostFreezeEnds \/ StateSnapshot
  \/ HostClose \/ HostCloseEnds \/ WorkerDies \/ MainCloses \/ ToolStep
  \/ \E bs \in Table : HostPrepareTools(bs)
  \/ \E c \in Call : HostExecute(c)

Fairness ==
  /\ \A c \in Call : /\ WF_vars(ToolStep /\ Execute(c))
                     /\ SF_vars(ToolStep /\ FinishCall(c))
                     /\ WF_vars(ToolStep /\ ProcessEnds(c))
  /\ \A t \in Task : WF_vars(ToolStep /\ CancelledTaskEnds(t))
  /\ WF_vars(ToolStep /\ (CancelTasks \/ StopTools \/ Settle))
  /\ WF_vars(HostFreezeEnds) /\ WF_vars(HostCloseEnds) /\ WF_vars(MainCloses)

Spec == Init /\ [][Next]_vars /\ Fairness

-----------------------------------------------------------------------------
\* What was snapshot for scoring is what the tools left, for good: no thread,
\* task, process or later call changes files or state after the snapshot
\* (environment_host.py, state_snapshot after tools.freeze).
SnapshotIsFinal == snapshot # <<>> => snapshot = <<files, state>>

\* A host that is closed, by the Worker or because the Worker died, ends with
\* its environment closed although a tool left a thread that makes the freeze
\* fail, or a tool is still running (environment_host.py, close).
CloseReachesEnvironment ==
  (handler = "close" \/ eof) ~> (hostClosed /\ environment # "ready")
=============================================================================
