----------------------------- MODULE RpcChannel -----------------------------
(***************************************************************************)
(* The duplex channel between the Worker and one component process: the    *)
(* Rust end (rpc.rs, RpcProcess) and the Python end (rpc.py, RpcPeer).     *)
(* The Worker has a stack of outstanding calls: while it waits for the     *)
(* outermost one it serves the component's own requests, and serving one   *)
(* may call the same component again.  In Python one reader thread hands   *)
(* calls to a pool and replies to the threads that wait for them.          *)
(* No caller in the repository gives RpcPeer.request a timeout.            *)
(***************************************************************************)
EXTENDS Integers, Sequences, FiniteSets, SequencesExt

CONSTANTS
  MaxCalls,     \* bound on the calls the Worker makes ("rust:n")
  MaxRequests,  \* bound on the requests the component makes ("python:n")
  PoolSize      \* max_workers of the executor

\* The Worker nests at most one call in a call it serves.
ASSUME ChannelAssumption ==
  /\ MaxCalls \in Nat /\ MaxRequests \in Nat /\ PoolSize \in Nat
  /\ PoolSize >= 2

CallId == 1 .. MaxCalls
RequestNo == 1 .. MaxRequests

VARIABLES
  stack,    \* Worker: outstanding calls, innermost last
  alive,    \* Worker: the child process has not been killed
  dead,     \* the Worker itself has died: the component reads end-of-file
  abandoned, \* calls the Worker gave up without closing the channel
  toPy,     \* frames on their way to the component
  toRs,     \* frames on their way to the Worker
  reader,   \* _read: "reading", then "closing" inside close(), then "ended"
  closed,   \* _closed
  failing,  \* the pending futures that close() has collected and will fail
  queue,    \* calls submitted to the executor and not started
  call,     \* what has become of each call in the component
  request,  \* each request: where its thread is, its future, its caller
  dropped   \* history: calls whose reply exceeded the frame limit

rsVars == <<stack, alive, dead, abandoned>>
pyVars == <<reader, closed, failing, queue, call, request, dropped>>
vars == <<rsVars, toPy, toRs, pyVars>>

Frames == [kind : {"call", "request", "reply"}, id : Nat]
Frame(kind, id) == [kind |-> kind, id |-> id]

NoRequest == [pc |-> "none", future |-> "pending", caller |-> 0]

Pending == {r \in RequestNo : request[r].pc \in {"registered", "waiting"}}
Running == {c \in CallId : call[c] = "running"}
Top == Last(stack)
OnStack(c) == \E i \in DOMAIN stack : stack[i].id = c
Outstanding(c) == OnStack(c) \/ c \in abandoned

TypeOK ==
  /\ stack \in Seq([id : CallId, serves : BOOLEAN, request : 0 .. MaxRequests])
  /\ alive \in BOOLEAN /\ dead \in BOOLEAN /\ closed \in BOOLEAN
  /\ toPy \in Seq(Frames) /\ toRs \in Seq(Frames)
  /\ reader \in {"reading", "closing", "ended"}
  /\ failing \subseteq RequestNo
  /\ queue \in Seq(CallId)
  /\ call \in [CallId -> {"none", "sent", "queued", "running", "done", "cancelled"}]
  /\ request \in [RequestNo ->
       [pc : {"none", "registered", "waiting", "returned"},
        future : {"pending", "set", "failed"}, caller : 0 .. MaxCalls]]
  /\ dropped \subseteq CallId /\ abandoned \subseteq CallId

Init ==
  /\ stack = <<>> /\ alive = TRUE /\ dead = FALSE
  /\ toPy = <<>> /\ toRs = <<>>
  /\ reader = "reading" /\ closed = FALSE /\ failing = {}
  /\ queue = <<>> /\ call = [c \in CallId |-> "none"]
  /\ request = [r \in RequestNo |-> NoRequest]
  /\ dropped = {} /\ abandoned = {}

-----------------------------------------------------------------------------
(* The Worker, rpc.rs: call_with is a loop over incoming frames.           *)

Send(c, serves, r) ==
  /\ call[c] = "none"
  /\ \A d \in CallId : d < c => call[d] # "none"
  /\ stack' = Append(stack, [id |-> c, serves |-> serves, request |-> r])
  /\ toPy' = Append(toPy, Frame("call", c))
  /\ call' = [call EXCEPT ![c] = "sent"]

\* agent.run, environment.reset and scorer.score serve requests; the others
\* use call(), whose callback refuses every method.  An attempt whose serving
\* call was abandoned has failed: only host.close follows on that channel.
StartCall(c, serves) ==
  /\ alive /\ ~dead /\ stack = <<>>
  /\ serves => abandoned = {}
  /\ Send(c, serves, 0)
  /\ UNCHANGED <<alive, dead, abandoned, toRs, reader, closed, failing, queue, request, dropped>>

Incoming(kind) == /\ alive /\ ~dead /\ stack # <<>> /\ toRs # <<>>
                  /\ Head(toRs).kind = kind

\* The callback answers, or the innermost call refuses the method: either way
\* one response frame.
Answer ==
  /\ Incoming("request")
  /\ toRs' = Tail(toRs)
  /\ toPy' = Append(toPy, Frame("reply", Head(toRs).id))
  /\ UNCHANGED <<rsVars, pyVars>>

\* runtime.step runs a tool of the same process: a call inside the callback.
NestedCall(c) ==
  /\ Incoming("request")
  /\ Top.serves
  /\ toRs' = Tail(toRs)
  /\ Send(c, FALSE, Head(toRs).id)
  /\ UNCHANGED <<alive, dead, abandoned, reader, closed, failing, queue, request,
                 dropped>>

\* The reply to the innermost call ends it; if a request was being served,
\* its response follows.
CallReturns ==
  /\ Incoming("reply") /\ Head(toRs).id = Top.id
  /\ toRs' = Tail(toRs)
  /\ stack' = Front(stack)
  /\ toPy' = IF Top.request = 0 THEN toPy
             ELSE Append(toPy, Frame("reply", Top.request))
  /\ UNCHANGED <<alive, dead, abandoned, pyVars>>

\* close(): the process group is killed; nothing in the pipes is read again.
Kill ==
  /\ alive /\ ~dead
  /\ alive' = FALSE
  /\ stack' = <<>>
  /\ UNCHANGED <<dead, abandoned, toPy, toRs, pyVars>>

\* A timeout, a cancellation or a transport error: the channel is closed.
CallFails == stack # <<>> /\ Kill

\* A reply to another call than the innermost: RPC_RESPONSE_ID_MISMATCH.
MismatchedReply == Incoming("reply") /\ Head(toRs).id # Top.id /\ Kill

\* After host.close, or a cancellation seen before a call: nothing is awaited.
CloseChannel == stack = <<>> /\ Kill

\* The __poll of agent.run (check_rpc_active) or of scorer.score
\* (remaining_timeout_ms) fails: that code closes nothing, so the handler, its
\* requests and its reply live on after the call.
CallAbandoned ==
  /\ alive /\ ~dead /\ Len(stack) = 1 /\ Top.serves
  /\ abandoned' = abandoned \cup {Top.id}
  /\ stack' = <<>>
  /\ UNCHANGED <<alive, dead, toPy, toRs, pyVars>>

\* The Worker process dies: its end of the pipes closes, the child lives on.
WorkerDies ==
  /\ alive /\ ~dead
  /\ dead' = TRUE /\ stack' = <<>>
  /\ UNCHANGED <<alive, abandoned, toPy, toRs, pyVars>>

-----------------------------------------------------------------------------
(* The component, rpc.py.                                                  *)

\* request(): the future is registered under the lock unless closed.
Register(r, c) ==
  /\ alive /\ call[c] = "running" /\ request[r].pc = "none"
  /\ \A s \in RequestNo : s < r => request[s].pc # "none"
  /\ ~closed
  /\ request' = [request EXCEPT ![r] =
                   [pc |-> "registered", future |-> "pending", caller |-> c]]
  /\ UNCHANGED <<rsVars, toPy, toRs, reader, closed, failing, queue, call, dropped>>

\* _send raises when the frame is too large, the peer closed or the pipe is
\* broken; the finally clause removes the future.
SendRequest(r) ==
  /\ alive /\ request[r].pc = "registered"
  /\ \/ /\ ~closed /\ ~dead
        /\ toRs' = Append(toRs, Frame("request", r))
        /\ request' = [request EXCEPT ![r].pc = "waiting"]
     \/ /\ request' = [request EXCEPT ![r].pc = "returned"]
        /\ UNCHANGED toRs
  /\ UNCHANGED <<rsVars, toPy, reader, closed, failing, queue, call, dropped>>

RequestReturns(r) ==
  /\ alive /\ request[r].pc = "waiting" /\ request[r].future # "pending"
  /\ request' = [request EXCEPT ![r].pc = "returned"]
  /\ UNCHANGED <<rsVars, toPy, toRs, reader, closed, failing, queue, call, dropped>>

\* As a bug: the reader runs a call itself, so it reads nothing until the call ends.
ReadCall_Variant ==
  /\ alive /\ reader = "reading" /\ toPy # <<>> /\ Head(toPy).kind = "call"
  /\ Running = {}
  /\ toPy' = Tail(toPy)
  /\ queue' = Append(queue, Head(toPy).id)
  /\ call' = [call EXCEPT ![Head(toPy).id] = "queued"]
  /\ UNCHANGED <<rsVars, toRs, reader, closed, failing, request, dropped>>

\* _read, a call: only submitted, never run by the reader.
ReadCall ==
  /\ alive /\ reader = "reading" /\ toPy # <<>> /\ Head(toPy).kind = "call"
  /\ toPy' = Tail(toPy)
  /\ queue' = Append(queue, Head(toPy).id)
  /\ call' = [call EXCEPT ![Head(toPy).id] = "queued"]
  /\ UNCHANGED <<rsVars, toRs, reader, closed, failing, request, dropped>>

\* close(), under the lock: refuse from now on, collect what is pending.
BeginClose ==
  /\ reader' = "closing"
  /\ closed' = TRUE
  /\ failing' = Pending

\* _read, a reply: to its future, or RPC_UNKNOWN_RESPONSE, which closes.
ReadReply ==
  /\ alive /\ reader = "reading" /\ toPy # <<>> /\ Head(toPy).kind = "reply"
  /\ toPy' = Tail(toPy)
  /\ IF Head(toPy).id \in Pending
     THEN /\ request' = [request EXCEPT ![Head(toPy).id].future = "set"]
          /\ UNCHANGED <<reader, closed, failing>>
     ELSE BeginClose /\ UNCHANGED request
  /\ UNCHANGED <<rsVars, toRs, queue, call, dropped>>

\* _read, end of file or a malformed frame.
ReadEnd ==
  /\ alive /\ reader = "reading" /\ dead /\ toPy = <<>>
  /\ BeginClose
  /\ UNCHANGED <<rsVars, toPy, toRs, queue, call, request, dropped>>

\* As a bug: close() leaves the futures it collected unresolved.
EndClose_Variant ==
  /\ alive /\ reader = "closing"
  /\ reader' = "ended" /\ failing' = {} /\ queue' = <<>>
  /\ call' = [c \in CallId |-> IF call[c] = "queued" THEN "cancelled" ELSE call[c]]
  /\ UNCHANGED <<rsVars, toPy, toRs, closed, request, dropped>>

\* close(), after the lock: fail the futures collected, cancel queued calls.
EndClose ==
  /\ alive /\ reader = "closing"
  /\ reader' = "ended" /\ failing' = {} /\ queue' = <<>>
  /\ call' = [c \in CallId |-> IF call[c] = "queued" THEN "cancelled" ELSE call[c]]
  /\ request' = [r \in RequestNo |->
       IF r \in failing /\ request[r].future = "pending"
       THEN [request[r] EXCEPT !.future = "failed"] ELSE request[r]]
  /\ UNCHANGED <<rsVars, toPy, toRs, closed, dropped>>

StartHandler ==
  /\ alive /\ queue # <<>> /\ Cardinality(Running) < PoolSize
  /\ call' = [call EXCEPT ![Head(queue)] = "running"]
  /\ queue' = Tail(queue)
  /\ UNCHANGED <<rsVars, toPy, toRs, reader, closed, failing, request, dropped>>

\* As a bug: the reply is sent while requests of the handler are still outstanding.
FinishHandler_Variant(c) ==
  /\ alive /\ call[c] = "running"
  /\ call' = [call EXCEPT ![c] = "done"]
  /\ toRs' = IF closed \/ dead THEN toRs ELSE Append(toRs, Frame("reply", c))
  /\ UNCHANGED <<rsVars, toPy, reader, closed, failing, queue, request, dropped>>

\* _dispatch after the handler: asyncio.run joins the threads that wait for
\* the handler's requests.  A reply over the frame limit, or one that finds
\* the peer closed or the pipe broken, is swallowed.
FinishHandler(c) ==
  /\ alive /\ call[c] = "running"
  /\ \A r \in Pending : request[r].caller # c
  /\ call' = [call EXCEPT ![c] = "done"]
  /\ \/ /\ toRs' = IF closed \/ dead THEN toRs ELSE Append(toRs, Frame("reply", c))
        /\ UNCHANGED dropped
     \/ dropped' = dropped \cup {c} /\ UNCHANGED toRs
  /\ UNCHANGED <<rsVars, toPy, reader, closed, failing, queue, request>>

-----------------------------------------------------------------------------
Next ==
  \/ \E c \in CallId : (\E s \in BOOLEAN : StartCall(c, s)) \/ NestedCall(c)
                       \/ FinishHandler(c)
  \/ Answer \/ CallReturns \/ CallFails \/ MismatchedReply \/ CloseChannel
  \/ CallAbandoned \/ WorkerDies
  \/ \E r \in RequestNo : \/ \E c \in CallId : Register(r, c)
                          \/ SendRequest(r) \/ RequestReturns(r)
  \/ ReadCall \/ ReadReply \/ ReadEnd \/ EndClose \/ StartHandler

\* Threads that can run do run, a handler ends, the Worker's loop reads what
\* arrives.  Nothing is assumed of timeouts, new calls or new requests.
Fairness ==
  /\ WF_vars(Answer \/ \E c \in CallId : NestedCall(c))
  /\ WF_vars(CallReturns) /\ WF_vars(MismatchedReply)
  /\ WF_vars(ReadCall) /\ WF_vars(ReadReply) /\ WF_vars(ReadEnd)
  /\ WF_vars(EndClose) /\ WF_vars(StartHandler)
  /\ \A r \in RequestNo : WF_vars(SendRequest(r)) /\ WF_vars(RequestReturns(r))
  /\ \A c \in CallId : WF_vars(FinishHandler(c))

Spec == Init /\ [][Next]_vars /\ Fairness

-----------------------------------------------------------------------------
\* The Worker matches a reply with its innermost call only, so replies must
\* come back in stack order although the component's threads finish in any
\* order; only the reply of an abandoned call may meet another call, which then
\* fails with RPC_RESPONSE_ID_MISMATCH (rpc.rs).  Nothing else is left over for
\* a later call: a handler or a request on its way is one of an outstanding or
\* an abandoned call.  And no answer reaches the component for a request that
\* has given up, which would close the peer (RPC_UNKNOWN_RESPONSE).
RepliesNest ==
  alive /\ ~dead =>
    /\ \A i \in DOMAIN toPy : toPy[i].kind = "reply" => toPy[i].id \in Pending
    /\ \A i \in DOMAIN toRs : toRs[i].kind = "reply" =>
         \/ stack # <<>> /\ toRs[i].id = Top.id
         \/ toRs[i].id \in abandoned
    /\ \A i \in DOMAIN toRs : toRs[i].kind = "request" =>
         Outstanding(request[toRs[i].id].caller)
    /\ \A c \in Running : Outstanding(c)

\* No call hangs: the reader stays free while handlers wait, and the pool has
\* a thread for the nested call, so every call returns without its timeout,
\* also one that the requests and the reply of an abandoned call run into,
\* unless its reply was too large to send (rpc.py, _read and _dispatch).
CallsReturn ==
  stack # <<>> ~> (stack = <<>> \/ dropped # {})

\* When the Worker has died, close() releases every waiting handler thread,
\* also one that was registering its request at that moment, so that the
\* component process can end (rpc.py, close and _send).
EofReleasesHandlers ==
  dead ~> (Running = {} /\ Pending = {} /\ queue = <<>>)
=============================================================================
