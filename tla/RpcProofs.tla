----------------------------- MODULE RpcProofs ------------------------------
(***************************************************************************)
(* Proofs about RpcChannel, for any number of calls and requests and any   *)
(* size of the pool.  Everything is about the channel in use: once it is   *)
(* killed, or the Worker has died, it is never in use again.               *)
(***************************************************************************)
EXTENDS RpcChannel, TLAPS

-----------------------------------------------------------------------------
(***************************************************************************)
(* The inductive invariant.                                                *)
(***************************************************************************)

\* The channel is in use: neither killed nor left by a dead Worker.
Live == alive /\ ~dead

\* A request travels as one frame to the Worker, is served by one nested call,
\* and comes back as one frame.
Asked(r) == Frame("request", r) \in Range(toRs)
Served(r) == \E i \in DOMAIN stack : stack[i].request = r
Answered(r) == Frame("reply", r) \in Range(toPy)

\* The Worker calls from nothing, or from the callback of the one call that
\* serves requests; the request it then serves is one of that call.  After an abandoned call only plain
\* calls are made.
StackOK ==
  /\ Len(stack) <= 2
  /\ stack # <<>> => stack[1].request = 0
  /\ Len(stack) = 2 => /\ ~stack[2].serves
                       /\ stack[2].id # stack[1].id
                       /\ stack[2].request \in RequestNo
                       /\ request[stack[2].request].caller = stack[1].id
  /\ abandoned # {} => Len(stack) <= 1 /\ (stack # <<>> => ~stack[1].serves)

\* Where a call is: its frame, its place in the queue, its reply.
CallsOK ==
  /\ \A c \in CallId :
       /\ Outstanding(c) => call[c] # "none"
       /\ call[c] \in {"sent", "queued", "running"} => Outstanding(c)
       /\ Frame("call", c) \in Range(toPy) => call[c] = "sent"
       /\ c \in Range(queue) => call[c] = "queued"
       /\ Frame("reply", c) \in Range(toRs) => call[c] = "done" /\ Outstanding(c)

\* Where a request is: nobody has given up waiting for an answer that may
\* still come, and a call with such a request has not ended.
RequestsOK ==
  /\ \A r \in RequestNo :
       /\ Asked(r) \/ Served(r) \/ Answered(r) =>
            request[r].pc = "waiting" /\ request[r].future = "pending"
       /\ ~(Asked(r) /\ Served(r))
       /\ ~(Asked(r) /\ Answered(r))
       /\ ~(Served(r) /\ Answered(r))
       /\ request[r].pc = "registered" => request[r].future = "pending"
       /\ r \in Pending =>
            request[r].caller \in CallId /\ call[request[r].caller] = "running"

\* Every frame in the pipes is one of the numbered ones, and none is there twice.
FramesOK ==
  /\ \A f \in Range(toPy) : \/ f.kind = "call" /\ f.id \in CallId
                            \/ f.kind = "reply" /\ f.id \in RequestNo
  /\ \A f \in Range(toRs) : \/ f.kind = "request" /\ f.id \in RequestNo
                            \/ f.kind = "reply" /\ f.id \in CallId
  /\ IsInjective(toPy) /\ IsInjective(toRs) /\ IsInjective(queue)

LiveInv ==
  /\ TypeOK
  /\ reader = "reading" /\ ~closed
  /\ StackOK /\ CallsOK /\ RequestsOK /\ FramesOK

ChannelInv == Live => LiveInv

-----------------------------------------------------------------------------
(***************************************************************************)
(* Pipes and queue as sequences without repetition.                        *)
(***************************************************************************)

\* A sequence as a function.
LEMMA SeqView ==
  ASSUME NEW S, NEW s \in Seq(S)
  PROVE  /\ Len(s) \in Nat /\ DOMAIN s = 1 .. Len(s)
         /\ Len(s) = 0 <=> s = <<>>
         /\ \A i \in DOMAIN s : s[i] \in S
  OBVIOUS

\* Appending an element.
LEMMA AppendRange ==
  ASSUME NEW S, NEW s \in Seq(S), NEW x \in S
  PROVE  /\ Append(s, x) \in Seq(S)
         /\ Range(Append(s, x)) = Range(s) \cup {x}
         /\ IsInjective(s) /\ x \notin Range(s) => IsInjective(Append(s, x))
<1> DEFINE t == Append(s, x)
<1>1. /\ t \in Seq(S) /\ Len(t) = Len(s) + 1 /\ Len(s) \in Nat
      /\ DOMAIN s = 1 .. Len(s) /\ DOMAIN t = 1 .. Len(t)
      /\ \A i \in 1 .. Len(s) : t[i] = s[i]
      /\ t[Len(s) + 1] = x
  OBVIOUS
<1>2. Range(t) = Range(s) \cup {x}
  BY <1>1 DEF Range
<1>3. ASSUME IsInjective(s), x \notin Range(s) PROVE IsInjective(t)
  BY <1>1, <1>3 DEF IsInjective, Range
<1> QED
  BY <1>1, <1>2, <1>3

\* Taking the first element.
LEMMA TailRange ==
  ASSUME NEW S, NEW s \in Seq(S), s # <<>>, IsInjective(s)
  PROVE  /\ Head(s) \in S /\ Tail(s) \in Seq(S)
         /\ Head(s) \in Range(s)
         /\ Range(Tail(s)) = Range(s) \ {Head(s)}
         /\ IsInjective(Tail(s))
<1> DEFINE t == Tail(s)
<1>1. /\ t \in Seq(S) /\ Len(t) = Len(s) - 1 /\ Len(s) \in Nat /\ Len(s) > 0
      /\ DOMAIN s = 1 .. Len(s) /\ DOMAIN t = 1 .. Len(t)
      /\ \A i \in 1 .. Len(s) - 1 : t[i] = s[i + 1]
      /\ Head(s) = s[1] /\ s[1] \in S
  OBVIOUS
<1>2. Head(s) \in Range(s)
  BY <1>1 DEF Range
<1>3. ASSUME NEW y \in Range(t) PROVE y \in Range(s) \ {Head(s)}
  <2>1. PICK i \in 1 .. Len(s) - 1 : y = s[i + 1]
    BY <1>1 DEF Range
  <2>2. i + 1 \in DOMAIN s /\ 1 \in DOMAIN s /\ i + 1 # 1
    BY <1>1
  <2> QED
    BY <1>1, <2>1, <2>2 DEF Range, IsInjective
<1>4. ASSUME NEW y \in Range(s) \ {Head(s)} PROVE y \in Range(t)
  <2>1. PICK i \in 1 .. Len(s) : y = s[i]
    BY <1>1 DEF Range
  <2>2. i # 1
    BY <1>1, <2>1
  <2>3. i - 1 \in 1 .. Len(s) - 1 /\ t[i - 1] = s[(i - 1) + 1] /\ (i - 1) + 1 = i
    BY <1>1, <2>2
  <2> QED
    BY <1>1, <2>1, <2>3 DEF Range
<1>5. IsInjective(t)
  <2> SUFFICES ASSUME NEW i \in 1 .. Len(s) - 1, NEW j \in 1 .. Len(s) - 1,
                      t[i] = t[j]
               PROVE  i = j
    BY <1>1 DEF IsInjective
  <2>1. i + 1 \in DOMAIN s /\ j + 1 \in DOMAIN s /\ s[i + 1] = s[j + 1]
    BY <1>1
  <2> QED
    BY <2>1 DEF IsInjective
<1> QED
  BY <1>1, <1>2, <1>3, <1>4, <1>5

\* Frames are told apart by kind and number.
LEMMA FrameEqual ==
  /\ \A k, l, i, j : Frame(k, i) = Frame(l, j) <=> k = l /\ i = j
  /\ \A f \in Frames : f = Frame(f.kind, f.id)
  /\ \A k \in {"call", "request", "reply"} : \A n \in Nat :
       Frame(k, n) \in Frames /\ Frame(k, n).kind = k /\ Frame(k, n).id = n
BY DEF Frame, Frames

\* A pipe or the queue, when its first element has been taken.
LEMMA Shrinks ==
  ASSUME NEW S, NEW s, NEW t, s \in Seq(S), s # <<>>, t = Tail(s), IsInjective(s)
  PROVE  /\ Head(s) \in S /\ Head(s) \in Range(s)
         /\ t \in Seq(S) /\ IsInjective(t) /\ Range(t) = Range(s) \ {Head(s)}
  BY TailRange, Zenon

\* The stack, written out.
LEMMA StackView ==
  ASSUME TypeOK, StackOK
  PROVE  /\ stack = <<>> \/ Len(stack) = 1 \/ Len(stack) = 2
         /\ Len(stack) = 0 <=> stack = <<>>
         /\ DOMAIN stack = 1 .. Len(stack)
         /\ stack # <<>> => stack[1].id \in CallId
         /\ Len(stack) = 2 => stack[2].id \in CallId
         /\ \A c : OnStack(c) <=> \/ stack # <<>> /\ c = stack[1].id
                                  \/ Len(stack) = 2 /\ c = stack[2].id
         /\ \A r \in RequestNo :
              Served(r) <=> Len(stack) = 2 /\ r = stack[2].request
<1>1. /\ Len(stack) \in Nat /\ Len(stack) <= 2
      /\ DOMAIN stack = 1 .. Len(stack)
      /\ Len(stack) = 0 <=> stack = <<>>
      /\ \A i \in DOMAIN stack : stack[i].id \in CallId
  <2>1. stack \in Seq([id : CallId, serves : BOOLEAN, request : 0 .. MaxRequests])
    BY DEF TypeOK
  <2>2. Len(stack) <= 2
    BY DEF StackOK
  <2>3. PICK S : S = [id : CallId, serves : BOOLEAN, request : 0 .. MaxRequests]
    OBVIOUS
  <2>4. /\ stack \in Seq(S)
        /\ \A x \in S : x.id \in CallId
    BY <2>1, <2>3
  <2> QED
    BY <2>2, <2>4, SeqView
<1>2. CASE Len(stack) = 0
  BY <1>1, <1>2 DEF OnStack, Served
<1>3. CASE Len(stack) = 1
  <2>1. DOMAIN stack = {1} /\ stack[1].request = 0 /\ stack # <<>>
    BY <1>1, <1>3 DEF StackOK
  <2>2. \A r \in RequestNo : r # 0
    BY ChannelAssumption DEF RequestNo
  <2> QED
    BY <1>1, <1>3, <2>1, <2>2 DEF OnStack, Served
<1>4. CASE Len(stack) = 2
  <2>1. DOMAIN stack = {1, 2} /\ stack[1].request = 0 /\ stack # <<>>
    BY <1>1, <1>4 DEF StackOK
  <2>2. \A r \in RequestNo : r # 0
    BY ChannelAssumption DEF RequestNo
  <2> QED
    BY <1>1, <1>4, <2>1, <2>2 DEF OnStack, Served
<1> QED
  BY <1>1, <1>2, <1>3, <1>4

\* While a request is served by a nested call, the outer call is running.
LEMMA OuterRuns ==
  ASSUME LiveInv, Len(stack) = 2
  PROVE  call[stack[1].id] = "running" /\ stack[2].request \in Pending
<1>1. TypeOK /\ StackOK /\ RequestsOK
  BY DEF LiveInv
<1>2. /\ stack[2].request \in RequestNo
      /\ request[stack[2].request].caller = stack[1].id
  BY <1>1 DEF StackOK
<1>3. Served(stack[2].request)
  BY <1>1, <1>2, StackView
<1> QED
  BY <1>1, <1>2, <1>3 DEF RequestsOK, Pending

-----------------------------------------------------------------------------
(***************************************************************************)
(* What LiveInv says of the messages.                                      *)
(***************************************************************************)

\* Replies nest.
LEMMA LiveNests == ChannelInv => RepliesNest
<1> SUFFICES ASSUME LiveInv
             PROVE  /\ \A i \in DOMAIN toPy :
                         toPy[i].kind = "reply" => toPy[i].id \in Pending
                    /\ \A i \in DOMAIN toRs : toRs[i].kind = "reply" =>
                         \/ stack # <<>> /\ toRs[i].id = Top.id
                         \/ toRs[i].id \in abandoned
                    /\ \A i \in DOMAIN toRs : toRs[i].kind = "request" =>
                         Outstanding(request[toRs[i].id].caller)
                    /\ \A c \in Running : Outstanding(c)
  BY DEF ChannelInv, Live, RepliesNest
<1>1. TypeOK /\ StackOK /\ CallsOK /\ RequestsOK /\ FramesOK
  BY DEF LiveInv
<1>2. /\ toPy \in Seq(Frames) /\ toRs \in Seq(Frames)
      /\ \A i \in DOMAIN toPy : toPy[i] \in Frames /\ toPy[i] \in Range(toPy)
      /\ \A i \in DOMAIN toRs : toRs[i] \in Frames /\ toRs[i] \in Range(toRs)
  BY <1>1 DEF TypeOK, Range
<1>3. ASSUME NEW i \in DOMAIN toPy, toPy[i].kind = "reply"
      PROVE  toPy[i].id \in Pending
  <2>1. toPy[i].id \in RequestNo /\ toPy[i] = Frame("reply", toPy[i].id)
    BY <1>1, <1>2, <1>3, FrameEqual DEF FramesOK
  <2> QED
    BY <1>1, <1>2, <2>1 DEF RequestsOK, Answered, Pending
<1>4. ASSUME NEW i \in DOMAIN toRs, toRs[i].kind = "reply"
      PROVE  \/ stack # <<>> /\ toRs[i].id = Top.id
             \/ toRs[i].id \in abandoned
  <2>1. toRs[i].id \in CallId /\ toRs[i] = Frame("reply", toRs[i].id)
    BY <1>1, <1>2, <1>4, FrameEqual DEF FramesOK
  <2>2. Outstanding(toRs[i].id) /\ call[toRs[i].id] = "done"
    BY <1>1, <1>2, <2>1 DEF CallsOK
  <2>3. Len(stack) = 2 => toRs[i].id # stack[1].id
    BY <2>2, OuterRuns
  <2> QED
    BY <1>1, <2>2, <2>3, StackView DEF Outstanding, Top, Last
<1>5. ASSUME NEW i \in DOMAIN toRs, toRs[i].kind = "request"
      PROVE  Outstanding(request[toRs[i].id].caller)
  <2>1. toRs[i].id \in RequestNo /\ toRs[i] = Frame("request", toRs[i].id)
    BY <1>1, <1>2, <1>5, FrameEqual DEF FramesOK
  <2>2. toRs[i].id \in Pending
    BY <1>1, <1>2, <2>1 DEF RequestsOK, Asked, Pending
  <2> QED
    BY <1>1, <2>1, <2>2 DEF RequestsOK, CallsOK
<1>6. \A c \in Running : Outstanding(c)
  BY <1>1 DEF Running, CallsOK
<1> QED
  BY <1>3, <1>4, <1>5, <1>6

-----------------------------------------------------------------------------
(***************************************************************************)
(* The component's steps.  None of them touches the stack.                 *)
(***************************************************************************)

\* A handler registers a request under a number that has not been used.
LEMMA LiveRegister ==
  ASSUME LiveInv, NEW r \in RequestNo, NEW c \in CallId, Register(r, c)
  PROVE  LiveInv'
<1>1. TypeOK /\ StackOK /\ CallsOK /\ RequestsOK /\ FramesOK
  BY DEF LiveInv
<1>2. /\ UNCHANGED <<stack, alive, dead, abandoned, toPy, toRs, reader, closed, failing,
                     queue, call, dropped>>
      /\ request[r].pc = "none" /\ call[c] = "running"
      /\ request' = [request EXCEPT ![r] =
           [pc |-> "registered", future |-> "pending", caller |-> c]]
  BY DEF Register, rsVars
<1>3. /\ request'[r].pc = "registered" /\ request'[r].future = "pending"
      /\ request'[r].caller = c
      /\ \A q \in RequestNo \ {r} : request'[q] = request[q]
  BY <1>1, <1>2 DEF TypeOK
<1>4. TypeOK'
  <2>1. c \in 0 .. MaxCalls
    BY DEF CallId
  <2>2. request' \in [RequestNo ->
          [pc : {"none", "registered", "waiting", "returned"},
           future : {"pending", "set", "failed"}, caller : 0 .. MaxCalls]]
    BY <1>1, <1>2, <2>1 DEF TypeOK
  <2> QED
    BY <1>1, <1>2, <2>2 DEF TypeOK
<1>5. \A q \in RequestNo : /\ Asked(q)' <=> Asked(q)
                           /\ Served(q)' <=> Served(q)
                           /\ Answered(q)' <=> Answered(q)
  BY <1>2 DEF Asked, Served, Answered
<1>6. StackOK'
  <2>1. Len(stack) = 2 => stack[2].request # r
    BY <1>2, OuterRuns DEF Pending
  <2> QED
    BY <1>1, <1>2, <1>3, <2>1 DEF StackOK
<1>7. CallsOK' /\ FramesOK'
  BY <1>1, <1>2 DEF CallsOK, FramesOK, Outstanding, OnStack
<1>8. RequestsOK'
  BY <1>1, <1>2, <1>3, <1>5 DEF RequestsOK, Pending
<1> QED
  BY <1>2, <1>4, <1>6, <1>7, <1>8 DEF LiveInv

\* _send puts the request into the pipe, or the caller gives up before it has
\* been sent.
LEMMA LiveSendRequest ==
  ASSUME LiveInv, NEW r \in RequestNo, SendRequest(r)
  PROVE  LiveInv'
<1>1. TypeOK /\ StackOK /\ CallsOK /\ RequestsOK /\ FramesOK
  BY DEF LiveInv
<1>2. /\ UNCHANGED <<stack, alive, dead, abandoned, toPy, reader, closed, failing,
                     queue, call, dropped>>
      /\ request[r].pc = "registered"
      /\ \/ /\ toRs' = Append(toRs, Frame("request", r))
            /\ request' = [request EXCEPT ![r].pc = "waiting"]
         \/ /\ request' = [request EXCEPT ![r].pc = "returned"]
            /\ toRs' = toRs
  BY DEF SendRequest, rsVars
<1>3. /\ request'[r].future = request[r].future
      /\ request'[r].caller = request[r].caller
      /\ \A q \in RequestNo \ {r} : request'[q] = request[q]
      /\ request' \in [RequestNo ->
          [pc : {"none", "registered", "waiting", "returned"},
           future : {"pending", "set", "failed"}, caller : 0 .. MaxCalls]]
      /\ \/ request'[r].pc = "waiting" /\ toRs' = Append(toRs, Frame("request", r))
         \/ request'[r].pc = "returned" /\ toRs' = toRs
  BY <1>1, <1>2 DEF TypeOK
<1>4. /\ ~Asked(r) /\ ~Served(r) /\ ~Answered(r)
      /\ request[r].future = "pending"
      /\ r \in Pending
  BY <1>1, <1>2 DEF RequestsOK, Pending
<1>5. /\ Frame("request", r) \in Frames
      /\ Frame("request", r).kind = "request" /\ Frame("request", r).id = r
  BY FrameEqual DEF RequestNo
<1>6. /\ toRs' \in Seq(Frames) /\ IsInjective(toRs')
      /\ \/ request'[r].pc = "waiting" /\ Range(toRs') = Range(toRs) \cup {Frame("request", r)}
         \/ request'[r].pc = "returned" /\ Range(toRs') = Range(toRs)
  <2>1. /\ toRs \in Seq(Frames) /\ IsInjective(toRs)
        /\ Frame("request", r) \notin Range(toRs)
    BY <1>1, <1>4 DEF TypeOK, FramesOK, Asked
  <2>2. CASE request'[r].pc = "waiting" /\ toRs' = Append(toRs, Frame("request", r))
    <3>1. PICK t : t = Append(toRs, Frame("request", r))
      OBVIOUS
    <3>2. /\ t \in Seq(Frames) /\ IsInjective(t)
          /\ Range(t) = Range(toRs) \cup {Frame("request", r)}
      BY <1>5, <2>1, <3>1, AppendRange, Zenon
    <3> QED
      BY <2>2, <3>1, <3>2
  <2>3. CASE request'[r].pc = "returned" /\ toRs' = toRs
    BY <2>1, <2>3
  <2> QED
    BY <1>3, <2>2, <2>3
<1>7. TypeOK'
  BY <1>1, <1>2, <1>3, <1>6 DEF TypeOK
<1>8. StackOK'
  <2>1. Len(stack) = 2 => stack[2].request # r
    BY <1>1, <1>4, StackView DEF StackOK
  <2> QED
    BY <1>1, <1>2, <1>3, <2>1 DEF StackOK
<1>9. CallsOK'
  BY <1>1, <1>2, <1>6, FrameEqual DEF CallsOK, Outstanding, OnStack
<1>10. FramesOK'
  BY <1>1, <1>2, <1>5, <1>6 DEF FramesOK
<1>11. RequestsOK'
  <2>1. \A q \in RequestNo : /\ Asked(q)' <=> Asked(q) \/ (q = r /\ request'[r].pc = "waiting")
                             /\ Served(q)' <=> Served(q)
                             /\ Answered(q)' <=> Answered(q)
    BY <1>2, <1>4, <1>6, FrameEqual DEF Asked, Served, Answered
  <2> QED
    BY <1>1, <1>2, <1>3, <1>4, <2>1 DEF RequestsOK, Pending
<1> QED
  BY <1>2, <1>7, <1>8, <1>9, <1>10, <1>11 DEF LiveInv

\* A request returns when its future is resolved: nothing of it is under way.
LEMMA LiveReturns ==
  ASSUME LiveInv, NEW r \in RequestNo, RequestReturns(r)
  PROVE  LiveInv'
<1>1. TypeOK /\ StackOK /\ CallsOK /\ RequestsOK /\ FramesOK
  BY DEF LiveInv
<1>2. /\ UNCHANGED <<stack, alive, dead, abandoned, toPy, toRs, reader, closed, failing,
                     queue, call, dropped>>
      /\ request[r].pc = "waiting" /\ request[r].future # "pending"
      /\ request' = [request EXCEPT ![r].pc = "returned"]
  BY DEF RequestReturns, rsVars
<1>3. /\ request'[r].pc = "returned"
      /\ request'[r].caller = request[r].caller
      /\ \A q \in RequestNo \ {r} : request'[q] = request[q]
      /\ request' \in [RequestNo ->
          [pc : {"none", "registered", "waiting", "returned"},
           future : {"pending", "set", "failed"}, caller : 0 .. MaxCalls]]
  BY <1>1, <1>2 DEF TypeOK
<1>4. \A q \in RequestNo : /\ Asked(q)' <=> Asked(q)
                           /\ Served(q)' <=> Served(q)
                           /\ Answered(q)' <=> Answered(q)
  BY <1>2 DEF Asked, Served, Answered
<1>5. TypeOK'
  BY <1>1, <1>2, <1>3 DEF TypeOK
<1>6. StackOK'
  <2>1. Len(stack) = 2 => request'[stack[2].request].caller
                            = request[stack[2].request].caller
    BY <1>1, <1>3 DEF StackOK
  <2> QED
    BY <1>1, <1>2, <2>1 DEF StackOK
<1>7. CallsOK' /\ FramesOK'
  BY <1>1, <1>2 DEF CallsOK, FramesOK, Outstanding, OnStack
<1>8. RequestsOK'
  BY <1>1, <1>2, <1>3, <1>4 DEF RequestsOK, Pending
<1> QED
  BY <1>2, <1>5, <1>6, <1>7, <1>8 DEF LiveInv

\* The reader takes a call from the pipe and submits it.
LEMMA LiveReadCall ==
  ASSUME LiveInv, ReadCall
  PROVE  LiveInv'
<1>1. TypeOK /\ StackOK /\ CallsOK /\ RequestsOK /\ FramesOK
  BY DEF LiveInv
<1>2. PICK c : c = Head(toPy).id
  OBVIOUS
<1>3. /\ UNCHANGED <<stack, alive, dead, abandoned, toRs, reader, closed, failing,
                     request, dropped>>
      /\ toPy # <<>> /\ Head(toPy).kind = "call"
      /\ toPy' = Tail(toPy)
      /\ queue' = Append(queue, c)
      /\ call' = [call EXCEPT ![c] = "queued"]
  BY <1>2 DEF ReadCall, rsVars
<1>4. /\ toPy \in Seq(Frames) /\ IsInjective(toPy)
      /\ queue \in Seq(CallId) /\ IsInjective(queue)
  BY <1>1 DEF TypeOK, FramesOK
<1>5. /\ Head(toPy) \in Frames /\ Head(toPy) \in Range(toPy)
      /\ toPy' \in Seq(Frames) /\ IsInjective(toPy')
      /\ Range(toPy') = Range(toPy) \ {Head(toPy)}
  BY <1>3, <1>4, Shrinks
<1>6. /\ c \in CallId /\ Head(toPy) = Frame("call", c)
      /\ call[c] = "sent" /\ Outstanding(c)
  <2>1. c \in CallId /\ Head(toPy) = Frame("call", c)
    BY <1>1, <1>2, <1>3, <1>5, FrameEqual DEF FramesOK
  <2> QED
    BY <1>1, <1>5, <2>1 DEF CallsOK
<1>7. c \notin Range(queue)
  BY <1>1, <1>6 DEF CallsOK
<1>8. /\ queue' \in Seq(CallId) /\ IsInjective(queue')
      /\ Range(queue') = Range(queue) \cup {c}
  <2>1. PICK t : t = Append(queue, c)
    OBVIOUS
  <2>2. t \in Seq(CallId) /\ IsInjective(t) /\ Range(t) = Range(queue) \cup {c}
    BY <1>4, <1>6, <1>7, <2>1, AppendRange, Zenon
  <2> QED
    BY <1>3, <2>1, <2>2
<1>9. /\ call'[c] = "queued"
      /\ \A d \in CallId \ {c} : call'[d] = call[d]
      /\ call' \in [CallId -> {"none", "sent", "queued", "running", "done",
                              "cancelled"}]
  BY <1>1, <1>3, <1>6 DEF TypeOK
<1>10. TypeOK'
  BY <1>1, <1>3, <1>5, <1>8, <1>9 DEF TypeOK
<1>11. StackOK' /\ \A d : Outstanding(d)' <=> Outstanding(d)
  BY <1>1, <1>3 DEF StackOK, Outstanding, OnStack
<1>12. CallsOK'
  <2> SUFFICES ASSUME NEW d \in CallId
               PROVE  /\ Outstanding(d) => call'[d] # "none"
                      /\ call'[d] \in {"sent", "queued", "running"} => Outstanding(d)
                      /\ Frame("call", d) \in Range(toPy') => call'[d] = "sent"
                      /\ d \in Range(queue') => call'[d] = "queued"
                      /\ Frame("reply", d) \in Range(toRs) =>
                           call'[d] = "done" /\ Outstanding(d)
    BY <1>3, <1>11 DEF CallsOK
  <2>1. CASE d = c
    <3>1. Frame("call", d) \notin Range(toPy')
      BY <1>5, <1>6, <2>1
    <3>2. Frame("reply", d) \notin Range(toRs)
      BY <1>1, <1>6, <2>1 DEF CallsOK
    <3> QED
      BY <1>6, <1>9, <2>1, <3>1, <3>2
  <2>2. CASE d # c
    BY <1>1, <1>5, <1>8, <1>9, <2>2 DEF CallsOK
  <2> QED
    BY <2>1, <2>2
<1>13. FramesOK'
  BY <1>1, <1>3, <1>5, <1>8 DEF FramesOK
<1>14. RequestsOK'
  <2>1. \A q \in RequestNo : /\ Asked(q)' <=> Asked(q)
                             /\ Served(q)' <=> Served(q)
                             /\ Answered(q)' <=> Answered(q)
    BY <1>3, <1>5, <1>6, FrameEqual DEF Asked, Served, Answered
  <2> QED
    BY <1>1, <1>3, <1>6, <1>9, <2>1 DEF RequestsOK, Pending
<1> QED
  BY <1>3, <1>10, <1>11, <1>12, <1>13, <1>14 DEF LiveInv

\* The reader takes a reply from the pipe: its request still waits, so the
\* reply is not unknown.
LEMMA LiveReadReply ==
  ASSUME LiveInv, ReadReply
  PROVE  LiveInv'
<1>1. TypeOK /\ StackOK /\ CallsOK /\ RequestsOK /\ FramesOK
  BY DEF LiveInv
<1>2. PICK r : r = Head(toPy).id
  OBVIOUS
<1>3. /\ UNCHANGED <<stack, alive, dead, abandoned, toRs, queue, call, dropped>>
      /\ toPy # <<>> /\ Head(toPy).kind = "reply"
      /\ toPy' = Tail(toPy)
      /\ r \in Pending =>
           /\ request' = [request EXCEPT ![r].future = "set"]
           /\ UNCHANGED <<reader, closed, failing>>
  BY <1>2 DEF ReadReply, rsVars
<1>4. toPy \in Seq(Frames) /\ IsInjective(toPy)
  BY <1>1 DEF TypeOK, FramesOK
<1>5. /\ Head(toPy) \in Frames /\ Head(toPy) \in Range(toPy)
      /\ toPy' \in Seq(Frames) /\ IsInjective(toPy')
      /\ Range(toPy') = Range(toPy) \ {Head(toPy)}
  BY <1>3, <1>4, Shrinks
<1>6. /\ r \in RequestNo /\ Head(toPy) = Frame("reply", r)
      /\ Answered(r) /\ ~Asked(r) /\ ~Served(r)
      /\ request[r].pc = "waiting" /\ r \in Pending
  <2>1. r \in RequestNo /\ Head(toPy) = Frame("reply", r)
    BY <1>1, <1>2, <1>3, <1>5, FrameEqual DEF FramesOK
  <2>2. Answered(r)
    BY <1>5, <2>1 DEF Answered
  <2> QED
    BY <1>1, <2>1, <2>2 DEF RequestsOK, Pending
<1>7. /\ request'[r].pc = "waiting" /\ request'[r].future = "set"
      /\ request'[r].caller = request[r].caller
      /\ \A q \in RequestNo \ {r} : request'[q] = request[q]
      /\ request' \in [RequestNo ->
          [pc : {"none", "registered", "waiting", "returned"},
           future : {"pending", "set", "failed"}, caller : 0 .. MaxCalls]]
  <2>1. request \in [RequestNo ->
          [pc : {"none", "registered", "waiting", "returned"},
           future : {"pending", "set", "failed"}, caller : 0 .. MaxCalls]]
    BY <1>1 DEF TypeOK
  <2>2. request' = [request EXCEPT ![r].future = "set"]
    BY <1>3, <1>6
  <2> QED
    BY <1>6, <2>1, <2>2
<1>8. TypeOK'
  BY <1>1, <1>3, <1>5, <1>6, <1>7 DEF TypeOK
<1>9. StackOK'
  <2>1. Len(stack) = 2 => request'[stack[2].request].caller
                            = request[stack[2].request].caller
    BY <1>1, <1>7 DEF StackOK
  <2> QED
    BY <1>1, <1>3, <2>1 DEF StackOK
<1>10. CallsOK'
  <2>1. \A d \in CallId : Frame("call", d) \in Range(toPy') =>
                            Frame("call", d) \in Range(toPy)
    BY <1>5
  <2> QED
    BY <1>1, <1>3, <2>1 DEF CallsOK, Outstanding, OnStack
<1>11. FramesOK'
  BY <1>1, <1>3, <1>5 DEF FramesOK
<1>12. RequestsOK'
  <2>1. \A q \in RequestNo : /\ Asked(q)' <=> Asked(q)
                             /\ Served(q)' <=> Served(q)
                             /\ Answered(q)' <=> Answered(q) /\ q # r
    BY <1>3, <1>5, <1>6, FrameEqual DEF Asked, Served, Answered
  <2> QED
    BY <1>1, <1>3, <1>6, <1>7, <2>1 DEF RequestsOK, Pending
<1> QED
  BY <1>3, <1>6, <1>8, <1>9, <1>10, <1>11, <1>12 DEF LiveInv

\* The pool starts the first queued call.
LEMMA LiveStartHandler ==
  ASSUME LiveInv, StartHandler
  PROVE  LiveInv'
<1>1. TypeOK /\ StackOK /\ CallsOK /\ RequestsOK /\ FramesOK
  BY DEF LiveInv
<1>2. PICK c : c = Head(queue)
  OBVIOUS
<1>3. /\ UNCHANGED <<stack, alive, dead, abandoned, toPy, toRs, reader, closed, failing,
                     request, dropped>>
      /\ queue # <<>>
      /\ queue' = Tail(queue)
      /\ call' = [call EXCEPT ![c] = "running"]
  BY <1>2 DEF StartHandler, rsVars
<1>4. queue \in Seq(CallId) /\ IsInjective(queue)
  BY <1>1 DEF TypeOK, FramesOK
<1>5. /\ c \in CallId /\ c \in Range(queue)
      /\ queue' \in Seq(CallId) /\ IsInjective(queue')
      /\ Range(queue') = Range(queue) \ {c}
  BY <1>2, <1>3, <1>4, Shrinks
<1>6. call[c] = "queued"
  BY <1>1, <1>5 DEF CallsOK
<1>7. /\ call'[c] = "running"
      /\ \A d \in CallId \ {c} : call'[d] = call[d]
      /\ call' \in [CallId -> {"none", "sent", "queued", "running", "done",
                              "cancelled"}]
  BY <1>1, <1>3, <1>5 DEF TypeOK
<1>8. TypeOK'
  BY <1>1, <1>3, <1>5, <1>7 DEF TypeOK
<1>9. StackOK'
  BY <1>1, <1>3 DEF StackOK
<1>10. CallsOK'
  BY <1>1, <1>3, <1>5, <1>6, <1>7 DEF CallsOK, Outstanding, OnStack
<1>11. FramesOK'
  BY <1>1, <1>3, <1>5 DEF FramesOK
<1>12. RequestsOK'
  BY <1>1, <1>3, <1>6, <1>7 DEF RequestsOK, Pending, Asked, Served, Answered
<1> QED
  BY <1>3, <1>8, <1>9, <1>10, <1>11, <1>12 DEF LiveInv

\* A handler ends, with none of its requests outstanding: the one reply of a
\* call that is on the stack.
LEMMA LiveFinishHandler ==
  ASSUME LiveInv, NEW c \in CallId, FinishHandler(c)
  PROVE  LiveInv'
<1>1. TypeOK /\ StackOK /\ CallsOK /\ RequestsOK /\ FramesOK
  BY DEF LiveInv
<1>2. /\ UNCHANGED <<stack, alive, dead, abandoned, toPy, reader, closed, failing,
                     queue, request>>
      /\ call[c] = "running"
      /\ \A r \in Pending : request[r].caller # c
      /\ call' = [call EXCEPT ![c] = "done"]
      /\ \/ toRs' = Append(toRs, Frame("reply", c)) \/ toRs' = toRs
      /\ dropped' \subseteq dropped \cup {c}
  BY DEF FinishHandler, rsVars
<1>3. toRs \in Seq(Frames) /\ IsInjective(toRs)
  BY <1>1 DEF TypeOK, FramesOK
<1>4. /\ Frame("reply", c) \in Frames /\ Frame("reply", c) \notin Range(toRs)
      /\ Frame("reply", c).kind = "reply" /\ Frame("reply", c).id = c
      /\ Outstanding(c)
  <2>1. Frame("reply", c) \notin Range(toRs) /\ Outstanding(c)
    BY <1>1, <1>2 DEF CallsOK
  <2>2. c \in Nat
    BY DEF CallId
  <2> QED
    BY <2>1, <2>2, FrameEqual
<1>5. /\ toRs' \in Seq(Frames) /\ IsInjective(toRs')
      /\ Range(toRs') \in {Range(toRs), Range(toRs) \cup {Frame("reply", c)}}
  <2>1. CASE toRs' = Append(toRs, Frame("reply", c))
    <3>1. /\ toRs' \in Seq(Frames) /\ IsInjective(toRs')
          /\ Range(toRs') = Range(toRs) \cup {Frame("reply", c)}
      <4>1. PICK t : t = Append(toRs, Frame("reply", c))
        OBVIOUS
      <4>2. /\ t \in Seq(Frames) /\ IsInjective(t)
            /\ Range(t) = Range(toRs) \cup {Frame("reply", c)}
        BY <1>3, <1>4, <4>1, AppendRange, Zenon
      <4> QED
        BY <2>1, <4>1, <4>2
    <3> QED
      BY <3>1
  <2>2. CASE toRs' = toRs
    BY <1>3, <2>2
  <2> QED
    BY <1>2, <2>1, <2>2
<1>6. /\ call'[c] = "done"
      /\ \A d \in CallId \ {c} : call'[d] = call[d]
      /\ call' \in [CallId -> {"none", "sent", "queued", "running", "done",
                              "cancelled"}]
  BY <1>1, <1>2 DEF TypeOK
<1>7. TypeOK'
  BY <1>1, <1>2, <1>5, <1>6 DEF TypeOK
<1>8. StackOK' /\ \A d : Outstanding(d)' <=> Outstanding(d)
  BY <1>1, <1>2 DEF StackOK, Outstanding, OnStack
<1>9. CallsOK'
  <2>1. \A d \in CallId : Frame("reply", d) \in Range(toRs') =>
          d = c \/ Frame("reply", d) \in Range(toRs)
    BY <1>5, FrameEqual
  <2> QED
    BY <1>1, <1>2, <1>4, <1>6, <1>8, <2>1 DEF CallsOK
<1>10. FramesOK'
  BY <1>1, <1>2, <1>4, <1>5 DEF FramesOK
<1>11. RequestsOK'
  <2>1. \A q \in RequestNo : /\ Asked(q)' <=> Asked(q)
                             /\ Served(q)' <=> Served(q)
                             /\ Answered(q)' <=> Answered(q)
    BY <1>2, <1>5, FrameEqual DEF Asked, Served, Answered
  <2> QED
    BY <1>1, <1>2, <1>6, <2>1 DEF RequestsOK, Pending
<1> QED
  BY <1>2, <1>7, <1>8, <1>9, <1>10, <1>11 DEF LiveInv

-----------------------------------------------------------------------------
(***************************************************************************)
(* The Worker's steps.                                                     *)
(***************************************************************************)

Calls == [id : CallId, serves : BOOLEAN, request : 0 .. MaxRequests]

\* Pushing a call and popping one.
LEMMA PushView ==
  ASSUME NEW S, NEW s \in Seq(S), NEW x \in S
  PROVE  LET t == Append(s, x) IN
         /\ t \in Seq(S) /\ t # <<>> /\ Len(t) = Len(s) + 1
         /\ DOMAIN t = 1 .. Len(s) + 1
         /\ \A i \in 1 .. Len(s) : t[i] = s[i]
         /\ t[Len(s) + 1] = x
  OBVIOUS

\* Popping takes the last entry away and leaves the others.
LEMMA PopView ==
  ASSUME NEW S, NEW s \in Seq(S), s # <<>>
  PROVE  LET t == Front(s) IN
         /\ t \in Seq(S) /\ Len(t) = Len(s) - 1
         /\ DOMAIN t = 1 .. Len(s) - 1
         /\ \A i \in 1 .. Len(s) - 1 : t[i] = s[i]
         /\ Len(t) = 0 <=> t = <<>>
<1>1. Len(s) \in Nat /\ Len(s) > 0 /\ \A i \in 1 .. Len(s) : s[i] \in S
  OBVIOUS
<1>2. PICK n : n = Len(s) - 1
  OBVIOUS
<1>3. n \in Nat /\ n <= Len(s)
  BY <1>1, <1>2
<1>4. Front(s) = SubSeq(s, 1, n)
  BY <1>2 DEF Front
<1>5. Front(s) = [i \in 1 .. n |-> s[i]]
  BY <1>1, <1>3, <1>4
<1>6. Front(s) \in Seq(S) /\ Len(Front(s)) = n
  BY <1>1, <1>3, <1>5
<1>7. /\ DOMAIN Front(s) = 1 .. n
      /\ \A i \in 1 .. n : Front(s)[i] = s[i]
  BY <1>5
<1>8. Len(Front(s)) = 0 <=> Front(s) = <<>>
  BY <1>6, SeqView
<1> QED
  BY <1>2, <1>6, <1>7, <1>8

\* The first frame from the component, when it is a request.
LEMMA FirstRequest ==
  ASSUME LiveInv, Incoming("request"), toRs' = Tail(toRs)
  PROVE  LET r == Head(toRs).id IN
         /\ r \in RequestNo /\ Head(toRs) = Frame("request", r)
         /\ Asked(r) /\ ~Served(r) /\ ~Answered(r)
         /\ r \in Pending
         /\ request[r].pc = "waiting" /\ request[r].future = "pending"
         /\ Outstanding(request[r].caller)
         /\ toRs' \in Seq(Frames) /\ IsInjective(toRs')
         /\ Range(toRs') = Range(toRs) \ {Head(toRs)}
<1>1. TypeOK /\ StackOK /\ CallsOK /\ RequestsOK /\ FramesOK
  BY DEF LiveInv
<1>2. /\ toRs \in Seq(Frames) /\ IsInjective(toRs)
      /\ toRs # <<>> /\ Head(toRs).kind = "request"
      /\ toRs' = Tail(toRs)
  BY <1>1 DEF TypeOK, FramesOK, Incoming
<1>3. /\ Head(toRs) \in Frames /\ Head(toRs) \in Range(toRs)
      /\ toRs' \in Seq(Frames) /\ IsInjective(toRs')
      /\ Range(toRs') = Range(toRs) \ {Head(toRs)}
  BY <1>2, Shrinks
<1>4. PICK r : r = Head(toRs).id
  OBVIOUS
<1>5. r \in RequestNo /\ Head(toRs) = Frame("request", r)
  BY <1>1, <1>2, <1>3, <1>4, FrameEqual DEF FramesOK
<1>6. Asked(r)
  BY <1>3, <1>5 DEF Asked
<1>7. /\ ~Served(r) /\ ~Answered(r) /\ r \in Pending
      /\ request[r].pc = "waiting" /\ request[r].future = "pending"
      /\ request[r].caller \in CallId /\ call[request[r].caller] = "running"
  BY <1>1, <1>5, <1>6 DEF RequestsOK, Pending
<1>8. Outstanding(request[r].caller)
  BY <1>1, <1>7 DEF CallsOK
<1> QED
  BY <1>3, <1>4, <1>5, <1>6, <1>7, <1>8

\* A reply frame that is new in the pipe to the component.
LEMMA ReplyAppended ==
  ASSUME TypeOK, FramesOK, NEW r \in RequestNo, ~Answered(r),
         toPy' = Append(toPy, Frame("reply", r))
  PROVE  /\ toPy' \in Seq(Frames) /\ IsInjective(toPy')
         /\ Range(toPy') = Range(toPy) \cup {Frame("reply", r)}
         /\ Frame("reply", r).kind = "reply" /\ Frame("reply", r).id = r
<1>1. /\ toPy \in Seq(Frames) /\ IsInjective(toPy)
      /\ Frame("reply", r) \notin Range(toPy)
  BY DEF TypeOK, FramesOK, Answered
<1>2. /\ Frame("reply", r) \in Frames
      /\ Frame("reply", r).kind = "reply" /\ Frame("reply", r).id = r
  BY FrameEqual DEF RequestNo
<1>3. PICK t : t = Append(toPy, Frame("reply", r))
  OBVIOUS
<1>4. /\ t \in Seq(Frames) /\ IsInjective(t)
      /\ Range(t) = Range(toPy) \cup {Frame("reply", r)}
  BY <1>1, <1>2, <1>3, AppendRange, Zenon
<1> QED
  BY <1>2, <1>3, <1>4

\* A request is answered at once: one reply for it is under way.
LEMMA LiveAnswer ==
  ASSUME LiveInv, Answer
  PROVE  LiveInv'
<1>1. TypeOK /\ StackOK /\ CallsOK /\ RequestsOK /\ FramesOK
  BY DEF LiveInv
<1>2. PICK r : r = Head(toRs).id
  OBVIOUS
<1>3. /\ UNCHANGED <<stack, alive, dead, abandoned, reader, closed, failing, queue, call,
                     request, dropped>>
      /\ Incoming("request")
      /\ toRs' = Tail(toRs)
      /\ toPy' = Append(toPy, Frame("reply", r))
  BY <1>2 DEF Answer, rsVars, pyVars
<1>4. /\ r \in RequestNo /\ Head(toRs) = Frame("request", r)
      /\ Asked(r) /\ ~Served(r) /\ ~Answered(r)
      /\ request[r].pc = "waiting" /\ request[r].future = "pending"
      /\ toRs' \in Seq(Frames) /\ IsInjective(toRs')
      /\ Range(toRs') = Range(toRs) \ {Frame("request", r)}
  BY <1>2, <1>3, FirstRequest
<1>5. /\ toPy' \in Seq(Frames) /\ IsInjective(toPy')
      /\ Range(toPy') = Range(toPy) \cup {Frame("reply", r)}
      /\ Frame("reply", r).kind = "reply" /\ Frame("reply", r).id = r
  BY <1>1, <1>3, <1>4, ReplyAppended
<1>6. TypeOK'
  BY <1>1, <1>3, <1>4, <1>5 DEF TypeOK
<1>7. StackOK'
  BY <1>1, <1>3 DEF StackOK
<1>8. CallsOK'
  <2>1. \A d \in CallId :
          /\ Frame("call", d) \in Range(toPy') => Frame("call", d) \in Range(toPy)
          /\ Frame("reply", d) \in Range(toRs') => Frame("reply", d) \in Range(toRs)
    BY <1>4, <1>5, FrameEqual
  <2> QED
    BY <1>1, <1>3, <2>1 DEF CallsOK, Outstanding, OnStack
<1>9. FramesOK'
  BY <1>1, <1>3, <1>4, <1>5 DEF FramesOK
<1>10. RequestsOK'
  <2>1. \A q \in RequestNo : /\ Asked(q)' <=> Asked(q) /\ q # r
                             /\ Served(q)' <=> Served(q)
                             /\ Answered(q)' <=> Answered(q) \/ q = r
    BY <1>3, <1>4, <1>5, FrameEqual DEF Asked, Served, Answered
  <2> QED
    BY <1>1, <1>3, <1>4, <2>1 DEF RequestsOK, Pending
<1> QED
  BY <1>3, <1>6, <1>7, <1>8, <1>9, <1>10 DEF LiveInv

\* A new call is pushed and sent under a number that has not been used.
LEMMA SendView ==
  ASSUME LiveInv, NEW c \in CallId, NEW serves \in BOOLEAN,
         NEW r \in 0 .. MaxRequests, Send(c, serves, r)
  PROVE  /\ ~OnStack(c) /\ c \notin abandoned /\ call[c] = "none"
         /\ toPy' \in Seq(Frames) /\ IsInjective(toPy')
         /\ Range(toPy') = Range(toPy) \cup {Frame("call", c)}
         /\ Frame("call", c).kind = "call" /\ Frame("call", c).id = c
         /\ call' \in [CallId -> {"none", "sent", "queued", "running", "done",
                                 "cancelled"}]
         /\ call'[c] = "sent"
         /\ \A d \in CallId \ {c} : call'[d] = call[d]
         /\ stack' \in Seq(Calls) /\ stack' # <<>>
         /\ Len(stack') = Len(stack) + 1 /\ DOMAIN stack' = 1 .. Len(stack) + 1
         /\ \A i \in 1 .. Len(stack) : stack'[i] = stack[i]
         /\ stack'[Len(stack) + 1].id = c
         /\ stack'[Len(stack) + 1].serves = serves
         /\ stack'[Len(stack) + 1].request = r
<1>1. TypeOK /\ CallsOK /\ FramesOK
  BY DEF LiveInv
<1>2. /\ call[c] = "none"
      /\ stack' = Append(stack, [id |-> c, serves |-> serves, request |-> r])
      /\ toPy' = Append(toPy, Frame("call", c))
      /\ call' = [call EXCEPT ![c] = "sent"]
  BY DEF Send
<1>3. /\ ~OnStack(c) /\ c \notin abandoned
      /\ Frame("call", c) \notin Range(toPy)
      /\ toPy \in Seq(Frames) /\ IsInjective(toPy)
      /\ stack \in Seq(Calls)
  BY <1>1, <1>2 DEF CallsOK, Outstanding, TypeOK, FramesOK, Calls
<1>4. /\ Frame("call", c) \in Frames
      /\ Frame("call", c).kind = "call" /\ Frame("call", c).id = c
  BY FrameEqual DEF CallId
<1>5. PICK t : t = Append(toPy, Frame("call", c))
  OBVIOUS
<1>6. /\ t \in Seq(Frames) /\ IsInjective(t)
      /\ Range(t) = Range(toPy) \cup {Frame("call", c)}
  BY <1>3, <1>4, <1>5, AppendRange, Zenon
<1>7. /\ toPy' \in Seq(Frames) /\ IsInjective(toPy')
      /\ Range(toPy') = Range(toPy) \cup {Frame("call", c)}
  BY <1>2, <1>5, <1>6
<1>8. PICK x : x = [id |-> c, serves |-> serves, request |-> r]
  OBVIOUS
<1>9. x \in Calls /\ x.id = c /\ x.serves = serves /\ x.request = r
  BY <1>8 DEF Calls
<1>10. /\ stack' \in Seq(Calls) /\ stack' # <<>>
       /\ Len(stack') = Len(stack) + 1 /\ DOMAIN stack' = 1 .. Len(stack) + 1
       /\ \A i \in 1 .. Len(stack) : stack'[i] = stack[i]
       /\ stack'[Len(stack) + 1] = x
  BY <1>2, <1>3, <1>8, <1>9, PushView
<1>11. /\ call' \in [CallId -> {"none", "sent", "queued", "running", "done",
                               "cancelled"}]
       /\ call'[c] = "sent"
       /\ \A d \in CallId \ {c} : call'[d] = call[d]
  BY <1>1, <1>2 DEF TypeOK
<1> QED
  BY <1>2, <1>3, <1>4, <1>7, <1>9, <1>10, <1>11

\* What a sent call leaves of the calls and the pipes, whatever it serves.
LEMMA SendKeeps ==
  ASSUME LiveInv, NEW c \in CallId, NEW serves \in BOOLEAN,
         NEW r \in 0 .. MaxRequests, Send(c, serves, r), queue' = queue,
         abandoned' = abandoned,
         toRs' \in Seq(Frames), IsInjective(toRs'),
         Range(toRs') \subseteq Range(toRs)
  PROVE  CallsOK' /\ FramesOK'
<1>1. TypeOK /\ CallsOK /\ FramesOK
  BY DEF LiveInv
<1>2. /\ ~OnStack(c) /\ call[c] = "none"
      /\ IsInjective(toPy')
      /\ Range(toPy') = Range(toPy) \cup {Frame("call", c)}
      /\ Frame("call", c).kind = "call" /\ Frame("call", c).id = c
      /\ call'[c] = "sent"
      /\ \A d \in CallId \ {c} : call'[d] = call[d]
  BY SendView
<1>3. \A d : Outstanding(d)' <=> Outstanding(d) \/ d = c
  <2>1. /\ DOMAIN stack' = 1 .. Len(stack) + 1
        /\ \A i \in 1 .. Len(stack) : stack'[i] = stack[i]
        /\ stack'[Len(stack) + 1].id = c
    BY SendView
  <2>2. Len(stack) \in Nat /\ DOMAIN stack = 1 .. Len(stack)
    BY <1>1, SeqView DEF TypeOK
  <2> QED
    BY <2>1, <2>2 DEF Outstanding, OnStack
<1>4. CallsOK'
  <2> SUFFICES ASSUME NEW d \in CallId
               PROVE  /\ Outstanding(d)' => call'[d] # "none"
                      /\ call'[d] \in {"sent", "queued", "running"} => Outstanding(d)'
                      /\ Frame("call", d) \in Range(toPy') => call'[d] = "sent"
                      /\ d \in Range(queue) => call'[d] = "queued"
                      /\ Frame("reply", d) \in Range(toRs') =>
                           call'[d] = "done" /\ Outstanding(d)'
    BY DEF CallsOK
  <2>1. CASE d = c
    <3>1. d \notin Range(queue) /\ Frame("reply", d) \notin Range(toRs)
      BY <1>1, <1>2, <2>1 DEF CallsOK
    <3> QED
      BY <1>2, <1>3, <2>1, <3>1
  <2>2. CASE d # c
    <3>1. Frame("call", d) \in Range(toPy') => Frame("call", d) \in Range(toPy)
      BY <1>2, <2>2, FrameEqual
    <3> QED
      BY <1>1, <1>2, <1>3, <2>2, <3>1 DEF CallsOK
  <2> QED
    BY <2>1, <2>2
<1>5. FramesOK'
  BY <1>1, <1>2 DEF FramesOK
<1> QED
  BY <1>4, <1>5

\* A call from outside finds the channel at rest.
LEMMA LiveStartCall ==
  ASSUME LiveInv, NEW c \in CallId, NEW serves \in BOOLEAN, StartCall(c, serves)
  PROVE  LiveInv'
<1>1. TypeOK /\ StackOK /\ CallsOK /\ RequestsOK /\ FramesOK
  BY DEF LiveInv
<1>2. /\ stack = <<>> /\ Send(c, serves, 0) /\ (serves => abandoned = {})
      /\ UNCHANGED <<alive, dead, abandoned, toRs, reader, closed, failing, queue, request,
                     dropped>>
  BY DEF StartCall
<1>3. 0 \in 0 .. MaxRequests /\ Len(stack) = 0
  BY <1>2, ChannelAssumption
<1>4. /\ toPy' \in Seq(Frames)
      /\ Range(toPy') = Range(toPy) \cup {Frame("call", c)}
      /\ call' \in [CallId -> {"none", "sent", "queued", "running", "done",
                              "cancelled"}]
      /\ call[c] = "none" /\ \A d \in CallId \ {c} : call'[d] = call[d]
      /\ stack' \in Seq(Calls) /\ stack' # <<>>
      /\ Len(stack') = Len(stack) + 1 /\ DOMAIN stack' = 1 .. Len(stack) + 1
      /\ stack'[Len(stack) + 1].request = 0
      /\ stack'[Len(stack) + 1].serves = serves
  BY <1>2, <1>3, SendView
<1>5. /\ Len(stack') = 1 /\ DOMAIN stack' = {1} /\ stack'[1].request = 0
      /\ stack'[1].serves = serves
  BY <1>3, <1>4
<1>6. TypeOK'
  BY <1>1, <1>2, <1>4 DEF TypeOK, Calls
<1>7. StackOK'
  BY <1>2, <1>5 DEF StackOK
<1>8. CallsOK' /\ FramesOK'
  <2>1. toRs' \in Seq(Frames) /\ IsInjective(toRs') /\ Range(toRs') \subseteq Range(toRs)
    BY <1>1, <1>2 DEF TypeOK, FramesOK
  <2> QED
    BY <1>2, <1>3, <2>1, SendKeeps
<1>9. RequestsOK'
  <2>1. \A q \in RequestNo : ~Served(q)' /\ ~Served(q)
    BY <1>1, <1>2, <1>5, StackView, ChannelAssumption DEF Served, RequestNo
  <2>2. \A q \in RequestNo : (Asked(q)' <=> Asked(q)) /\ (Answered(q)' <=> Answered(q))
    BY <1>2, <1>4, FrameEqual DEF Asked, Answered
  <2> QED
    BY <1>1, <1>2, <1>4, <2>1, <2>2 DEF RequestsOK, Pending
<1> QED
  BY <1>2, <1>6, <1>7, <1>8, <1>9 DEF LiveInv

\* A nested call serves a request of the one call on the stack.
LEMMA LiveNestedCall ==
  ASSUME LiveInv, NEW c \in CallId, NestedCall(c)
  PROVE  LiveInv'
<1>1. TypeOK /\ StackOK /\ CallsOK /\ RequestsOK /\ FramesOK
  BY DEF LiveInv
<1>2. PICK r : r = Head(toRs).id
  OBVIOUS
<1>3. /\ Incoming("request") /\ stack # <<>> /\ Top.serves
      /\ toRs' = Tail(toRs)
      /\ Send(c, FALSE, r)
      /\ UNCHANGED <<alive, dead, abandoned, reader, closed, failing, queue, request, dropped>>
  BY <1>2 DEF NestedCall, Incoming
<1>4. /\ r \in RequestNo /\ Head(toRs) = Frame("request", r)
      /\ Asked(r) /\ ~Served(r) /\ ~Answered(r)
      /\ request[r].pc = "waiting" /\ request[r].future = "pending"
      /\ Outstanding(request[r].caller)
      /\ toRs' \in Seq(Frames) /\ IsInjective(toRs')
      /\ Range(toRs') = Range(toRs) \ {Frame("request", r)}
  BY <1>2, <1>3, FirstRequest
<1>5. r \in 0 .. MaxRequests /\ FALSE \in BOOLEAN
  BY <1>4, ChannelAssumption DEF RequestNo
<1>6. /\ Len(stack) = 1 /\ abandoned = {} /\ request[r].caller = stack[1].id
  <2>1. Len(stack) # 2
    BY <1>1, <1>3 DEF StackOK, Top, Last
  <2>2. Len(stack) = 1
    BY <1>1, <1>3, <2>1, StackView
  <2>3. abandoned = {}
    BY <1>1, <1>3, <2>2 DEF StackOK, Top, Last
  <2> QED
    BY <1>1, <1>3, <1>4, <2>2, <2>3, StackView DEF Outstanding
<1>7. /\ ~OnStack(c)
      /\ toPy' \in Seq(Frames)
      /\ Range(toPy') = Range(toPy) \cup {Frame("call", c)}
      /\ call' \in [CallId -> {"none", "sent", "queued", "running", "done",
                              "cancelled"}]
      /\ call[c] = "none" /\ \A d \in CallId \ {c} : call'[d] = call[d]
      /\ stack' \in Seq(Calls) /\ stack' # <<>>
      /\ Len(stack') = Len(stack) + 1 /\ DOMAIN stack' = 1 .. Len(stack) + 1
      /\ \A i \in 1 .. Len(stack) : stack'[i] = stack[i]
      /\ stack'[Len(stack) + 1].id = c
      /\ stack'[Len(stack) + 1].serves = FALSE
      /\ stack'[Len(stack) + 1].request = r
  BY <1>3, <1>5, SendView
<1>8. /\ Len(stack') = 2 /\ DOMAIN stack' = {1, 2}
      /\ stack'[1] = stack[1]
      /\ stack'[2].id = c /\ ~stack'[2].serves /\ stack'[2].request = r
  BY <1>6, <1>7
<1>9. TypeOK'
  BY <1>1, <1>3, <1>4, <1>7 DEF TypeOK, Calls
<1>10. StackOK'
  <2>1. c # stack[1].id
    BY <1>1, <1>3, <1>7, StackView
  <2>2. stack[1].request = 0
    BY <1>1, <1>3 DEF StackOK
  <2> QED
    BY <1>3, <1>4, <1>6, <1>8, <2>1, <2>2 DEF StackOK
<1>11. CallsOK' /\ FramesOK'
  BY <1>3, <1>4, <1>5, SendKeeps
<1>12. RequestsOK'
  <2>1. \A q \in RequestNo : ~Served(q)
    BY <1>1, <1>6, StackView
  <2>2. \A q \in RequestNo : Served(q)' <=> q = r
    <3>1. stack'[1].request = 0
      BY <1>1, <1>3, <1>8 DEF StackOK
    <3> QED
      BY <1>8, <3>1, ChannelAssumption DEF Served, RequestNo
  <2>3. \A q \in RequestNo : /\ Asked(q)' <=> Asked(q) /\ q # r
                             /\ Answered(q)' <=> Answered(q)
    BY <1>4, <1>7, FrameEqual DEF Asked, Answered
  <2> QED
    BY <1>1, <1>3, <1>4, <1>7, <2>1, <2>2, <2>3 DEF RequestsOK, Pending
<1> QED
  BY <1>3, <1>9, <1>10, <1>11, <1>12 DEF LiveInv

\* The reply to the innermost call is the only one there can be; what it served
\* is answered.
LEMMA LiveCallReturns ==
  ASSUME LiveInv, CallReturns
  PROVE  LiveInv'
<1>1. TypeOK /\ StackOK /\ CallsOK /\ RequestsOK /\ FramesOK
  BY DEF LiveInv
<1>2. PICK c : c = Head(toRs).id
  OBVIOUS
<1>3. /\ toRs # <<>> /\ Head(toRs).kind = "reply" /\ stack # <<>>
      /\ c = Top.id
      /\ toRs' = Tail(toRs)
      /\ stack' = Front(stack)
      /\ toPy' = IF Top.request = 0 THEN toPy
                 ELSE Append(toPy, Frame("reply", Top.request))
      /\ UNCHANGED <<alive, dead, abandoned, reader, closed, failing, queue, call, request,
                     dropped>>
  BY <1>2 DEF CallReturns, Incoming, pyVars
<1>4. /\ toRs \in Seq(Frames) /\ IsInjective(toRs) /\ stack \in Seq(Calls)
  BY <1>1 DEF TypeOK, FramesOK, Calls
<1>5. /\ Head(toRs) \in Frames /\ Head(toRs) \in Range(toRs)
      /\ toRs' \in Seq(Frames) /\ IsInjective(toRs')
      /\ Range(toRs') = Range(toRs) \ {Head(toRs)}
  BY <1>3, <1>4, Shrinks
<1>6. /\ c \in CallId /\ Head(toRs) = Frame("reply", c) /\ call[c] = "done"
  <2>1. c \in CallId /\ Head(toRs) = Frame("reply", c)
    BY <1>1, <1>2, <1>3, <1>5, FrameEqual DEF FramesOK
  <2> QED
    BY <1>1, <1>5, <2>1 DEF CallsOK
<1>7. /\ stack' \in Seq(Calls) /\ Len(stack') = Len(stack) - 1
      /\ DOMAIN stack' = 1 .. Len(stack) - 1
      /\ \A i \in 1 .. Len(stack) - 1 : stack'[i] = stack[i]
      /\ Len(stack') = 0 <=> stack' = <<>>
  BY <1>3, <1>4, PopView
<1>8. \A d \in CallId : d # c =>
        (Frame("reply", d) \in Range(toRs') <=> Frame("reply", d) \in Range(toRs))
  BY <1>5, <1>6, FrameEqual
<1>9. Frame("reply", c) \notin Range(toRs')
  BY <1>5, <1>6
<1>10. \A q \in RequestNo : Asked(q)' <=> Asked(q)
  BY <1>5, <1>6, FrameEqual DEF Asked
<1>11. CASE Len(stack) = 1
  <2>1. /\ Top = stack[1] /\ stack[1].request = 0 /\ toPy' = toPy
        /\ stack' = <<>> /\ Len(stack') = 0 /\ DOMAIN stack' = {}
    BY <1>1, <1>3, <1>7, <1>11 DEF Top, Last, StackOK
  <2>2. \A d : OnStack(d) <=> d = c
    BY <1>1, <1>3, <1>11, <2>1, StackView
  <2>3. \A d : ~OnStack(d)'
    BY <2>1 DEF OnStack
  <2>4. \A q \in RequestNo : ~Served(q) /\ ~Served(q)'
    BY <1>1, <1>11, <2>1, StackView DEF Served
  <2>5. TypeOK'
    BY <1>1, <1>3, <1>5, <1>7, <2>1 DEF TypeOK, Calls
  <2>6. StackOK'
    BY <2>1 DEF StackOK
  <2>7. CallsOK'
    <3> SUFFICES ASSUME NEW d \in CallId
                 PROVE  /\ d \in abandoned => call[d] # "none"
                        /\ call[d] \in {"sent", "queued", "running"} =>
                             d \in abandoned
                        /\ Frame("call", d) \in Range(toPy) => call[d] = "sent"
                        /\ d \in Range(queue) => call[d] = "queued"
                        /\ Frame("reply", d) \in Range(toRs') =>
                             call[d] = "done" /\ d \in abandoned
      BY <1>1, <1>3, <2>1, <2>3 DEF CallsOK, Outstanding
    <3>1. CASE d = c
      BY <1>1, <1>6, <1>9, <3>1 DEF CallsOK
    <3>2. CASE d # c
      BY <1>1, <1>8, <2>2, <3>2 DEF CallsOK, Outstanding
    <3> QED
      BY <3>1, <3>2
  <2>8. FramesOK'
    BY <1>1, <1>3, <1>5, <2>1 DEF FramesOK
  <2>9. RequestsOK'
    BY <1>1, <1>3, <1>10, <2>1, <2>4 DEF RequestsOK, Pending, Answered
  <2> QED
    BY <1>3, <2>5, <2>6, <2>7, <2>8, <2>9 DEF LiveInv
<1>12. CASE Len(stack) = 2
  <2>1. PICK r : r = stack[2].request
    OBVIOUS
  <2>2. /\ Top = stack[2] /\ stack[1].request = 0
        /\ r \in RequestNo /\ stack[2].id # stack[1].id
        /\ stack' # <<>> /\ Len(stack') = 1 /\ DOMAIN stack' = {1}
        /\ stack'[1] = stack[1]
    BY <1>1, <1>3, <1>7, <1>12, <2>1 DEF Top, Last, StackOK
  <2>3. toPy' = Append(toPy, Frame("reply", r))
    BY <1>3, <2>1, <2>2, ChannelAssumption DEF RequestNo
  <2>4. /\ \A q \in RequestNo : Served(q) <=> q = r
        /\ \A d : OnStack(d) <=> d = stack[1].id \/ d = c
    BY <1>1, <1>3, <1>12, <2>1, <2>2, StackView
  <2>5. /\ \A q \in RequestNo : ~Served(q)'
        /\ \A d : OnStack(d)' <=> d = stack[1].id
    BY <2>2, ChannelAssumption DEF Served, OnStack, RequestNo
  <2>6. /\ ~Asked(r) /\ ~Answered(r)
        /\ request[r].pc = "waiting" /\ request[r].future = "pending"
    BY <1>1, <2>2, <2>4 DEF RequestsOK
  <2>7. /\ toPy' \in Seq(Frames) /\ IsInjective(toPy')
        /\ Range(toPy') = Range(toPy) \cup {Frame("reply", r)}
        /\ Frame("reply", r).kind = "reply" /\ Frame("reply", r).id = r
    BY <1>1, <2>2, <2>3, <2>6, ReplyAppended
  <2>8. TypeOK'
    BY <1>1, <1>3, <1>5, <1>7, <2>7 DEF TypeOK, Calls
  <2>9. StackOK'
    BY <1>1, <1>3, <1>12, <2>2 DEF StackOK
  <2>10. CallsOK'
    <3> SUFFICES ASSUME NEW d \in CallId
                 PROVE  /\ Outstanding(d)' => call[d] # "none"
                        /\ call[d] \in {"sent", "queued", "running"} => Outstanding(d)'
                        /\ Frame("call", d) \in Range(toPy') => call[d] = "sent"
                        /\ d \in Range(queue) => call[d] = "queued"
                        /\ Frame("reply", d) \in Range(toRs') =>
                             call[d] = "done" /\ Outstanding(d)'
      BY <1>3 DEF CallsOK
    <3>0. /\ Outstanding(d) <=> d = stack[1].id \/ d = c \/ d \in abandoned
          /\ Outstanding(d)' <=> d = stack[1].id \/ d \in abandoned
      BY <1>3, <2>4, <2>5 DEF Outstanding
    <3>1. Frame("call", d) \in Range(toPy') => Frame("call", d) \in Range(toPy)
      BY <2>7, FrameEqual
    <3>2. CASE d = c
      BY <1>1, <1>6, <1>9, <2>4, <3>0, <3>1, <3>2 DEF CallsOK, Outstanding
    <3>3. CASE d # c
      BY <1>1, <1>8, <3>0, <3>1, <3>3 DEF CallsOK
    <3> QED
      BY <3>2, <3>3
  <2>11. FramesOK'
    BY <1>1, <1>3, <1>5, <2>2, <2>7 DEF FramesOK
  <2>12. RequestsOK'
    <3>1. \A q \in RequestNo : Answered(q)' <=> Answered(q) \/ q = r
      BY <2>7, FrameEqual DEF Answered
    <3> QED
      BY <1>1, <1>3, <1>10, <2>4, <2>5, <2>6, <3>1 DEF RequestsOK, Pending
  <2> QED
    BY <1>3, <2>8, <2>9, <2>10, <2>11, <2>12 DEF LiveInv
<1> QED
  BY <1>1, <1>3, <1>11, <1>12, StackView

\* An abandoned call leaves the stack and nothing else: what it has under way
\* stays accounted for.
LEMMA LiveCallAbandoned ==
  ASSUME LiveInv, CallAbandoned
  PROVE  LiveInv'
<1>1. TypeOK /\ StackOK /\ CallsOK /\ RequestsOK /\ FramesOK
  BY DEF LiveInv
<1>2. /\ Len(stack) = 1 /\ Top = stack[1] /\ stack # <<>>
      /\ abandoned' = abandoned \cup {stack[1].id}
      /\ stack' = <<>> /\ Len(stack') = 0 /\ DOMAIN stack' = {}
      /\ UNCHANGED <<alive, dead, toPy, toRs, reader, closed, failing, queue,
                     call, request, dropped>>
  BY <1>1, StackView DEF CallAbandoned, pyVars, Top, Last
<1>3. stack[1].id \in CallId
  BY <1>1, <1>2, StackView
<1>4. TypeOK'
  BY <1>1, <1>2, <1>3 DEF TypeOK
<1>5. StackOK'
  BY <1>2 DEF StackOK
<1>6. \A d : Outstanding(d)' <=> Outstanding(d)
  BY <1>1, <1>2, StackView DEF Outstanding, OnStack
<1>7. CallsOK' /\ FramesOK'
  BY <1>1, <1>2, <1>6 DEF CallsOK, FramesOK
<1>8. RequestsOK'
  <2>1. \A q \in RequestNo : ~Served(q) /\ ~Served(q)'
    BY <1>1, <1>2, StackView DEF Served
  <2> QED
    BY <1>1, <1>2, <2>1 DEF RequestsOK, Pending, Asked, Answered
<1> QED
  BY <1>2, <1>4, <1>5, <1>7, <1>8 DEF LiveInv

-----------------------------------------------------------------------------

\* Initially nothing is under way.
LEMMA ChannelInit == Init => ChannelInv
<1> SUFFICES ASSUME Init PROVE LiveInv
  BY DEF ChannelInv
<1>1. /\ stack = <<>> /\ toPy = <<>> /\ toRs = <<>> /\ queue = <<>>
      /\ \A c \in CallId : call[c] = "none"
      /\ \A r \in RequestNo : request[r].pc = "none"
  BY DEF Init, NoRequest
<1>2. /\ Range(toPy) = {} /\ Range(toRs) = {} /\ Range(queue) = {}
      /\ IsInjective(toPy) /\ IsInjective(toRs) /\ IsInjective(queue)
      /\ DOMAIN stack = {}
  BY <1>1 DEF Range, IsInjective
<1>3. TypeOK
  <2>1. /\ stack \in Seq([id : CallId, serves : BOOLEAN, request : 0 .. MaxRequests])
        /\ toPy \in Seq(Frames) /\ toRs \in Seq(Frames) /\ queue \in Seq(CallId)
    BY <1>1
  <2>2. call \in [CallId -> {"none", "sent", "queued", "running", "done",
                            "cancelled"}]
    BY DEF Init
  <2>3. 0 \in 0 .. MaxCalls
    BY ChannelAssumption
  <2>4. NoRequest \in [pc : {"none", "registered", "waiting", "returned"},
                       future : {"pending", "set", "failed"}, caller : 0 .. MaxCalls]
    BY <2>3 DEF NoRequest
  <2>5. request \in [RequestNo ->
          [pc : {"none", "registered", "waiting", "returned"},
           future : {"pending", "set", "failed"}, caller : 0 .. MaxCalls]]
    BY <2>4 DEF Init
  <2>6. /\ alive \in BOOLEAN /\ dead \in BOOLEAN /\ closed \in BOOLEAN
        /\ reader \in {"reading", "closing", "ended"}
        /\ failing \subseteq RequestNo /\ dropped \subseteq CallId
        /\ abandoned \subseteq CallId
    BY DEF Init
  <2> QED
    BY <2>1, <2>2, <2>5, <2>6 DEF TypeOK
<1>4. StackOK /\ abandoned = {}
  BY <1>1 DEF StackOK, Init
<1>5. CallsOK /\ RequestsOK /\ FramesOK
  BY <1>1, <1>2, <1>4 DEF CallsOK, RequestsOK, FramesOK, Outstanding, OnStack,
                          Asked, Served, Answered, Pending
<1> QED
  BY <1>3, <1>4, <1>5 DEF LiveInv, Init

\* Every step keeps the invariant, or ends the use of the channel.
LEMMA ChannelStep == ChannelInv /\ [Next]_vars => ChannelInv'
<1> SUFFICES ASSUME ChannelInv, [Next]_vars, Live' PROVE LiveInv'
  BY DEF ChannelInv
<1>1. CASE UNCHANGED vars
  BY <1>1 DEF vars, rsVars, pyVars, ChannelInv, Live, LiveInv, TypeOK, StackOK,
              CallsOK, RequestsOK, FramesOK, Outstanding, OnStack, Asked, Served, Answered,
              Pending
<1>2. CASE Next
  <2>1. Live
    <3>1. ASSUME NEW c \in CallId, NEW s \in BOOLEAN, StartCall(c, s) PROVE Live
      BY <3>1 DEF StartCall, Live
    <3>2. ASSUME NEW c \in CallId, NestedCall(c) PROVE Live
      BY <3>2 DEF NestedCall, Incoming, Live
    <3>3. ASSUME NEW c \in CallId, FinishHandler(c) PROVE Live
      BY <3>3 DEF FinishHandler, Live, rsVars
    <3>4. Answer \/ CallReturns \/ CallAbandoned \/ WorkerDies => Live
      BY DEF Answer, CallReturns, CallAbandoned, WorkerDies, Incoming, Live
    <3>8. CallFails \/ MismatchedReply \/ CloseChannel => Live
      BY DEF CallFails, MismatchedReply, CloseChannel, Kill, Live
    <3>5. ASSUME NEW r \in RequestNo, NEW c \in CallId, Register(r, c) PROVE Live
      BY <3>5 DEF Register, Live, rsVars
    <3>6. ASSUME NEW r \in RequestNo, SendRequest(r) \/ RequestReturns(r) PROVE Live
      <4>1. UNCHANGED rsVars
        BY <3>6 DEF SendRequest, RequestReturns
      <4> QED
        BY <4>1 DEF Live, rsVars
    <3>7. ReadCall \/ ReadReply \/ ReadEnd \/ EndClose \/ StartHandler => Live
      <4>1. ReadCall \/ ReadReply \/ ReadEnd \/ EndClose \/ StartHandler =>
              UNCHANGED rsVars
        BY Zenon DEF ReadCall, ReadReply, ReadEnd, EndClose, StartHandler
      <4> QED
        BY <4>1 DEF Live, rsVars
    <3> QED
      BY <1>2, <3>1, <3>2, <3>3, <3>4, <3>5, <3>6, <3>7, <3>8, Zenon DEF Next
  <2>2. LiveInv
    BY <2>1 DEF ChannelInv
  <2>3. ~CallFails /\ ~MismatchedReply /\ ~CloseChannel /\ ~WorkerDies
    BY DEF CallFails, MismatchedReply, CloseChannel, Kill, WorkerDies, Live
  <2>4. ~ReadEnd /\ ~EndClose
    BY <2>1, <2>2 DEF ReadEnd, EndClose, Live, LiveInv
  <2> QED
    BY <1>2, <2>2, <2>3, <2>4, LiveStartCall, LiveNestedCall, LiveFinishHandler,
       LiveAnswer, LiveCallReturns, LiveCallAbandoned, LiveRegister, LiveSendRequest, LiveReturns,
       LiveReadCall, LiveReadReply, LiveStartHandler DEF Next
<1> QED
  BY <1>1, <1>2

\* The invariant of the channel in use.
THEOREM ChannelInvariant == Spec => []ChannelInv
  BY ChannelInit, ChannelStep, PTL DEF Spec

\* However the component's threads interleave, the Worker reads replies in the
\* order of its stack, except that of a call it abandoned; nothing but such a call
\* leaves a handler or a frame behind, and no request that has given up is answered.
THEOREM RepliesNestHolds == Spec => []RepliesNest
  BY ChannelInvariant, LiveNests, PTL
=============================================================================
