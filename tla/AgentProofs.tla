---------------------------- MODULE AgentProofs -----------------------------
(***************************************************************************)
(* Proofs about AgentHost, for any tools, call ids and limits, for both    *)
(* agents and whatever the model server answers.                           *)
(***************************************************************************)
EXTENDS AgentHost, FiniteSetTheorems, SequenceTheorems, TLAPS

-----------------------------------------------------------------------------
(***************************************************************************)
(* Types.  Only what the arguments below need of each record is stated:    *)
(* the fields of rpc depend on its kind.                                   *)
(***************************************************************************)

Observations == {"open", "terminated", "truncated"}
Finishes == {"stop", "length", "tool_calls"}
RequestKinds == {"idle", "generate", "model", "generation", "step", "tool", "result",
                 "error"}

Messages ==
  [role : {"assistant"}, gen : Nat, calls : Seq(CallId)] \cup
  [role : {"tool"}, call : CallId, of : CallId,
   status : ToolStatus \cup {"unrecorded", "unclaimed"}]

Recordable ==
  [kind : {"generation"}, gen : Nat, finish : Finishes, calls : Seq(CallId),
   messages : Seq(Messages)] \cup
  [kind : {"tool_call"}, call : CallId] \cup
  [kind : {"tool_result"}, call : CallId, status : ToolStatus \cup {"failed"},
   obs : Observations]

RequestType ==
  /\ rpc.kind \in RequestKinds
  /\ rpc.kind \in {"generate", "model"} => rpc.messages \in Seq(Messages)
  /\ rpc.kind \in {"model", "tool"} => rpc.complete \in BOOLEAN
  /\ rpc.kind = "generation" => /\ rpc.gen \in Nat /\ rpc.finish \in Finishes
                                /\ rpc.calls \in Seq(CallId)
  /\ rpc.kind \in {"step", "tool", "result"} => rpc.call \in CallId
  /\ rpc.kind = "result" => rpc.status \in ToolStatus /\ rpc.obs \in Observations

RuntimeType ==
  /\ usage \in [generations : Nat, tools : Nat, tokens : Nat]
  /\ obs \in Observations
  /\ denied \in BOOLEAN /\ limited \in BOOLEAN /\ complete \in BOOLEAN
  /\ trace \in Seq(Recordable)
  /\ RequestType

-----------------------------------------------------------------------------
(***************************************************************************)
(* The invariant of the Worker's side.                                     *)
(***************************************************************************)

\* The Worker works for the agent only while the environment is open, and an
\* observation that ended it is the current one.
EndInv ==
  /\ rpc.kind \in {"model", "tool"} => obs = "open"
  /\ \A i \in Events("tool_result") : trace[i].obs # "open" => obs # "open"
  /\ NothingAfterEnvironmentEnds

\* What has been recorded agrees with what was counted: but for the call with
\* number `open' every call has its result, and n generations are recorded.
Accounts(n, open) ==
  /\ Cardinality(Events("generation")) = n
  /\ \A i \in Events("tool_call") :
       \/ trace[i].call \in open
       \/ \E j \in Events("tool_result") : j > i /\ trace[j].call = trace[i].call

\* While the model or a tool works the trace is suspect, and one event short of
\* what it was when it was not.
AccountInv ==
  /\ rpc.kind \in {"model", "tool"} => ~complete
  /\ complete => Accounts(usage.generations, {})
  /\ rpc.kind = "model" /\ rpc.complete =>
       usage.generations > 0 /\ Accounts(usage.generations - 1, {})
  /\ rpc.kind = "tool" /\ rpc.complete => Accounts(usage.generations, {rpc.call})

Tools(ms) == {m \in Range(ms) : m.role = "tool"}

\* Every tool message repeats a recorded result, or is of no call that the
\* Worker has heard of.
Recorded(ms) ==
  \A m \in Tools(ms) :
    Unclaimed(m) \/ \E j \in Events("tool_result") : Repeats(m, trace[j])

\* No call but those in `open' is left without its message.
Covered(ms, open) ==
  \A m \in Range(ms) \ Tools(ms) :
    Range(m.calls) \subseteq open \cup {t.call : t \in Tools(ms)}

Stops(g) == \E i \in Events("generation") : trace[i].gen = g /\ trace[i].finish = "stop"
HasResult(c) == \E i \in Events("tool_result") : trace[i].call = c

\* The generations that were recorded have a last one.
LatestInv ==
  Events("generation") # {} =>
    \E i \in Events("generation") : \A j \in Events("generation") : j <= i

\* A refusal has a code.
IsCode(code) == code # ""

\* What the reply the Worker holds for the agent says is what it has recorded.
ReplyInv ==
  /\ rpc.kind \in {"generate", "model"} =>
       Recorded(rpc.messages) /\ Covered(rpc.messages, {})
  /\ rpc.kind = "generation" =>
       /\ rpc.gen = LastGeneration
       /\ rpc.finish = "stop" => Stops(rpc.gen)
       /\ rpc.finish = "length" => limited
       /\ \A c \in Range(rpc.calls) : <<c, rpc.gen>> \in generated
  /\ rpc.kind = "result" =>
       /\ \E i \in Events("tool_result") :
            trace[i].call = rpc.call /\ trace[i].status = rpc.status
       /\ rpc.obs # "open" => obs # "open"
  /\ rpc.kind = "error" => IsCode(rpc.code) /\ (rpc.code \in LimitCodes => denied)

RuntimeInv ==
  RuntimeType /\ EndInv /\ AccountInv /\ LatestInv /\ ReplyInv /\ HistoryIsRecorded

-----------------------------------------------------------------------------
(***************************************************************************)
(* The invariant of the agent.                                             *)
(***************************************************************************)

AgentType ==
  /\ pc \in {"ready", "loop", "generating", "calling", "stepping", "returned",
             "failed"}
  /\ messages \in Seq(Messages) /\ exchange \in Seq(Messages)
  /\ todo \in Seq(CallId) /\ pending \in Seq(CallId)

\* What the agent waits for.
PhaseInv ==
  /\ pc = "ready" => trace = <<>> /\ answer = 0
  /\ pc = "generating" => rpc.kind \in {"generate", "model", "generation", "error"}
  /\ pc = "stepping" => rpc.kind \in {"step", "tool", "result", "error"}
  /\ pc \notin {"generating", "stepping"} => rpc.kind = "idle"

\* The calls still to make and those still to claim are calls of the last
\* answer, and so is the call the Worker was asked for: that of PlainAgent is the
\* one being run, that of OpenHands was generated with the arguments it was run
\* with.
BatchInv ==
  pc \in {"calling", "stepping"} =>
    /\ \A c \in Range(todo) : <<c, LastGeneration>> \in generated
    /\ pc = "stepping" => todo # <<>>
    /\ pc = "stepping" /\ rpc.kind # "error" =>
         StandsFor(rpc.call, Head(todo)) /\ <<rpc.call, LastGeneration>> \in generated
    /\ OpenHands => \A c \in Range(pending) : <<c, LastGeneration>> \in generated

\* The answer at hand may be submitted.
Submittable == answer = LastGeneration
               \/ (HasResult(answer) /\ <<answer, LastGeneration>> \in generated)

\* It may, unless a generation is under way that was recorded and then refused:
\* no limit refuses one.
AnswerInv ==
  /\ pc \in {"loop", "calling", "stepping", "returned"} => Submittable
  /\ pc = "generating" =>
       /\ rpc.kind \in {"generate", "model"} => Submittable
       /\ rpc.kind = "error" /\ rpc.code \in LimitCodes => Submittable

\* Every way out of run() but the final answer leaves its mark on the Worker.
ReasonInv ==
  /\ seen # "open" => obs # "open"
  /\ stopped => obs # "open"
  /\ failure \in LimitCodes => denied
  /\ pc = "returned" =>
       obs # "open" \/ denied \/ limited \/ finished \/ Stops(LastGeneration)

\* PlainAgent keeps the round in exchange until every call has its message;
\* OpenHands appends each message as it comes, and after the error message of a
\* call that the Worker has heard of it asks for nothing more.
MessagesInv ==
  IF OpenHands
  THEN /\ ~IsCode(failure) => Recorded(messages)
       /\ pc \in {"ready", "loop", "generating"} => Covered(messages, {})
       /\ pc \in {"calling", "stepping"} => Covered(messages, Range(todo))
  ELSE /\ Recorded(messages) /\ Covered(messages, {})
       /\ pc \in {"calling", "stepping"} =>
            Recorded(exchange) /\ Covered(exchange, Range(todo))

AgentInv ==
  AgentType /\ PhaseInv /\ BatchInv /\ AnswerInv /\ ReasonInv /\ MessagesInv

\* close() goes from part to part once the Worker has asked for it.
CloseInv ==
  /\ closing # "no" => stage \in {"close", "end"}
  /\ closing \in {"loop", "done"} => mcp # "running"
  /\ closing = "done" => ~loop

HostInv == RuntimeInv /\ AgentInv /\ CloseInv

-----------------------------------------------------------------------------
(***************************************************************************)
(* Sequences.                                                              *)
(***************************************************************************)

\* Appending adds one element after the others.
LEMMA AppendView ==
  ASSUME NEW S, NEW s \in Seq(S), NEW e \in S, NEW t, t = Append(s, e)
  PROVE  /\ t \in Seq(S)
         /\ Len(s) \in Nat /\ DOMAIN s = 1 .. Len(s)
         /\ DOMAIN t = DOMAIN s \cup {Len(s) + 1}
         /\ \A i \in DOMAIN s : t[i] = s[i] /\ i \in Nat /\ i < Len(s) + 1
         /\ t[Len(s) + 1] = e
         /\ Range(t) = Range(s) \cup {e}
<1>1. /\ t \in Seq(S)
      /\ Len(s) \in Nat /\ DOMAIN s = 1 .. Len(s)
      /\ DOMAIN t = DOMAIN s \cup {Len(s) + 1}
      /\ \A i \in DOMAIN s : t[i] = s[i] /\ i \in Nat /\ i < Len(s) + 1
      /\ t[Len(s) + 1] = e
  OBVIOUS
<1> QED
  BY <1>1 DEF Range

\* A sequence is its head and its tail.
LEMMA TailView ==
  ASSUME NEW S, NEW s \in Seq(S), s # <<>>
  PROVE  /\ Head(s) \in S /\ Tail(s) \in Seq(S)
         /\ Range(s) = Range(Tail(s)) \cup {Head(s)}
<1>1. /\ Len(s) \in Nat \ {0} /\ DOMAIN s = 1 .. Len(s)
      /\ Head(s) = s[1] /\ Head(s) \in S /\ Tail(s) \in Seq(S)
      /\ Len(Tail(s)) = Len(s) - 1
      /\ \A i \in 1 .. Len(s) - 1 : Tail(s)[i] = s[i + 1]
  OBVIOUS
<1>2. DOMAIN Tail(s) = 1 .. Len(s) - 1
  BY <1>1
<1>3. Range(Tail(s)) \cup {Head(s)} \subseteq Range(s)
  BY <1>1, <1>2 DEF Range
<1>4. ASSUME NEW i \in DOMAIN s PROVE s[i] \in Range(Tail(s)) \cup {Head(s)}
  <2>1. CASE i = 1
    BY <1>1, <2>1
  <2>2. CASE i # 1
    <3>1. i - 1 \in 1 .. Len(s) - 1 /\ s[i] = Tail(s)[i - 1]
      BY <1>1, <2>2
    <3> QED
      BY <1>2, <3>1 DEF Range
  <2> QED
    BY <2>1, <2>2
<1> QED
  BY <1>1, <1>3, <1>4 DEF Range

\* A concatenation has the elements of both.
LEMMA ConcatRange ==
  ASSUME NEW S, NEW s \in Seq(S), NEW t \in Seq(S)
  PROVE  s \o t \in Seq(S) /\ Range(s \o t) = Range(s) \cup Range(t)
<1>1. /\ Len(s) \in Nat /\ DOMAIN s = 1 .. Len(s)
      /\ Len(t) \in Nat /\ DOMAIN t = 1 .. Len(t)
      /\ s \o t \in Seq(S) /\ DOMAIN (s \o t) = 1 .. Len(s) + Len(t)
      /\ \A i \in 1 .. Len(s) : (s \o t)[i] = s[i]
      /\ \A i \in 1 .. Len(t) : (s \o t)[Len(s) + i] = t[i]
  OBVIOUS
<1>2. \A i \in DOMAIN s : s[i] \in Range(s \o t)
  <2> TAKE i \in DOMAIN s
  <2>1. i \in DOMAIN (s \o t) /\ (s \o t)[i] = s[i]
    BY <1>1
  <2> QED
    BY <2>1, Zenon DEF Range
<1>3. \A i \in DOMAIN t : t[i] \in Range(s \o t)
  <2> TAKE i \in DOMAIN t
  <2>1. Len(s) + i \in DOMAIN (s \o t) /\ (s \o t)[Len(s) + i] = t[i]
    BY <1>1
  <2> QED
    BY <2>1, Zenon DEF Range
<1>4. ASSUME NEW i \in DOMAIN (s \o t) PROVE (s \o t)[i] \in Range(s) \cup Range(t)
  <2>1. CASE i <= Len(s)
    BY <1>1, <2>1 DEF Range
  <2>2. CASE ~(i <= Len(s))
    <3>1. PICK j : j = i - Len(s)
      OBVIOUS
    <3>2. j \in DOMAIN t /\ i = Len(s) + j
      BY <1>1, <2>2, <3>1
    <3> QED
      BY <1>1, <3>2 DEF Range
  <2> QED
    BY <2>1, <2>2
<1>5. Range(s \o t) = {(s \o t)[i] : i \in DOMAIN (s \o t)}
  BY DEF Range
<1>6. Range(s \o t) \subseteq Range(s) \cup Range(t)
  BY <1>4, <1>5
<1>7. Range(s) \subseteq Range(s \o t) /\ Range(t) \subseteq Range(s \o t)
  BY <1>2, <1>3 DEF Range
<1> QED
  BY <1>1, <1>6, <1>7

-----------------------------------------------------------------------------
(***************************************************************************)
(* Appending an event to the trace.                                        *)
(***************************************************************************)

\* A new event is numbered after all others, and what has been recorded stays.
LEMMA Appended ==
  ASSUME trace \in Seq(Recordable), NEW e \in Recordable, trace' = Append(trace, e),
         NEW n, n = Len(trace) + 1
  PROVE  /\ trace' \in Seq(Recordable)
         /\ n \in Nat /\ trace'[n] = e
         /\ \A k : Events(k) \subseteq Nat /\ n \notin Events(k)
         /\ \A k : Events(k)' = IF e.kind = k THEN Events(k) \cup {n} ELSE Events(k)
         /\ \A k : \A i \in Events(k) : trace'[i] = trace[i] /\ i < n
         /\ \A k : Events(k) \subseteq Events(k)'
<1>1. /\ trace' \in Seq(Recordable)
      /\ Len(trace) \in Nat /\ DOMAIN trace = 1 .. Len(trace)
      /\ DOMAIN trace' = DOMAIN trace \cup {n}
      /\ \A i \in DOMAIN trace : trace'[i] = trace[i] /\ i \in Nat /\ i < n
      /\ trace'[n] = e
  BY AppendView
<1>2. n \in Nat
  BY <1>1
<1>3. ASSUME NEW k
      PROVE  /\ Events(k) \subseteq Nat /\ n \notin Events(k)
             /\ Events(k)' = IF e.kind = k THEN Events(k) \cup {n} ELSE Events(k)
             /\ \A i \in Events(k) : trace'[i] = trace[i] /\ i < n
  BY <1>1 DEF Events
<1> QED
  BY <1>1, <1>2, <1>3

\* What a message may say depends on the agent, which stays the same.
LEMMA SamePolicy ==
  ASSUME policy' = policy
  PROVE  /\ OpenHands' <=> OpenHands
         /\ \A m : Unclaimed(m)' <=> Unclaimed(m)
         /\ \A m : \A i : trace'[i] = trace[i] =>
              (Repeats(m, trace[i])' <=> Repeats(m, trace[i]))
  BY DEF OpenHands, Unclaimed, Repeats, StandsFor

\* Results, and the messages that repeat them, stay recorded.
LEMMA RecordsStay ==
  ASSUME trace \in Seq(Recordable), NEW e \in Recordable, trace' = Append(trace, e), policy' = policy
  PROVE  /\ \A ms : Recorded(ms) => Recorded(ms)'
         /\ \A c : HasResult(c) => HasResult(c)'
         /\ \A g : Stops(g) => Stops(g)'
<1>1. \A k : \A i \in Events(k) : i \in Events(k)' /\ trace'[i] = trace[i]
  BY Appended
<1>2. ASSUME NEW ms, Recorded(ms) PROVE Recorded(ms)'
  <2> SUFFICES ASSUME NEW m \in Tools(ms)
               PROVE  \/ Unclaimed(m)'
                      \/ \E j \in Events("tool_result")' : Repeats(m, trace[j])'
    BY DEF Recorded
  <2>1. \/ Unclaimed(m)
        \/ \E j \in Events("tool_result") : Repeats(m, trace[j])
    BY <1>2 DEF Recorded
  <2>2. CASE Unclaimed(m)
    BY <2>2, SamePolicy
  <2>3. ASSUME NEW j \in Events("tool_result"), Repeats(m, trace[j])
        PROVE  j \in Events("tool_result")' /\ Repeats(m, trace[j])'
    BY <1>1, <2>3, SamePolicy
  <2> QED
    BY <2>1, <2>2, <2>3
<1>3. ASSUME NEW c, HasResult(c) PROVE HasResult(c)'
  BY <1>1, <1>3 DEF HasResult
<1>4. ASSUME NEW g, Stops(g) PROVE Stops(g)'
  BY <1>1, <1>4 DEF Stops
<1> QED
  BY <1>2, <1>3, <1>4

\* The last generation changes with a generation only.
LEMMA LatestAppended ==
  ASSUME trace \in Seq(Recordable), NEW e \in Recordable, trace' = Append(trace, e),
         LatestInv
  PROVE  /\ LatestInv'
         /\ LastGeneration' = IF e.kind = "generation" THEN e.gen ELSE LastGeneration
<1>1. PICK n : n = Len(trace) + 1
  OBVIOUS
<1>2. /\ n \in Nat /\ trace'[n] = e
      /\ Events("generation") \subseteq Nat
      /\ Events("generation")' = IF e.kind = "generation"
                                 THEN Events("generation") \cup {n}
                                 ELSE Events("generation")
      /\ \A i \in Events("generation") : trace'[i] = trace[i] /\ i < n
  BY <1>1, Appended
<1>3. CASE e.kind = "generation"
  <2>1. n \in Events("generation")' /\ \A j \in Events("generation")' : j <= n
    BY <1>2, <1>3
  <2>2. LatestInv'
    BY <2>1 DEF LatestInv
  <2>3. \A i \in Events("generation")' :
          (\A j \in Events("generation")' : j <= i) => i = n
    BY <1>2, <1>3, <2>1
  <2>4. (CHOOSE i \in Events("generation")' :
           \A j \in Events("generation")' : j <= i) = n
    BY <2>1, <2>3
  <2> QED
    BY <1>2, <1>3, <2>1, <2>2, <2>4 DEF LastGeneration
<1>4. CASE e.kind # "generation"
  <2>1. LatestInv'
    BY <1>2, <1>4 DEF LatestInv
  <2>2. CASE Events("generation") = {}
    BY <1>2, <1>4, <2>1, <2>2 DEF LastGeneration
  <2>3. CASE Events("generation") # {}
    <3>1. PICK i : i = CHOOSE k \in Events("generation") :
                         \A j \in Events("generation") : j <= k
      OBVIOUS
    <3>2. i \in Events("generation")
      BY <2>3, <3>1 DEF LatestInv
    <3>3. LastGeneration = trace[i].gen /\ LastGeneration' = trace'[i].gen
      BY <1>2, <1>4, <2>3, <3>1, Zenon DEF LastGeneration
    <3> QED
      BY <1>2, <1>4, <2>1, <3>2, <3>3
  <2> QED
    BY <2>2, <2>3
<1> QED
  BY <1>3, <1>4

\* What follows an environment that has ended: see EndInv.
Ended ==
  /\ \A i \in Events("tool_result") : trace[i].obs # "open" => obs # "open"
  /\ NothingAfterEnvironmentEnds

\* A generation or a call may follow while the environment is open, a result
\* if the observation it carries becomes the current one.
LEMMA EndedAppended ==
  ASSUME trace \in Seq(Recordable), NEW e \in Recordable, trace' = Append(trace, e),
         Ended, obs = "open",
         e.kind = "tool_result" => (e.obs # "open" => obs' # "open")
  PROVE  Ended'
<1>1. PICK n : n = Len(trace) + 1
  OBVIOUS
<1>2. /\ n \in Nat /\ trace'[n] = e
      /\ \A k : Events(k) \subseteq Nat
      /\ \A k : \A i \in Events(k)' :
           (i = n /\ e.kind = k) \/ (i \in Events(k) /\ trace'[i] = trace[i] /\ i < n)
  <2>1. /\ n \in Nat /\ trace'[n] = e
        /\ \A k : Events(k) \subseteq Nat
        /\ \A k : Events(k)' = IF e.kind = k THEN Events(k) \cup {n} ELSE Events(k)
        /\ \A k : \A i \in Events(k) : trace'[i] = trace[i] /\ i < n
    BY <1>1, Appended
  <2>2. ASSUME NEW k, NEW i \in Events(k)'
        PROVE  (i = n /\ e.kind = k) \/ (i \in Events(k) /\ trace'[i] = trace[i] /\ i < n)
    <3>1. i \in Events(k) \/ (i = n /\ e.kind = k)
      BY <2>1, <2>2
    <3> QED
      BY <2>1, <3>1
  <2> QED
    BY <2>1, <2>2
<1>3. \A i \in Events("tool_result") : trace[i].obs = "open"
  BY DEF Ended
<1>4. \A i \in Events("tool_result")' : trace'[i].obs # "open" => obs' # "open"
  BY <1>2, <1>3
<1>5. ASSUME NEW i \in Events("tool_result")', trace'[i].obs # "open",
             NEW j \in Events("generation")' \cup Events("tool_call")'
      PROVE  j < i
  <2>1. i = n /\ e.kind = "tool_result"
    BY <1>2, <1>3, <1>5
  <2> QED
    BY <1>2, <2>1
<1>6. NothingAfterEnvironmentEnds'
  BY <1>5 DEF NothingAfterEnvironmentEnds
<1> QED
  BY <1>4, <1>6 DEF Ended

\* The generations recorded are finitely many.
LEMMA EventsFinite ==
  ASSUME trace \in Seq(Recordable), NEW k
  PROVE  IsFiniteSet(Events(k))
<1>1. Len(trace) \in Nat /\ Events(k) \subseteq 1 .. Len(trace)
  BY DEF Events
<1>2. IsFiniteSet(1 .. Len(trace))
  BY <1>1, FS_Interval
<1> QED
  BY <1>1, <1>2, FS_Subset

\* A generation accounts for one more, a call opens an account that its result
\* closes.
LEMMA AccountsAppended ==
  ASSUME trace \in Seq(Recordable), NEW e \in Recordable, trace' = Append(trace, e),
         NEW N \in Nat, NEW open, Accounts(N, open)
  PROVE  /\ e.kind = "generation" => Accounts(N + 1, open)'
         /\ e.kind = "tool_call" => Accounts(N, open \cup {e.call})'
         /\ e.kind = "tool_result" => Accounts(N, open \ {e.call})'
<1>1. PICK n : n = Len(trace) + 1
  OBVIOUS
<1>2. /\ n \in Nat /\ trace'[n] = e
      /\ \A k : Events(k) \subseteq Nat /\ n \notin Events(k)
      /\ \A k : Events(k)' = IF e.kind = k THEN Events(k) \cup {n} ELSE Events(k)
      /\ \A k : \A i \in Events(k) : trace'[i] = trace[i] /\ i < n
      /\ \A k : Events(k) \subseteq Events(k)'
  BY <1>1, Appended
<1>3. Cardinality(Events("generation")') =
        IF e.kind = "generation" THEN N + 1 ELSE N
  <2>1. /\ IsFiniteSet(Events("generation"))
        /\ Cardinality(Events("generation")) = N
    BY EventsFinite DEF Accounts
  <2>2. Cardinality(Events("generation") \cup {n}) = N + 1
    BY <1>2, <2>1, FS_AddElement
  <2> QED
    BY <1>2, <2>1, <2>2
<1>4. ASSUME NEW i \in Events("tool_call")', i # n
      PROVE  \/ trace'[i].call \in open
             \/ \E j \in Events("tool_result")' : j > i /\ trace'[j].call = trace'[i].call
  <2>1. i \in Events("tool_call") /\ trace'[i] = trace[i]
    BY <1>2, <1>4
  <2>2. CASE trace[i].call \in open
    BY <2>1, <2>2
  <2>3. CASE trace[i].call \notin open
    <3>1. PICK j \in Events("tool_result") : j > i /\ trace[j].call = trace[i].call
      BY <2>1, <2>3 DEF Accounts
    <3> QED
      BY <1>2, <2>1, <3>1
  <2> QED
    BY <2>2, <2>3
<1>5. CASE e.kind = "generation"
  <2>1. n \notin Events("tool_call")'
    BY <1>2, <1>5
  <2> QED
    BY <1>3, <1>4, <1>5, <2>1 DEF Accounts
<1>6. CASE e.kind = "tool_call"
  BY <1>2, <1>3, <1>4, <1>6 DEF Accounts
<1>7. CASE e.kind = "tool_result"
  <2>1. /\ n \in Events("tool_result")' /\ trace'[n] = e
        /\ \A i \in Events("tool_call")' : i # n /\ n > i
    BY <1>2, <1>7
  <2> QED
    BY <1>3, <1>4, <1>7, <2>1 DEF Accounts
<1> QED
  BY <1>5, <1>6, <1>7

\* A history that was asked with before event i repeats results before it.
RecordedBefore(ms, i) ==
  \A m \in Tools(ms) :
    Unclaimed(m) \/ \E j \in Events("tool_result") : j < i /\ Repeats(m, trace[j])

\* HistoryIsRecorded in the terms of this module.
LEMMA HistoryView ==
  HistoryIsRecorded <=>
    \A i \in Events("generation") :
      RecordedBefore(trace[i].messages, i) /\ Covered(trace[i].messages, {})
  BY DEF HistoryIsRecorded, RecordedBefore, Covered, Tools

\* A generation may be recorded if the history it was asked with is.
LEMMA HistoryAppended ==
  ASSUME trace \in Seq(Recordable), NEW e \in Recordable, trace' = Append(trace, e),
         policy' = policy, HistoryIsRecorded,
         e.kind = "generation" => Recorded(e.messages) /\ Covered(e.messages, {})
  PROVE  HistoryIsRecorded'
<1>1. PICK n : n = Len(trace) + 1
  OBVIOUS
<1>2. /\ n \in Nat /\ trace'[n] = e
      /\ \A k : Events(k) \subseteq Events(k)'
      /\ \A k : \A i \in Events(k) : trace'[i] = trace[i] /\ i < n
      /\ \A k : \A i \in Events(k)' : (i = n /\ e.kind = k) \/ i \in Events(k)
  <2>1. /\ n \in Nat /\ trace'[n] = e
        /\ \A k : Events(k)' = IF e.kind = k THEN Events(k) \cup {n} ELSE Events(k)
        /\ \A k : \A i \in Events(k) : trace'[i] = trace[i] /\ i < n
    BY <1>1, Appended
  <2> QED
    BY <2>1
<1>3. ASSUME NEW ms, NEW i,
             \A m \in Tools(ms) :
               Unclaimed(m) \/ \E j \in Events("tool_result") : j < i /\ Repeats(m, trace[j])
      PROVE  \A m \in Tools(ms) :
               \/ Unclaimed(m)'
               \/ \E j \in Events("tool_result")' : j < i /\ Repeats(m, trace[j])'
  <2> TAKE m \in Tools(ms)
  <2>1. CASE Unclaimed(m)
    BY <2>1, SamePolicy
  <2>2. ASSUME NEW j \in Events("tool_result"), j < i, Repeats(m, trace[j])
        PROVE  j \in Events("tool_result")' /\ Repeats(m, trace[j])'
    BY <1>2, <2>2, SamePolicy
  <2> QED
    BY <1>3, <2>1, <2>2
<1>4. ASSUME NEW i \in Events("generation")'
      PROVE  /\ \A m \in Tools(trace'[i].messages) :
                  \/ Unclaimed(m)'
                  \/ \E j \in Events("tool_result")' : j < i /\ Repeats(m, trace[j])'
             /\ Covered(trace'[i].messages, {})
  <2>1. CASE i = n /\ e.kind = "generation"
    <3>1. trace'[i].messages = e.messages
      BY <1>2, <2>1
    <3>2. Recorded(e.messages) /\ Covered(e.messages, {})
      BY <2>1
    <3>3. \A m \in Tools(e.messages) :
            Unclaimed(m) \/ \E j \in Events("tool_result") : j < i /\ Repeats(m, trace[j])
      BY <1>2, <2>1, <3>2 DEF Recorded
    <3> QED
      BY <1>3, <3>1, <3>2, <3>3
  <2>2. CASE i \in Events("generation")
    <3>1. trace'[i] = trace[i]
      BY <1>2, <2>2
    <3>2. RecordedBefore(trace[i].messages, i) /\ Covered(trace[i].messages, {})
      BY <2>2, HistoryView
    <3>3. \A m \in Tools(trace[i].messages) :
            Unclaimed(m) \/ \E j \in Events("tool_result") : j < i /\ Repeats(m, trace[j])
      BY <3>2 DEF RecordedBefore
    <3> QED
      BY <1>3, <3>1, <3>2, <3>3
  <2> QED
    BY <1>2, <2>1, <2>2
<1>5. HistoryIsRecorded' <=>
        \A i \in Events("generation")' :
          /\ \A m \in Tools(trace'[i].messages) :
               \/ Unclaimed(m)'
               \/ \E j \in Events("tool_result")' : j < i /\ Repeats(m, trace[j])'
          /\ Covered(trace'[i].messages, {})
  BY DEF HistoryIsRecorded, Covered, Tools
<1> QED
  BY <1>4, <1>5

-----------------------------------------------------------------------------
(***************************************************************************)
(* Every step of the Worker keeps its invariant.                           *)
(***************************************************************************)

\* What the agent can rely on when the Worker has moved.
WorkerMove ==
  /\ \/ /\ rpc.kind \in {"generate", "model"}
        /\ rpc'.kind \in {"model", "generation", "error"}
        /\ rpc'.kind = "model" => LastGeneration' = LastGeneration
        /\ rpc'.kind = "error" /\ rpc'.code \in LimitCodes =>
             LastGeneration' = LastGeneration
     \/ /\ rpc.kind \in {"step", "tool"}
        /\ rpc'.kind \in {"tool", "result", "error"}
        /\ rpc'.kind # "error" => rpc'.call = rpc.call
        /\ LastGeneration' = LastGeneration
  /\ generated \subseteq generated'
  /\ denied => denied'
  /\ obs # "open" => obs' # "open"
  /\ \A c : HasResult(c) => HasResult(c)'
  /\ \A ms : Recorded(ms) => Recorded(ms)'

\* A step records at most one event.
TraceMove ==
  trace' = trace \/ \E e \in Recordable : trace' = Append(trace, e)

\* What such a step keeps.
LEMMA TraceMoves ==
  ASSUME trace \in Seq(Recordable), TraceMove,
         policy' = policy
  PROVE  /\ trace' \in Seq(Recordable)
         /\ \A ms : Recorded(ms) => Recorded(ms)'
         /\ \A c : HasResult(c) => HasResult(c)'
<1>1. CASE trace' = trace
  BY <1>1 DEF Recorded, HasResult, Events, Unclaimed, Repeats, StandsFor, OpenHands
<1>2. CASE \E e \in Recordable : trace' = Append(trace, e)
  BY <1>2, Appended, RecordsStay
<1> QED
  BY <1>1, <1>2 DEF TraceMove

\* A step that records nothing.
LEMMA TraceKept ==
  ASSUME trace' = trace,
         policy' = policy
  PROVE  /\ TraceMove
         /\ LastGeneration' = LastGeneration
         /\ LatestInv => LatestInv'
         /\ HistoryIsRecorded => HistoryIsRecorded'
         /\ \A N, open : Accounts(N, open) => Accounts(N, open)'
         /\ Ended /\ (obs # "open" => obs' # "open") => Ended'
<1>1. \A k : Events(k)' = Events(k)
  BY DEF Events
<1>2. TraceMove
  BY DEF TraceMove
<1>3. LastGeneration' = LastGeneration
  BY DEF LastGeneration, Events
<1>4. LatestInv => LatestInv'
  BY <1>1 DEF LatestInv
<1>5. HistoryIsRecorded => HistoryIsRecorded'
  BY <1>1 DEF HistoryIsRecorded, Unclaimed, Repeats, StandsFor, OpenHands
<1>6. \A N, open : Accounts(N, open) => Accounts(N, open)'
  BY <1>1 DEF Accounts
<1>7. Ended /\ (obs # "open" => obs' # "open") => Ended'
  BY <1>1 DEF Ended, NothingAfterEnvironmentEnds
<1> QED
  BY <1>2, <1>3, <1>4, <1>5, <1>6, <1>7

\* Whatever an operation has done by then, refusing or failing it is safe when
\* the trace is left suspect or in order, and a generation that was recorded is
\* not refused for a limit.
LEMMA Refusal ==
  ASSUME RuntimeInv, NEW code, IsCode(code), Deny(code),
         rpc.kind \in {"generate", "model", "step", "tool"},
         usage' \in [generations : Nat, tools : Nat, tokens : Nat],
         obs' \in Observations, obs # "open" => obs' # "open",
         complete' \in BOOLEAN, complete' => Accounts(usage.generations, {})',
         TraceMove, LatestInv', HistoryIsRecorded', Ended',
         LastGeneration' = LastGeneration \/ (rpc.kind = "model" /\ code \notin LimitCodes),
         generated \subseteq generated', limited' = limited,
         policy' = policy
  PROVE  RuntimeInv' /\ WorkerMove
<1>1. RuntimeType
  BY DEF RuntimeInv
<1>2. /\ rpc' = [kind |-> "error", code |-> code]
      /\ denied' = (denied \/ code \in LimitCodes)
  BY DEF Deny, Failed
<1>3. rpc'.kind = "error" /\ rpc'.code = code
  BY <1>2
<1>4. /\ trace' \in Seq(Recordable)
      /\ \A ms : Recorded(ms) => Recorded(ms)'
      /\ \A c : HasResult(c) => HasResult(c)'
  BY <1>1, TraceMoves DEF RuntimeType
<1>5. RuntimeType'
  <2>1. RequestType'
    BY <1>3 DEF RequestType, RequestKinds
  <2>2. denied' \in BOOLEAN /\ limited' \in BOOLEAN
    BY <1>1, <1>2 DEF RuntimeType
  <2> QED
    BY <1>4, <2>1, <2>2 DEF RuntimeType
<1>6. EndInv'
  BY <1>3 DEF EndInv, Ended
<1>7. AccountInv'
  BY <1>3 DEF AccountInv
<1>8. ReplyInv'
  BY <1>2, <1>3 DEF ReplyInv
<1>9. WorkerMove
  <2>1. denied => denied'
    BY <1>2
  <2>2. rpc'.code \in LimitCodes /\ rpc.kind = "model" => LastGeneration' = LastGeneration
    BY <1>3
  <2> QED
    BY <1>3, <1>4, <2>1, <2>2 DEF WorkerMove
<1> QED
  BY <1>5, <1>6, <1>7, <1>8, <1>9 DEF RuntimeInv

\* The parts of the invariant, as the lemmas above name them.
LEMMA RuntimeParts ==
  ASSUME RuntimeInv
  PROVE  /\ trace \in Seq(Recordable) /\ RequestType
         /\ usage \in [generations : Nat, tools : Nat, tokens : Nat]
         /\ obs \in Observations /\ complete \in BOOLEAN
         /\ limited \in BOOLEAN /\ denied \in BOOLEAN
         /\ Ended /\ LatestInv /\ HistoryIsRecorded /\ AccountInv /\ ReplyInv
         /\ rpc.kind \in {"model", "tool"} => obs = "open"
  BY DEF RuntimeInv, RuntimeType, EndInv, Ended

\* A refusal that records nothing.
LEMMA PlainRefusal ==
  ASSUME RuntimeInv, NEW code, IsCode(code), Deny(code),
         rpc.kind \in {"generate", "model", "step", "tool"},
         usage' \in [generations : Nat, tools : Nat, tokens : Nat],
         usage'.generations = usage.generations \/ ~complete',
         complete' = complete \/ ~complete', complete' \in BOOLEAN,
         UNCHANGED <<obs, generated, limited, trace>>,
         policy' = policy
  PROVE  RuntimeInv' /\ WorkerMove
<1>1. /\ Ended /\ LatestInv /\ HistoryIsRecorded /\ AccountInv /\ obs \in Observations
  BY RuntimeParts
<1>2. /\ TraceMove /\ LastGeneration' = LastGeneration
      /\ LatestInv' /\ HistoryIsRecorded' /\ Ended'
      /\ \A N, open : Accounts(N, open) => Accounts(N, open)'
  BY <1>1, TraceKept
<1>3. complete' => Accounts(usage.generations, {})'
  <2> SUFFICES ASSUME complete' PROVE Accounts(usage.generations, {})'
    OBVIOUS
  <2>1. complete /\ usage'.generations = usage.generations
    OBVIOUS
  <2>2. Accounts(usage.generations, {})
    BY <1>1, <2>1 DEF AccountInv
  <2> QED
    BY <1>2, <2>1, <2>2
<1> QED
  BY <1>1, <1>2, <1>3, Refusal

\* generate, refused before the model is asked.
LEMMA WorkerGenerateRefused ==
  ASSUME RuntimeInv, GenerateRefused,
         policy' = policy
  PROVE  RuntimeInv' /\ WorkerMove
<1>1. PICK code : IsCode(code) /\ Deny(code)
  BY Zenon DEF IsCode, GenerateRefused
<1>2. /\ usage \in [generations : Nat, tools : Nat, tokens : Nat]
      /\ complete \in BOOLEAN
  BY RuntimeParts
<1> QED
  BY <1>1, <1>2, PlainRefusal DEF GenerateRefused

\* The model was asked in vain: the trace stays suspect.
LEMMA WorkerModelFails ==
  ASSUME RuntimeInv, ModelFails,
         policy' = policy
  PROVE  RuntimeInv' /\ WorkerMove
<1>1. PICK code : IsCode(code) /\ Deny(code)
  BY Zenon DEF IsCode, ModelFails, HostErrors, CommandErrors, AnswerErrors
<1>2. /\ usage \in [generations : Nat, tools : Nat, tokens : Nat]
      /\ complete \in BOOLEAN
  BY RuntimeParts
<1> QED
  BY <1>1, <1>2, PlainRefusal DEF ModelFails

\* step, refused before the call is counted.
LEMMA WorkerStepRefused ==
  ASSUME RuntimeInv, StepRefused,
         policy' = policy
  PROVE  RuntimeInv' /\ WorkerMove
<1>1. PICK code : IsCode(code) /\ Deny(code)
  BY Zenon DEF IsCode, StepRefused
<1>2. /\ usage \in [generations : Nat, tools : Nat, tokens : Nat]
      /\ complete \in BOOLEAN
  BY RuntimeParts
<1> QED
  BY <1>1, <1>2, PlainRefusal DEF StepRefused

\* The interaction is open only while the environment is.
LEMMA InteractionOpen == InteractionDenial = "" => obs = "open"
  BY Zenon DEF InteractionDenial

\* generate: the generation is counted and not yet recorded.
LEMMA WorkerGenerateStarts ==
  ASSUME RuntimeInv, GenerateStarts,
         policy' = policy
  PROVE  RuntimeInv' /\ WorkerMove
<1>1. /\ trace \in Seq(Recordable) /\ RequestType
      /\ usage \in [generations : Nat, tools : Nat, tokens : Nat]
      /\ obs \in Observations /\ complete \in BOOLEAN
      /\ limited \in BOOLEAN /\ denied \in BOOLEAN
      /\ Ended /\ LatestInv /\ HistoryIsRecorded /\ AccountInv /\ ReplyInv
  BY RuntimeParts
<1>2. /\ rpc.kind = "generate" /\ obs = "open"
      /\ usage' = [usage EXCEPT !.generations = @ + 1]
      /\ ~complete' /\ complete' \in BOOLEAN
      /\ UNCHANGED <<generated, obs, limited, trace>>
  BY InteractionOpen, Zenon DEF GenerateStarts
<1>3. /\ usage' \in [generations : Nat, tools : Nat, tokens : Nat]
      /\ usage'.generations = usage.generations + 1
  BY <1>1, <1>2
<1>4. CASE Deny("STORAGE_WRITE_FAILED")
  <2>1. IsCode("STORAGE_WRITE_FAILED")
    BY Zenon DEF IsCode
  <2> QED
    BY <1>2, <1>3, <1>4, <2>1, PlainRefusal
<1>5. ASSUME NEW n, rpc' = [kind |-> "model", messages |-> rpc.messages,
                            complete |-> complete, allowed |-> n],
             denied' = denied
      PROVE  RuntimeInv' /\ WorkerMove
  <2>1. /\ rpc'.kind = "model" /\ rpc'.messages = rpc.messages
        /\ rpc'.complete = complete
    BY <1>5
  <2>2. /\ TraceMove /\ LastGeneration' = LastGeneration
        /\ LatestInv' /\ HistoryIsRecorded' /\ Ended'
        /\ \A N, open : Accounts(N, open) => Accounts(N, open)'
    BY <1>1, <1>2, TraceKept
  <2>3. /\ \A ms : Recorded(ms) => Recorded(ms)'
        /\ \A c : HasResult(c) => HasResult(c)'
    BY <1>1, <2>2, TraceMoves
  <2>4. RuntimeType'
    <3>1. RequestType'
      BY <1>1, <1>2, <2>1 DEF RequestType, RequestKinds
    <3> QED
      BY <1>1, <1>2, <1>3, <1>5, <3>1 DEF RuntimeType
  <2>5. EndInv'
    BY <1>2, <2>2 DEF EndInv, Ended
  <2>6. AccountInv'
    <3>1. usage.generations \in Nat /\ usage'.generations > 0
          /\ usage'.generations - 1 = usage.generations
      BY <1>1, <1>3
    <3>2. complete => Accounts(usage.generations - 1, {})'
      <4>1. complete => Accounts(usage.generations, {})
        BY <1>1 DEF AccountInv
      <4> QED
        BY <2>2, <3>1, <4>1
    <3> QED
      BY <1>2, <2>1, <3>1, <3>2 DEF AccountInv
  <2>7. ReplyInv'
    <3>1. Recorded(rpc.messages) /\ Covered(rpc.messages, {})
      BY <1>1, <1>2 DEF ReplyInv
    <3>2. Recorded(rpc.messages)' /\ Covered(rpc.messages, {})'
      BY <2>1, <2>3, <3>1
    <3> QED
      BY <2>1, <3>2 DEF ReplyInv
  <2>8. WorkerMove
    BY <1>2, <1>5, <2>1, <2>2, <2>3 DEF WorkerMove
  <2> QED
    BY <2>2, <2>4, <2>5, <2>6, <2>7, <2>8 DEF RuntimeInv
<1> QED
  BY <1>4, <1>5, Zenon DEF GenerateStarts

\* A server's answer.
LEMMA AnswerType ==
  ASSUME NEW a \in Answers
  PROVE  a.finish \in Finishes /\ a.calls \in Seq(CallId) /\ a.tokens \in Nat
<1>1. a.finish \in Finishes /\ a.calls \in Batches /\ a.tokens \in 0 .. TokenBound
  BY DEF Answers, Finishes
<1>2. PICK n \in 0 .. BatchBound : a.calls \in [1 .. n -> CallId]
  BY <1>1 DEF Batches
<1>3. n \in Nat
  BY <1>2, AgentAssumption
<1>4. a.calls \in Seq(CallId)
  BY <1>2, <1>3
<1> QED
  BY <1>1, <1>4, AgentAssumption

\* The event of a generation says what the model was asked with.
LEMMA GenerationType ==
  ASSUME RuntimeInv, rpc.kind = "model", NEW a \in Answers,
         NEW e, e = GenerationEvent(a)
  PROVE  /\ e \in Recordable
         /\ e.kind = "generation" /\ e.gen = usage.generations
         /\ e.finish = a.finish /\ e.messages = rpc.messages
         /\ Recorded(e.messages) /\ Covered(e.messages, {})
<1>1. /\ e.kind = "generation" /\ e.gen = usage.generations
      /\ e.finish = a.finish /\ e.messages = rpc.messages
  BY DEF GenerationEvent
<1>2. usage.generations \in Nat /\ rpc.messages \in Seq(Messages)
  BY RuntimeParts DEF RequestType
<1>3. a.finish \in Finishes /\ a.calls \in Seq(CallId)
  BY AnswerType
<1>4. e \in Recordable
  BY <1>2, <1>3 DEF GenerationEvent, Recordable
<1>5. Recorded(rpc.messages) /\ Covered(rpc.messages, {})
  BY RuntimeParts DEF ReplyInv
<1> QED
  BY <1>1, <1>4, <1>5

\* What recording a generation gives.
LEMMA GenerationRecorded ==
  ASSUME RuntimeInv, rpc.kind = "model", NEW a \in Answers,
         trace' = Append(trace, GenerationEvent(a)), obs' = obs,
         NEW g, g = usage.generations,
         policy' = policy
  PROVE  /\ TraceMove /\ trace' \in Seq(Recordable)
         /\ \A ms : Recorded(ms) => Recorded(ms)'
         /\ \A c : HasResult(c) => HasResult(c)'
         /\ LatestInv' /\ HistoryIsRecorded' /\ Ended'
         /\ LastGeneration' = g
         /\ a.finish = "stop" => Stops(g)'
         /\ rpc.complete => Accounts(g, {})'
<1>1. PICK e : e = GenerationEvent(a)
  OBVIOUS
<1>2. /\ e \in Recordable
      /\ e.kind = "generation" /\ e.gen = usage.generations
      /\ e.finish = a.finish /\ e.messages = rpc.messages
      /\ Recorded(e.messages) /\ Covered(e.messages, {})
  BY <1>1, GenerationType
<1>3. trace' = Append(trace, e) /\ trace \in Seq(Recordable)
  BY <1>1, RuntimeParts
<1>4. /\ trace' \in Seq(Recordable)
      /\ \A ms : Recorded(ms) => Recorded(ms)'
      /\ \A c : HasResult(c) => HasResult(c)'
  BY <1>2, <1>3, Appended, RecordsStay
<1>5. TraceMove
  BY <1>2, <1>3 DEF TraceMove
<1>6. LatestInv' /\ LastGeneration' = g
  BY <1>2, <1>3, LatestAppended, RuntimeParts
<1>7. HistoryIsRecorded'
  BY <1>2, <1>3, HistoryAppended, RuntimeParts
<1>8. Ended'
  BY <1>2, <1>3, EndedAppended, RuntimeParts
<1>9. a.finish = "stop" => Stops(g)'
  <2>1. PICK n : n = Len(trace) + 1
    OBVIOUS
  <2>2. n \in Events("generation")' /\ trace'[n] = e
    BY <1>2, <1>3, <2>1, Appended
  <2> QED
    BY <1>2, <2>2 DEF Stops
<1>10. rpc.complete => Accounts(g, {})'
  <2> SUFFICES ASSUME rpc.complete PROVE Accounts(g, {})'
    OBVIOUS
  <2>1. PICK N : N = usage.generations - 1
    OBVIOUS
  <2>2. N \in Nat /\ Accounts(N, {}) /\ N + 1 = g
    BY <2>1, RuntimeParts DEF AccountInv
  <2>3. Accounts(N + 1, {})'
    BY <1>2, <1>3, <2>2, AccountsAppended
  <2> QED
    BY <2>2, <2>3
<1> QED
  BY <1>4, <1>5, <1>6, <1>7, <1>8, <1>9, <1>10

\* A generation is recorded, and then answered or refused for a cancellation;
\* one that exceeds a limit is not recorded.
LEMMA WorkerModelAnswers ==
  ASSUME RuntimeInv, NEW a \in Answers, ModelAnswers(a),
         policy' = policy
  PROVE  RuntimeInv' /\ WorkerMove
<1>1. /\ trace \in Seq(Recordable) /\ RequestType
      /\ usage \in [generations : Nat, tools : Nat, tokens : Nat]
      /\ obs \in Observations /\ complete \in BOOLEAN
      /\ limited \in BOOLEAN /\ denied \in BOOLEAN
      /\ rpc.kind \in {"model", "tool"} => obs = "open"
  BY RuntimeParts
<1>2. /\ rpc.kind = "model" /\ obs' = obs /\ obs = "open"
      /\ usage' = [usage EXCEPT !.tokens = @ + a.tokens]
  BY <1>1 DEF ModelAnswers
<1>3. a.finish \in Finishes /\ a.calls \in Seq(CallId) /\ a.tokens \in Nat
  BY AnswerType
<1>4. /\ usage' \in [generations : Nat, tools : Nat, tokens : Nat]
      /\ usage'.generations = usage.generations
  BY <1>1, <1>2, <1>3
<1>5. /\ IsCode("OUTPUT_TOKEN_LIMIT") /\ IsCode("MODEL_OUTPUT_LIMIT_EXCEEDED")
      /\ IsCode("EPISODE_CANCELLED")
  BY Zenon DEF IsCode
<1>6. ASSUME NEW code, IsCode(code), Deny(code),
             UNCHANGED <<trace, complete, generated, limited>>
      PROVE  RuntimeInv' /\ WorkerMove
  BY <1>1, <1>2, <1>4, <1>6, PlainRefusal
<1>7. ASSUME trace' = Append(trace, GenerationEvent(a)),
             complete' = rpc.complete,
             generated' = generated \cup {<<c, usage.generations>> : c \in Range(a.calls)}
      PROVE  /\ Deny("EPISODE_CANCELLED") /\ limited' = limited =>
                  RuntimeInv' /\ WorkerMove
             /\ (/\ rpc' = [kind |-> "generation", gen |-> usage.generations,
                            finish |-> a.finish, calls |-> a.calls]
                 /\ limited' = (a.finish = "length") /\ denied' = denied) =>
                  RuntimeInv' /\ WorkerMove
  <2>1. PICK g : g = usage.generations
    OBVIOUS
  <2>2. /\ TraceMove /\ trace' \in Seq(Recordable)
        /\ \A ms : Recorded(ms) => Recorded(ms)'
        /\ \A c : HasResult(c) => HasResult(c)'
        /\ LatestInv' /\ HistoryIsRecorded' /\ Ended'
        /\ LastGeneration' = g
        /\ a.finish = "stop" => Stops(g)'
        /\ rpc.complete => Accounts(g, {})'
    BY <1>2, <1>7, <2>1, GenerationRecorded
  <2>3. complete' \in BOOLEAN /\ (complete' => Accounts(usage.generations, {})')
    BY <1>1, <1>2, <1>4, <1>7, <2>1, <2>2 DEF RequestType
  <2>4. generated \subseteq generated'
    BY <1>7
  <2>5. ASSUME Deny("EPISODE_CANCELLED"), limited' = limited
        PROVE  RuntimeInv' /\ WorkerMove
    <3>1. "EPISODE_CANCELLED" \notin LimitCodes
      BY DEF LimitCodes
    <3> QED
      BY <1>1, <1>2, <1>4, <1>5, <2>2, <2>3, <2>4, <2>5, <3>1, Refusal
  <2>6. ASSUME rpc' = [kind |-> "generation", gen |-> usage.generations,
                       finish |-> a.finish, calls |-> a.calls],
               limited' = (a.finish = "length"), denied' = denied
        PROVE  RuntimeInv' /\ WorkerMove
    <3>1. /\ rpc'.kind = "generation" /\ rpc'.gen = g
          /\ rpc'.finish = a.finish /\ rpc'.calls = a.calls
      BY <2>1, <2>6
    <3>2. RuntimeType'
      <4>1. RequestType'
        BY <1>1, <1>3, <2>1, <3>1 DEF RequestType, RequestKinds
      <4> QED
        BY <1>1, <1>2, <1>4, <2>2, <2>3, <2>6, <4>1 DEF RuntimeType
    <3>3. EndInv'
      BY <2>2, <3>1 DEF EndInv, Ended
    <3>4. AccountInv'
      BY <2>3, <3>1 DEF AccountInv
    <3>5. ReplyInv'
      <4>1. rpc'.finish = "stop" => Stops(rpc.gen)'
        BY <2>2, <3>1
      <4>2. \A c \in Range(rpc'.calls) : <<c, rpc'.gen>> \in generated'
        BY <1>7, <2>1, <3>1
      <4> QED
        BY <2>2, <2>6, <3>1, <4>1, <4>2 DEF ReplyInv
    <3>6. WorkerMove
      BY <1>2, <2>2, <2>4, <2>6, <3>1 DEF WorkerMove
    <3> QED
      BY <2>2, <3>2, <3>3, <3>4, <3>5, <3>6 DEF RuntimeInv
  <2> QED
    BY <2>5, <2>6
<1> QED
  BY <1>5, <1>6, <1>7, Zenon DEF ModelAnswers

\* The event or the usage after it is not written: the trace stays suspect.
LEMMA WorkerGenerationNotRecorded ==
  ASSUME RuntimeInv, NEW a \in Answers, GenerationNotRecorded(a),
         policy' = policy
  PROVE  RuntimeInv' /\ WorkerMove
<1>1. /\ usage \in [generations : Nat, tools : Nat, tokens : Nat]
      /\ obs \in Observations /\ AccountInv
      /\ complete \in BOOLEAN
  BY RuntimeParts
<1>2. /\ rpc.kind = "model" /\ obs' = obs /\ complete' = complete
      /\ usage' = [usage EXCEPT !.tokens = @ + a.tokens]
      /\ Deny("STORAGE_WRITE_FAILED")
      /\ trace' = trace \/ trace' = Append(trace, GenerationEvent(a))
      /\ UNCHANGED <<generated, limited>>
  BY DEF GenerationNotRecorded
<1>3. a.tokens \in Nat
  BY AnswerType
<1>4. /\ usage' \in [generations : Nat, tools : Nat, tokens : Nat]
      /\ usage'.generations = usage.generations
  BY <1>1, <1>2, <1>3
<1>5. IsCode("STORAGE_WRITE_FAILED")
  BY Zenon DEF IsCode
<1>6. "STORAGE_WRITE_FAILED" \notin LimitCodes
  BY DEF LimitCodes
<1>7. CASE trace' = trace
  BY <1>1, <1>2, <1>4, <1>5, <1>7, PlainRefusal
<1>8. CASE trace' = Append(trace, GenerationEvent(a))
  <2>1. TraceMove /\ LatestInv' /\ HistoryIsRecorded' /\ Ended'
    BY <1>2, <1>8, GenerationRecorded
  <2>2. ~complete'
    BY <1>1, <1>2 DEF AccountInv
  <2> QED
    BY <1>1, <1>2, <1>4, <1>5, <1>6, <2>1, <2>2, Refusal
<1> QED
  BY <1>2, <1>7, <1>8

\* So it is for a step.
LEMMA StepOpen == ASSUME NEW c, StepDenial(c) = "" PROVE obs = "open"
<1>1. InteractionDenial = ""
  BY Zenon DEF StepDenial
<1> QED
  BY <1>1, InteractionOpen, Zenon

\* What recording a call or a result gives.
LEMMA ToolRecorded ==
  ASSUME RuntimeInv, obs = "open", NEW e \in Recordable, trace' = Append(trace, e),
         e.kind \in {"tool_call", "tool_result"},
         e.kind = "tool_result" => (e.obs # "open" => obs' # "open"),
         policy' = policy
  PROVE  /\ TraceMove /\ trace' \in Seq(Recordable)
         /\ \A ms : Recorded(ms) => Recorded(ms)'
         /\ \A c : HasResult(c) => HasResult(c)'
         /\ LatestInv' /\ HistoryIsRecorded' /\ Ended'
         /\ LastGeneration' = LastGeneration
<1>1. trace \in Seq(Recordable) /\ LatestInv /\ HistoryIsRecorded /\ Ended
  BY RuntimeParts
<1>2. /\ trace' \in Seq(Recordable)
      /\ \A ms : Recorded(ms) => Recorded(ms)'
      /\ \A c : HasResult(c) => HasResult(c)'
  BY <1>1, Appended, RecordsStay
<1>3. LatestInv' /\ LastGeneration' = LastGeneration
  BY <1>1, LatestAppended
<1>4. HistoryIsRecorded'
  BY <1>1, HistoryAppended
<1>5. Ended'
  BY <1>1, EndedAppended
<1> QED
  BY <1>2, <1>3, <1>4, <1>5 DEF TraceMove

\* step: the call is counted, recorded and not yet answered, or it is refused
\* with the trace suspect unless nothing was recorded.
LEMMA WorkerStepStarts ==
  ASSUME RuntimeInv, StepStarts,
         policy' = policy
  PROVE  RuntimeInv' /\ WorkerMove
<1>1. /\ trace \in Seq(Recordable) /\ RequestType
      /\ usage \in [generations : Nat, tools : Nat, tokens : Nat]
      /\ obs \in Observations /\ complete \in BOOLEAN
      /\ limited \in BOOLEAN /\ denied \in BOOLEAN
      /\ AccountInv
  BY RuntimeParts
<1>2. /\ rpc.kind = "step" /\ obs = "open" /\ obs' = obs
      /\ usage' = [usage EXCEPT !.tools = @ + 1]
      /\ UNCHANGED <<generated, limited>>
  BY StepOpen, Zenon DEF StepStarts
<1>3. /\ usage' \in [generations : Nat, tools : Nat, tokens : Nat]
      /\ usage'.generations = usage.generations
  BY <1>1, <1>2
<1>4. IsCode("STORAGE_WRITE_FAILED")
  BY Zenon DEF IsCode
<1>5. ASSUME Deny("STORAGE_WRITE_FAILED"), trace' = trace,
             complete' = complete \/ complete' = FALSE
      PROVE  RuntimeInv' /\ WorkerMove
  <2>1. complete' \in BOOLEAN /\ (complete' = complete \/ ~complete')
    BY <1>1, <1>5
  <2> QED
    BY <1>1, <1>2, <1>3, <1>4, <1>5, <2>1, PlainRefusal
<1>6. ASSUME trace' = Append(trace, [kind |-> "tool_call", call |-> rpc.call]),
             rpc' = [kind |-> "tool", call |-> rpc.call, complete |-> complete],
             complete' = FALSE, denied' = denied
      PROVE  RuntimeInv' /\ WorkerMove
  <2>1. PICK e : e = [kind |-> "tool_call", call |-> rpc.call]
    OBVIOUS
  <2>2. /\ e \in Recordable /\ e.kind = "tool_call" /\ e.call = rpc.call
        /\ trace' = Append(trace, e)
    BY <1>1, <1>2, <1>6, <2>1 DEF RequestType, Recordable
  <2>3. rpc'.kind = "tool" /\ rpc'.call = rpc.call /\ rpc'.complete = complete
    BY <1>6
  <2>4. /\ trace' \in Seq(Recordable)
        /\ \A ms : Recorded(ms) => Recorded(ms)'
        /\ \A c : HasResult(c) => HasResult(c)'
        /\ LatestInv' /\ HistoryIsRecorded' /\ Ended'
        /\ LastGeneration' = LastGeneration
    BY <1>2, <2>2, ToolRecorded
  <2>5. RuntimeType'
    <3>1. RequestType'
      BY <1>1, <1>2, <2>3 DEF RequestType, RequestKinds
    <3> QED
      BY <1>1, <1>2, <1>3, <1>6, <2>4, <3>1 DEF RuntimeType
  <2>6. EndInv'
    BY <1>2, <2>4 DEF EndInv, Ended
  <2>7. AccountInv'
    <3>1. PICK N : N = usage.generations
      OBVIOUS
    <3>2. N \in Nat /\ (complete => Accounts(N, {}))
      BY <1>1, <3>1 DEF AccountInv
    <3>3. complete => Accounts(N, {} \cup {e.call})'
      BY <1>1, <2>2, <3>2, AccountsAppended
    <3>4. {} \cup {e.call} = {rpc'.call} /\ N = usage'.generations
      BY <1>3, <2>2, <2>3, <3>1
    <3>5. complete => Accounts(usage.generations, {rpc.call})'
      BY <3>3, <3>4
    <3> QED
      BY <1>6, <2>3, <3>5 DEF AccountInv
  <2>8. ReplyInv'
    BY <2>3 DEF ReplyInv
  <2>9. WorkerMove
    BY <1>2, <1>6, <2>3, <2>4 DEF WorkerMove
  <2> QED
    BY <2>4, <2>5, <2>6, <2>7, <2>8, <2>9 DEF RuntimeInv
<1> QED
  BY <1>5, <1>6, Zenon DEF StepStarts

\* A tool's result is recorded, and then answered or refused for a
\* cancellation.
LEMMA WorkerToolReturns ==
  ASSUME RuntimeInv, NEW status \in ToolStatus, NEW o \in Observations,
         ToolReturns(status, o),
         policy' = policy
  PROVE  RuntimeInv' /\ WorkerMove
<1>1. /\ trace \in Seq(Recordable) /\ RequestType
      /\ usage \in [generations : Nat, tools : Nat, tokens : Nat]
      /\ obs \in Observations /\ complete \in BOOLEAN
      /\ limited \in BOOLEAN /\ denied \in BOOLEAN
      /\ AccountInv
      /\ rpc.kind \in {"model", "tool"} => obs = "open"
  BY RuntimeParts
<1>2. PICK e : e = [kind |-> "tool_result", call |-> rpc.call, status |-> status,
                    obs |-> o]
  OBVIOUS
<1>3. /\ rpc.kind = "tool" /\ obs = "open"
      /\ status # "ok" => o = "open"
      /\ obs' = IF status = "ok" THEN o ELSE obs
      /\ trace' = Append(trace, e)
      /\ complete' = rpc.complete
      /\ UNCHANGED <<usage, generated, limited>>
  BY <1>1, <1>2 DEF ToolReturns
<1>4. /\ e \in Recordable /\ e.kind = "tool_result" /\ e.call = rpc.call
      /\ e.status = status /\ e.obs = o
  BY <1>1, <1>2, <1>3 DEF RequestType, Recordable
<1>5. obs' \in Observations /\ (o # "open" => obs' # "open")
  BY <1>1, <1>3
<1>6. /\ TraceMove /\ trace' \in Seq(Recordable)
      /\ \A ms : Recorded(ms) => Recorded(ms)'
      /\ \A c : HasResult(c) => HasResult(c)'
      /\ LatestInv' /\ HistoryIsRecorded' /\ Ended'
      /\ LastGeneration' = LastGeneration
  BY <1>3, <1>4, <1>5, ToolRecorded
<1>7. complete' \in BOOLEAN /\ (complete' => Accounts(usage.generations, {})')
  <2>1. complete' \in BOOLEAN
    BY <1>1, <1>3 DEF RequestType
  <2>2. ASSUME rpc.complete PROVE Accounts(usage.generations, {})'
    <3>1. PICK N : N = usage.generations
      OBVIOUS
    <3>2. N \in Nat /\ Accounts(N, {rpc.call})
      BY <1>1, <1>3, <2>2, <3>1 DEF AccountInv
    <3>3. Accounts(N, {})'
      <4>1. PICK open : open = {rpc.call}
        OBVIOUS
      <4>2. Accounts(N, open \ {e.call})'
        BY <1>1, <1>3, <1>4, <3>2, <4>1, AccountsAppended
      <4>3. open \ {e.call} = {}
        BY <1>4, <4>1
      <4> QED
        BY <4>2, <4>3
    <3> QED
      BY <1>3, <3>1, <3>3
  <2> QED
    BY <1>3, <2>1, <2>2
<1>8. CASE Deny("EPISODE_CANCELLED")
  <2>1. IsCode("EPISODE_CANCELLED")
    BY Zenon DEF IsCode
  <2> QED
    BY <1>1, <1>3, <1>5, <1>6, <1>7, <1>8, <2>1, Refusal
<1>9. ASSUME rpc' = [kind |-> "result", call |-> rpc.call, status |-> status, obs |-> o],
             denied' = denied
      PROVE  RuntimeInv' /\ WorkerMove
  <2>1. /\ rpc'.kind = "result" /\ rpc'.call = rpc.call
        /\ rpc'.status = status /\ rpc'.obs = o
    BY <1>9
  <2>2. RuntimeType'
    <3>1. RequestType'
      BY <1>1, <1>3, <2>1 DEF RequestType, RequestKinds
    <3> QED
      BY <1>1, <1>3, <1>5, <1>6, <1>7, <1>9, <3>1 DEF RuntimeType
  <2>3. EndInv'
    BY <1>6, <2>1 DEF EndInv, Ended
  <2>4. AccountInv'
    BY <1>7, <2>1 DEF AccountInv
  <2>5. ReplyInv'
    <3>1. PICK n : n = Len(trace) + 1
      OBVIOUS
    <3>2. n \in Events("tool_result")' /\ trace'[n] = e
      BY <1>1, <1>3, <1>4, <3>1, Appended
    <3>3. \E i \in Events("tool_result")' :
            trace'[i].call = rpc'.call /\ trace'[i].status = rpc'.status
      BY <1>4, <2>1, <3>2
    <3> QED
      BY <1>5, <2>1, <3>3 DEF ReplyInv
  <2>6. WorkerMove
    BY <1>3, <1>6, <1>9, <2>1 DEF WorkerMove
  <2> QED
    BY <1>6, <2>2, <2>3, <2>4, <2>5, <2>6 DEF RuntimeInv
<1> QED
  BY <1>8, <1>9 DEF ToolReturns

\* The tool host failed: the trace stays suspect, with or without a result.
LEMMA WorkerToolFails ==
  ASSUME RuntimeInv, ToolFails,
         policy' = policy
  PROVE  RuntimeInv' /\ WorkerMove
<1>1. /\ RequestType
      /\ usage \in [generations : Nat, tools : Nat, tokens : Nat]
      /\ obs \in Observations /\ complete \in BOOLEAN
      /\ AccountInv
      /\ rpc.kind \in {"model", "tool"} => obs = "open"
  BY RuntimeParts
<1>2. PICK e : e = [kind |-> "tool_result", call |-> rpc.call, status |-> "failed",
                    obs |-> "open"]
  OBVIOUS
<1>3. /\ rpc.kind = "tool" /\ obs = "open" /\ obs' = obs /\ complete' = complete
      /\ trace' = trace \/ trace' = Append(trace, e)
      /\ Deny("TOOL_HOST_FAILED")
      /\ UNCHANGED <<usage, generated, limited>>
  BY <1>1, <1>2 DEF ToolFails
<1>4. IsCode("TOOL_HOST_FAILED")
  BY Zenon DEF IsCode
<1>5. CASE trace' = trace
  BY <1>1, <1>3, <1>4, <1>5, PlainRefusal
<1>6. CASE trace' = Append(trace, e)
  <2>1. e \in Recordable /\ e.kind = "tool_result" /\ e.obs = "open"
    BY <1>1, <1>2, <1>3 DEF RequestType, Recordable, Observations
  <2>2. /\ TraceMove /\ LatestInv' /\ HistoryIsRecorded' /\ Ended'
        /\ LastGeneration' = LastGeneration
    BY <1>3, <1>6, <2>1, ToolRecorded
  <2>3. ~complete'
    BY <1>1, <1>3 DEF AccountInv
  <2> QED
    BY <1>1, <1>3, <1>4, <2>2, <2>3, Refusal
<1> QED
  BY <1>3, <1>5, <1>6

\* The result could not be written, and its observation is current already.
LEMMA WorkerResultNotRecorded ==
  ASSUME RuntimeInv, NEW o \in Observations, ResultNotRecorded(o),
         policy' = policy
  PROVE  RuntimeInv' /\ WorkerMove
<1>1. /\ usage \in [generations : Nat, tools : Nat, tokens : Nat]
      /\ complete \in BOOLEAN /\ AccountInv
      /\ Ended /\ LatestInv /\ HistoryIsRecorded
      /\ rpc.kind \in {"model", "tool"} => obs = "open"
  BY RuntimeParts
<1>2. /\ rpc.kind = "tool" /\ obs = "open" /\ obs' = o
      /\ Deny("STORAGE_WRITE_FAILED")
      /\ UNCHANGED <<usage, generated, limited, trace, complete>>
  BY <1>1 DEF ResultNotRecorded
<1>3. /\ TraceMove /\ LatestInv' /\ HistoryIsRecorded' /\ Ended'
      /\ LastGeneration' = LastGeneration
  BY <1>1, <1>2, TraceKept
<1>4. ~complete'
  BY <1>1, <1>2 DEF AccountInv
<1>5. IsCode("STORAGE_WRITE_FAILED")
  BY Zenon DEF IsCode
<1> QED
  BY <1>1, <1>2, <1>3, <1>4, <1>5, Refusal

\* The Worker keeps its invariant, and the agent can rely on it.
LEMMA WorkerSteps ==
  ASSUME RuntimeInv, RuntimeReplies,
         policy' = policy
  PROVE  RuntimeInv' /\ WorkerMove
<1>1. {"open", "terminated", "truncated"} = Observations
      /\ {"open", "terminated"} \subseteq Observations
  BY DEF Observations
<1> QED
  BY <1>1, WorkerGenerateRefused, WorkerGenerateStarts, WorkerModelFails,
     WorkerModelAnswers, WorkerGenerationNotRecorded, WorkerStepRefused,
     WorkerStepStarts, WorkerToolFails, WorkerToolReturns, WorkerResultNotRecorded
     DEF RuntimeReplies

-----------------------------------------------------------------------------
(***************************************************************************)
(* The agent keeps its invariant: first when the Worker moves.             *)
(***************************************************************************)

\* The agent waits, and finds what it relied on.
LEMMA WorkerKeepsAgent ==
  ASSUME RuntimeInv, AgentInv, RuntimeReplies, UNCHANGED <<hostVars, agentVars>>
  PROVE  AgentInv'
<1>1. AgentType /\ PhaseInv /\ BatchInv /\ AnswerInv /\ ReasonInv /\ MessagesInv
  BY DEF AgentInv
<1>2. RuntimeInv' /\ WorkerMove
  BY WorkerSteps DEF hostVars
<1>3. UNCHANGED <<policy, pc, messages, exchange, todo, answer, seen, pending, stopped,
                  failure, finished>>
  BY DEF hostVars, agentVars
<1>4. /\ generated \subseteq generated'
      /\ denied => denied'
      /\ obs # "open" => obs' # "open"
      /\ \A c : HasResult(c) => HasResult(c)'
      /\ \A ms : Recorded(ms) => Recorded(ms)'
      /\ rpc.kind \in {"generate", "model", "step", "tool"}
  BY <1>2 DEF WorkerMove
<1>5. pc \in {"generating", "stepping"}
  BY <1>1, <1>4 DEF PhaseInv
<1>6. AgentType'
  BY <1>1, <1>3 DEF AgentType
<1>7. ReasonInv'
  BY <1>1, <1>3, <1>4, <1>5 DEF ReasonInv
<1>8. MessagesInv'
  <2>1. CASE OpenHands
    BY <1>1, <1>3, <1>4, <2>1 DEF MessagesInv, OpenHands
  <2>2. CASE ~OpenHands
    BY <1>1, <1>3, <1>4, <2>2 DEF MessagesInv, OpenHands
  <2> QED
    BY <2>1, <2>2
<1>9. CASE pc = "generating"
  <2>1. /\ rpc.kind \in {"generate", "model"}
        /\ rpc'.kind \in {"model", "generation", "error"}
        /\ rpc'.kind = "model" => LastGeneration' = LastGeneration
        /\ rpc'.kind = "error" /\ rpc'.code \in LimitCodes =>
             LastGeneration' = LastGeneration
    BY <1>1, <1>2, <1>9 DEF WorkerMove, PhaseInv
  <2>2. Submittable
    BY <1>1, <1>9, <2>1 DEF AnswerInv
  <2>3. LastGeneration' = LastGeneration => Submittable'
    BY <1>3, <1>4, <2>2 DEF Submittable
  <2>4. PhaseInv'
    BY <1>3, <1>9, <2>1 DEF PhaseInv
  <2>5. BatchInv'
    BY <1>3, <1>9 DEF BatchInv
  <2>6. AnswerInv'
    BY <1>3, <1>9, <2>1, <2>3 DEF AnswerInv
  <2> QED
    BY <1>6, <1>7, <1>8, <2>4, <2>5, <2>6 DEF AgentInv
<1>10. CASE pc = "stepping"
  <2>1. /\ rpc.kind \in {"step", "tool"}
        /\ rpc'.kind \in {"tool", "result", "error"}
        /\ rpc'.kind # "error" => rpc'.call = rpc.call
        /\ LastGeneration' = LastGeneration
    BY <1>1, <1>2, <1>10 DEF WorkerMove, PhaseInv
  <2>2. Submittable
    BY <1>1, <1>10 DEF AnswerInv
  <2>3. Submittable'
    BY <1>3, <1>4, <2>1, <2>2 DEF Submittable
  <2>4. PhaseInv'
    BY <1>3, <1>10, <2>1 DEF PhaseInv
  <2>5. BatchInv'
    BY <1>1, <1>3, <1>4, <1>10, <2>1 DEF BatchInv, StandsFor, OpenHands
  <2>6. AnswerInv'
    BY <1>3, <1>10, <2>3 DEF AnswerInv
  <2> QED
    BY <1>6, <1>7, <1>8, <2>4, <2>5, <2>6 DEF AgentInv
<1> QED
  BY <1>5, <1>9, <1>10

-----------------------------------------------------------------------------
(***************************************************************************)
(* Then when it moves itself.                                              *)
(***************************************************************************)

\* What a step of the agent leaves alone.
WorkerStands ==
  UNCHANGED <<usage, generated, obs, denied, limited, trace, complete, policy>>

\* So what is recorded stays the same.
LEMMA Standing ==
  ASSUME WorkerStands
  PROVE  /\ LastGeneration' = LastGeneration
         /\ \A k : Events(k)' = Events(k)
         /\ \A ms : Recorded(ms)' <=> Recorded(ms)
         /\ \A c : HasResult(c)' <=> HasResult(c)
         /\ \A g : Stops(g)' <=> Stops(g)
<1>1. trace' = trace /\ policy' = policy
  BY DEF WorkerStands
<1>2. \A k : Events(k)' = Events(k)
  BY <1>1 DEF Events
<1>3. LastGeneration' = LastGeneration
  BY <1>1, TraceKept
<1> QED
  BY <1>1, <1>2, <1>3 DEF Recorded, HasResult, Stops, Unclaimed, Repeats, StandsFor,
                          OpenHands

\* The agent takes a reply, asks for a generation with a recorded history or
\* asks for a step.
LEMMA AgentAsks ==
  ASSUME RuntimeInv, WorkerStands,
         \/ rpc'.kind = "idle"
         \/ /\ rpc'.kind = "generate" /\ rpc'.messages \in Seq(Messages)
            /\ Recorded(rpc'.messages) /\ Covered(rpc'.messages, {})
         \/ rpc'.kind = "step" /\ rpc'.call \in CallId
  PROVE  RuntimeInv'
<1>1. RuntimeType /\ Ended /\ LatestInv /\ HistoryIsRecorded /\ AccountInv
  BY RuntimeParts DEF RuntimeInv
<1>2. UNCHANGED <<usage, generated, obs, denied, limited, trace, complete, policy>>
  BY DEF WorkerStands
<1>3. /\ LatestInv' /\ HistoryIsRecorded' /\ Ended'
      /\ \A N, open : Accounts(N, open) => Accounts(N, open)'
  BY <1>1, <1>2, TraceKept
<1>4. RuntimeType'
  <2>1. RequestType'
    BY DEF RequestType, RequestKinds
  <2> QED
    BY <1>1, <1>2, <2>1 DEF RuntimeType
<1>5. EndInv'
  BY <1>3 DEF EndInv, Ended
<1>6. AccountInv'
  <2>1. complete => Accounts(usage.generations, {})
    BY <1>1 DEF AccountInv
  <2>2. complete' => Accounts(usage.generations, {})'
    BY <1>2, <1>3, <2>1
  <2> QED
    BY <2>2 DEF AccountInv
<1>7. ReplyInv'
  <2>1. ASSUME rpc'.kind = "generate" PROVE Recorded(rpc.messages)' /\ Covered(rpc.messages, {})'
    BY <2>1, Standing
  <2> QED
    BY <2>1 DEF ReplyInv
<1> QED
  BY <1>3, <1>4, <1>5, <1>6, <1>7 DEF RuntimeInv

\* run() ends, with an answer or an error.
LEMMA RunEnds ==
  ASSUME AgentInv, WorkerStands, policy' = policy,
         pc' \in {"returned", "failed"}, rpc'.kind = "idle",
         exchange' \in Seq(Messages), todo' \in Seq(CallId), pending' \in Seq(CallId),
         messages' = messages, failure' = failure \/ IsCode(failure'),
         pc' = "returned" =>
           /\ Submittable'
           /\ obs # "open" \/ denied \/ limited \/ finished' \/ Stops(LastGeneration),
         seen' # "open" => obs # "open", stopped' => obs # "open",
         failure' \in LimitCodes => denied
  PROVE  AgentInv'
<1>1. AgentType /\ MessagesInv
  BY DEF AgentInv
<1>2. UNCHANGED <<obs, denied, limited>>
  BY DEF WorkerStands
<1>3. /\ LastGeneration' = LastGeneration
      /\ \A ms : Recorded(ms)' <=> Recorded(ms)
      /\ \A g : Stops(g)' <=> Stops(g)
  BY Standing
<1>4. AgentType'
  BY <1>1 DEF AgentType
<1>5. PhaseInv'
  BY DEF PhaseInv
<1>6. BatchInv'
  BY DEF BatchInv
<1>7. AnswerInv'
  BY DEF AnswerInv
<1>8. ReasonInv'
  <2>1. pc' = "returned" => \/ obs' # "open" \/ denied' \/ limited' \/ finished'
                            \/ Stops(LastGeneration)'
    BY <1>2, <1>3
  <2> QED
    BY <1>2, <2>1 DEF ReasonInv
<1>9. MessagesInv'
  <2>1. CASE OpenHands
    BY <1>1, <1>3, <2>1 DEF MessagesInv, OpenHands
  <2>2. CASE ~OpenHands
    BY <1>1, <1>3, <2>2 DEF MessagesInv, OpenHands
  <2> QED
    BY <2>1, <2>2
<1> QED
  BY <1>4, <1>5, <1>6, <1>7, <1>8, <1>9 DEF AgentInv

\* run() goes on: the answer at hand may still be submitted.
LEMMA RunGoesOn ==
  ASSUME WorkerStands,
         pc' \in {"loop", "generating", "calling", "stepping"},
         AgentType', PhaseInv', BatchInv', MessagesInv', Submittable',
         seen' # "open" => obs # "open", stopped' => obs # "open",
         failure' \in LimitCodes => denied
  PROVE  AgentInv'
<1>1. UNCHANGED <<obs, denied>>
  BY DEF WorkerStands
<1>2. AnswerInv'
  BY DEF AnswerInv
<1>3. ReasonInv'
  BY <1>1 DEF ReasonInv
<1> QED
  BY <1>2, <1>3 DEF AgentInv

\* A step of run() leaves the Worker alone.
LEMMA RunStands == InRun => WorkerStands /\ policy' = policy
  BY DEF InRun, WorkerStands

\* An answer that may be submitted still may, and the last generation may.
LEMMA StillSubmittable ==
  ASSUME WorkerStands, \/ answer' = answer /\ Submittable
                       \/ answer' = LastGeneration
                       \/ /\ HasResult(answer')
                          /\ <<answer', LastGeneration>> \in generated
  PROVE  Submittable'
<1>1. generated' = generated
  BY DEF WorkerStands
<1>2. LastGeneration' = LastGeneration /\ \A c : HasResult(c)' <=> HasResult(c)
  BY Standing
<1>3. Submittable' <=> \/ answer' = LastGeneration
                       \/ /\ HasResult(answer')
                          /\ <<answer', LastGeneration>> \in generated
  BY <1>1, <1>2 DEF Submittable
<1> QED
  BY <1>3 DEF Submittable

\* The parts of the invariant.
LEMMA AgentParts ==
  ASSUME AgentInv
  PROVE  /\ AgentType /\ PhaseInv /\ BatchInv /\ AnswerInv /\ ReasonInv /\ MessagesInv
         /\ messages \in Seq(Messages) /\ exchange \in Seq(Messages)
         /\ todo \in Seq(CallId) /\ pending \in Seq(CallId)
         /\ seen # "open" => obs # "open"
         /\ stopped => obs # "open"
         /\ failure \in LimitCodes => denied
         /\ pc \in {"loop", "calling", "stepping"} => Submittable
  BY DEF AgentInv, AgentType, ReasonInv, AnswerInv

-----------------------------------------------------------------------------
(* PlainAgent.                                                             *)

\* It asks with a recorded history, or leaves because the environment ended.
LEMMA AgentPlainGenerate ==
  ASSUME RuntimeInv, AgentInv, PlainGenerate
  PROVE  RuntimeInv' /\ AgentInv'
<1>1. /\ AgentType /\ PhaseInv /\ BatchInv /\ MessagesInv
      /\ messages \in Seq(Messages) /\ exchange \in Seq(Messages)
      /\ todo \in Seq(CallId) /\ pending \in Seq(CallId)
      /\ seen # "open" => obs # "open"
      /\ stopped => obs # "open"
      /\ failure \in LimitCodes => denied
  BY AgentParts
<1>2. /\ ~OpenHands /\ pc = "loop" /\ rpc.kind = "idle" /\ Submittable
      /\ WorkerStands /\ policy' = policy
      /\ UNCHANGED <<messages, exchange, todo, seen, pending, stopped, failure, finished>>
  BY AgentParts, RunStands DEF PlainGenerate, PhaseInv
<1>3. CASE seen # "open"
  <2>1. pc' = "returned" /\ answer' = answer /\ rpc' = rpc
    BY <1>3 DEF PlainGenerate, Return
  <2>2. Submittable'
    BY <1>2, <2>1, StillSubmittable
  <2>3. RuntimeInv'
    BY <1>2, <2>1, AgentAsks
  <2>4. AgentInv'
    BY <1>1, <1>2, <1>3, <2>1, <2>2, RunEnds
  <2> QED
    BY <2>3, <2>4
<1>4. CASE ~(seen # "open")
  <2>1. /\ rpc' = [kind |-> "generate", messages |-> messages]
        /\ pc' = "generating" /\ answer' = answer
    BY <1>4 DEF PlainGenerate, Request
  <2>2. rpc'.kind = "generate" /\ rpc'.messages = messages
    BY <2>1
  <2>3. Recorded(messages) /\ Covered(messages, {})
    BY <1>1, <1>2 DEF MessagesInv
  <2>4. RuntimeInv'
    BY <1>1, <1>2, <2>2, <2>3, AgentAsks
  <2>5. AgentType' /\ PhaseInv' /\ BatchInv'
    BY <1>1, <1>2, <2>1, <2>2 DEF AgentType, PhaseInv, BatchInv
  <2>6. MessagesInv'
    <3>1. Recorded(messages)' /\ Covered(messages, {})'
      BY <1>2, <2>3, Standing
    <3> QED
      BY <1>2, <2>1, <3>1 DEF MessagesInv, OpenHands
  <2>7. Submittable'
    BY <1>2, <2>1, StillSubmittable
  <2>8. AgentInv'
    BY <1>1, <1>2, <2>1, <2>5, <2>6, <2>7, RunGoesOn
  <2> QED
    BY <2>4, <2>8
<1> QED
  BY <1>3, <1>4

\* A generation becomes the answer; its calls open a round.
LEMMA AgentPlainGeneration ==
  ASSUME RuntimeInv, AgentInv, PlainGeneration
  PROVE  RuntimeInv' /\ AgentInv'
<1>1. /\ AgentType /\ PhaseInv /\ BatchInv /\ MessagesInv
      /\ messages \in Seq(Messages) /\ exchange \in Seq(Messages)
      /\ todo \in Seq(CallId) /\ pending \in Seq(CallId)
      /\ seen # "open" => obs # "open"
      /\ stopped => obs # "open"
      /\ failure \in LimitCodes => denied
  BY AgentParts
<1>2. /\ ~OpenHands /\ pc = "generating" /\ rpc.kind = "generation"
      /\ rpc'.kind = "idle"
      /\ WorkerStands /\ policy' = policy
      /\ UNCHANGED <<messages, seen, pending, stopped, failure, finished>>
  BY RunStands DEF PlainGeneration, Idle
<1>3. /\ rpc.gen = LastGeneration /\ rpc.gen \in Nat
      /\ rpc.finish \in Finishes /\ rpc.calls \in Seq(CallId)
      /\ rpc.finish = "stop" => Stops(rpc.gen)
      /\ rpc.finish = "length" => limited
      /\ \A c \in Range(rpc.calls) : <<c, rpc.gen>> \in generated
  BY <1>2, RuntimeParts DEF ReplyInv, RequestType
<1>4. RuntimeInv'
  BY <1>2, AgentAsks
<1>5. CASE rpc.finish # "tool_calls"
  <2>1. pc' = "returned" /\ answer' = rpc.gen /\ UNCHANGED <<exchange, todo>>
    BY <1>5 DEF PlainGeneration, Return
  <2>2. Submittable'
    BY <1>2, <1>3, <2>1, StillSubmittable
  <2>3. limited \/ Stops(LastGeneration)
    BY <1>3, <1>5 DEF Finishes
  <2>4. AgentInv'
    BY <1>1, <1>2, <2>1, <2>2, <2>3, RunEnds
  <2> QED
    BY <1>4, <2>4
<1>6. CASE ~(rpc.finish # "tool_calls")
  <2>1. PICK m : m = Assistant(rpc.gen, rpc.calls)
    OBVIOUS
  <2>2. /\ pc' = "calling" /\ answer' = rpc.gen /\ todo' = rpc.calls
        /\ exchange' = <<m>>
    BY <1>6, <2>1 DEF PlainGeneration
  <2>3. m \in Messages /\ m.role = "assistant" /\ m.calls = rpc.calls
    BY <1>3, <2>1 DEF Assistant, Messages
  <2>4. exchange' \in Seq(Messages) /\ Range(exchange') = {m}
    BY <2>2, <2>3 DEF Range
  <2>5. LastGeneration' = LastGeneration /\ generated' = generated
    BY <1>2, Standing DEF WorkerStands
  <2>6. AgentType' /\ PhaseInv'
    BY <1>1, <1>2, <1>3, <2>2, <2>4 DEF AgentType, PhaseInv
  <2>7. BatchInv'
    BY <1>2, <1>3, <2>2, <2>5 DEF BatchInv, OpenHands
  <2>8. MessagesInv'
    <3>1. Recorded(messages)' /\ Covered(messages, {})'
      BY <1>1, <1>2, Standing DEF MessagesInv
    <3>2. Tools(exchange)' = {}
      BY <2>3, <2>4 DEF Tools
    <3>3. Recorded(exchange)'
      BY <3>2 DEF Recorded
    <3>4. Covered(exchange, Range(todo))'
      BY <2>2, <2>3, <2>4, <3>2 DEF Covered
    <3> QED
      BY <1>2, <3>1, <3>3, <3>4 DEF MessagesInv, OpenHands
  <2>9. Submittable'
    BY <1>2, <1>3, <2>2, StillSubmittable
  <2>10. AgentInv'
    BY <1>1, <1>2, <2>2, <2>6, <2>7, <2>8, <2>9, RunGoesOn
  <2> QED
    BY <1>4, <2>10
<1> QED
  BY <1>5, <1>6

\* The calls are made in order.
LEMMA AgentPlainCall ==
  ASSUME RuntimeInv, AgentInv, PlainCall
  PROVE  RuntimeInv' /\ AgentInv'
<1>1. /\ AgentType /\ PhaseInv /\ BatchInv /\ MessagesInv
      /\ todo \in Seq(CallId)
      /\ seen # "open" => obs # "open"
      /\ stopped => obs # "open"
      /\ failure \in LimitCodes => denied
  BY AgentParts
<1>2. /\ ~OpenHands /\ pc = "calling" /\ todo # <<>> /\ Submittable
      /\ rpc' = [kind |-> "step", call |-> Head(todo)] /\ pc' = "stepping"
      /\ WorkerStands /\ policy' = policy
      /\ UNCHANGED <<messages, exchange, todo, answer, seen, pending, stopped, failure,
                     finished>>
  BY AgentParts, RunStands DEF PlainCall, Request
<1>3. rpc'.kind = "step" /\ rpc'.call = Head(todo) /\ Head(todo) \in CallId
  BY <1>1, <1>2, TailView
<1>4. RuntimeInv'
  BY <1>2, <1>3, AgentAsks
<1>5. AgentType' /\ PhaseInv'
  BY <1>1, <1>2, <1>3 DEF AgentType, PhaseInv
<1>6. BatchInv'
  <2>1. LastGeneration' = LastGeneration /\ generated' = generated
    BY <1>2, Standing DEF WorkerStands
  <2>2. StandsFor(rpc.call, Head(todo))'
    BY <1>2, <1>3 DEF StandsFor, OpenHands
  <2>3. \A c \in Range(todo) : <<c, LastGeneration>> \in generated
    BY <1>1, <1>2 DEF BatchInv
  <2>4. Head(todo) \in Range(todo)
    BY <1>1, <1>2, TailView
  <2> QED
    BY <1>2, <1>3, <2>1, <2>2, <2>3, <2>4 DEF BatchInv, OpenHands
<1>7. MessagesInv'
  BY <1>1, <1>2, Standing DEF MessagesInv, OpenHands
<1>8. Submittable'
  BY <1>2, StillSubmittable
<1> QED
  BY <1>1, <1>2, <1>4, <1>5, <1>6, <1>7, <1>8, RunGoesOn

\* The elements after an append.
LEMMA AppendRange ==
  ASSUME NEW S, NEW s \in Seq(S), NEW e \in S
  PROVE  Append(s, e) \in Seq(S) /\ Range(Append(s, e)) = Range(s) \cup {e}
<1>1. PICK t : t = Append(s, e)
  OBVIOUS
<1>2. /\ t \in Seq(S) /\ DOMAIN t = DOMAIN s \cup {Len(s) + 1}
      /\ \A i \in DOMAIN s : t[i] = s[i]
      /\ t[Len(s) + 1] = e
  BY <1>1
<1>3. Range(t) = Range(s) \cup {e}
  BY <1>2 DEF Range
<1> QED
  BY <1>1, <1>2, <1>3

\* A message joins a history.
LEMMA MessageAdded ==
  ASSUME NEW ms \in Seq(Messages), NEW m \in Messages, NEW t, t = Append(ms, m)
  PROVE  t \in Seq(Messages) /\ Range(t) = Range(ms) \cup {m}
  BY AppendRange, Zenon

\* A tool message closes its call; it must repeat a recorded result or be of a
\* call that was not claimed.
LEMMA ToolMessageAdded ==
  ASSUME NEW ms \in Seq(Messages), NEW m \in Messages, m.role = "tool",
         NEW t, t = Append(ms, m), NEW open, NEW left, open \subseteq left \cup {m.call}
  PROVE  /\ t \in Seq(Messages)
         /\ Recorded(ms) /\ (\/ Unclaimed(m)
                             \/ \E j \in Events("tool_result") : Repeats(m, trace[j]))
            => Recorded(t)
         /\ Covered(ms, open) => Covered(t, left)
<1>1. t \in Seq(Messages) /\ Range(t) = Range(ms) \cup {m}
  BY MessageAdded
<1>2. Tools(t) = Tools(ms) \cup {m}
  BY <1>1 DEF Tools
<1>3. Range(t) \ Tools(t) \subseteq Range(ms) \ Tools(ms)
  BY <1>1, <1>2
<1>4. Recorded(ms) /\ (\/ Unclaimed(m)
                       \/ \E j \in Events("tool_result") : Repeats(m, trace[j]))
      => Recorded(t)
  BY <1>2, Zenon DEF Recorded
<1>5. {u.call : u \in Tools(t)} = {u.call : u \in Tools(ms)} \cup {m.call}
  BY <1>2
<1>6. ASSUME Covered(ms, open) PROVE Covered(t, left)
  <2> SUFFICES ASSUME NEW u \in Range(t) \ Tools(t)
               PROVE  Range(u.calls) \subseteq left \cup {v.call : v \in Tools(t)}
    BY DEF Covered
  <2>1. Range(u.calls) \subseteq open \cup {v.call : v \in Tools(ms)}
    BY <1>3, <1>6 DEF Covered
  <2> QED
    BY <1>5, <2>1
<1> QED
  BY <1>1, <1>4, <1>6

\* An assistant message opens its calls.
LEMMA AssistantAdded ==
  ASSUME NEW ms \in Seq(Messages), NEW m \in Messages, m.role = "assistant",
         NEW t, t = Append(ms, m)
  PROVE  /\ t \in Seq(Messages)
         /\ Recorded(ms) => Recorded(t)
         /\ Covered(ms, {}) => Covered(t, Range(m.calls))
<1>1. t \in Seq(Messages) /\ Range(t) = Range(ms) \cup {m}
  BY MessageAdded
<1>2. Tools(t) = Tools(ms)
  BY <1>1 DEF Tools
<1>3. Range(t) \ Tools(t) \subseteq (Range(ms) \ Tools(ms)) \cup {m}
  BY <1>1, <1>2
<1>4. Recorded(ms) => Recorded(t)
  BY <1>2 DEF Recorded
<1>5. ASSUME Covered(ms, {}) PROVE Covered(t, Range(m.calls))
  <2> SUFFICES ASSUME NEW u \in Range(t) \ Tools(t)
               PROVE  Range(u.calls) \subseteq
                        Range(m.calls) \cup {v.call : v \in Tools(ms)}
    BY <1>2 DEF Covered
  <2>1. CASE u = m
    BY <2>1
  <2>2. CASE u # m
    <3>1. Range(u.calls) \subseteq {} \cup {v.call : v \in Tools(ms)}
      BY <1>3, <1>5, <2>2 DEF Covered
    <3> QED
      BY <3>1
  <2> QED
    BY <2>1, <2>2
<1> QED
  BY <1>1, <1>4, <1>5

\* Two histories make one.
LEMMA HistoriesJoined ==
  ASSUME NEW s \in Seq(Messages), NEW t \in Seq(Messages),
         Recorded(s), Recorded(t), Covered(s, {}), Covered(t, {})
  PROVE  s \o t \in Seq(Messages) /\ Recorded(s \o t) /\ Covered(s \o t, {})
<1>1. PICK u : u = s \o t
  OBVIOUS
<1>2. u \in Seq(Messages) /\ Range(u) = Range(s) \cup Range(t)
  BY <1>1, ConcatRange
<1>3. Tools(u) = Tools(s) \cup Tools(t)
  BY <1>2 DEF Tools
<1>4. Recorded(u)
  BY <1>3 DEF Recorded
<1>5. Covered(u, {})
  <2> SUFFICES ASSUME NEW m \in Range(u) \ Tools(u)
               PROVE  Range(m.calls) \subseteq {v.call : v \in Tools(u)}
    BY DEF Covered
  <2>1. CASE m \in Range(s)
    BY <1>3, <2>1 DEF Covered
  <2>2. CASE m \in Range(t)
    BY <1>3, <2>2 DEF Covered
  <2> QED
    BY <1>2, <2>1, <2>2
<1> QED
  BY <1>1, <1>2, <1>4, <1>5

\* A result closes its call; the environment may have ended with it.
LEMMA AgentPlainResult ==
  ASSUME RuntimeInv, AgentInv, PlainResult
  PROVE  RuntimeInv' /\ AgentInv'
<1>1. /\ AgentType /\ PhaseInv /\ BatchInv /\ MessagesInv
      /\ messages \in Seq(Messages) /\ exchange \in Seq(Messages)
      /\ todo \in Seq(CallId) /\ pending \in Seq(CallId)
      /\ seen # "open" => obs # "open"
      /\ stopped => obs # "open"
      /\ failure \in LimitCodes => denied
  BY AgentParts
<1>2. /\ ~OpenHands /\ pc = "stepping" /\ rpc.kind = "result" /\ Submittable
      /\ rpc'.kind = "idle"
      /\ WorkerStands /\ policy' = policy
      /\ UNCHANGED <<messages, pending, stopped, failure, finished>>
  BY AgentParts, RunStands DEF PlainResult, Idle
<1>3. RuntimeInv'
  BY <1>2, AgentAsks
<1>4. CASE ContextRaises
  <2>1. pc' = "failed" /\ answer' = answer /\ UNCHANGED <<exchange, todo, seen>>
    BY <1>4 DEF PlainResult, Raise
  <2> QED
    BY <1>1, <1>2, <1>3, <2>1, RunEnds
<1>5. CASE ~ContextRaises
  <2>1. PICK m : m = ToolMessage(rpc.call, rpc.call, rpc.status)
    OBVIOUS
  <2>2. /\ seen' = rpc.obs /\ exchange' = Append(exchange, m) /\ todo' = Tail(todo)
    BY <1>5, <2>1 DEF PlainResult, TakeObservation
  <2>3. /\ rpc.call \in CallId /\ rpc.status \in ToolStatus
        /\ \E j \in Events("tool_result") :
             trace[j].call = rpc.call /\ trace[j].status = rpc.status
        /\ rpc.obs # "open" => obs # "open"
    BY <1>2, RuntimeParts DEF ReplyInv, RequestType
  <2>4. /\ m \in Messages /\ m.role = "tool" /\ m.call = rpc.call
        /\ m.of = rpc.call /\ m.status = rpc.status
    BY <2>1, <2>3 DEF ToolMessage, Messages
  <2>5. todo # <<>> /\ rpc.call = Head(todo)
    BY <1>1, <1>2 DEF BatchInv, StandsFor
  <2>10. \E j \in Events("tool_result") : Repeats(m, trace[j])
    BY <1>2, <2>3, <2>4 DEF Repeats, StandsFor
  <2>6. todo' \in Seq(CallId) /\ Range(todo) = Range(todo') \cup {m.call}
    BY <1>1, <2>2, <2>4, <2>5, TailView
  <2>7. /\ exchange' \in Seq(Messages)
        /\ Recorded(exchange) => Recorded(exchange')
        /\ Covered(exchange, Range(todo)) => Covered(exchange', Range(todo'))
    BY <1>1, <2>2, <2>4, <2>6, <2>10, ToolMessageAdded
  <2>8. CASE rpc.obs # "open"
    <3>1. pc' = "returned" /\ answer' = answer
      BY <1>5, <2>8 DEF PlainResult, Return
    <3>2. Submittable'
      BY <1>2, <3>1, StillSubmittable
    <3>3. AgentInv'
      BY <1>1, <1>2, <2>2, <2>3, <2>6, <2>7, <2>8, <3>1, <3>2, RunEnds
    <3> QED
      BY <1>3, <3>3
  <2>9. CASE ~(rpc.obs # "open")
    <3>1. pc' = "calling" /\ answer' = answer
      BY <1>5, <2>9 DEF PlainResult
    <3>2. AgentType' /\ PhaseInv'
      BY <1>1, <1>2, <2>6, <2>7, <3>1 DEF AgentType, PhaseInv
    <3>3. BatchInv'
      <4>1. LastGeneration' = LastGeneration /\ generated' = generated
        BY <1>2, Standing DEF WorkerStands
      <4> QED
        BY <1>1, <1>2, <2>6, <3>1, <4>1 DEF BatchInv, OpenHands
    <3>4. MessagesInv'
      <4>1. /\ Recorded(messages) /\ Covered(messages, {})
            /\ Recorded(exchange) /\ Covered(exchange, Range(todo))
        BY <1>1, <1>2 DEF MessagesInv
      <4>2. Recorded(messages)' /\ Covered(messages, {})'
        BY <1>2, <4>1, Standing
      <4>3. Recorded(exchange)' /\ Covered(exchange, Range(todo))'
        BY <1>2, <2>7, <4>1, Standing
      <4> QED
        BY <1>2, <4>2, <4>3 DEF MessagesInv, OpenHands
    <3>5. Submittable'
      BY <1>2, <3>1, StillSubmittable
    <3>6. AgentInv'
      BY <1>1, <1>2, <2>2, <2>3, <3>1, <3>2, <3>3, <3>4, <3>5, RunGoesOn
    <3> QED
      BY <1>3, <3>6
  <2> QED
    BY <2>8, <2>9
<1> QED
  BY <1>4, <1>5

\* The round joins the history once every call has its message.
LEMMA AgentPlainExchanged ==
  ASSUME RuntimeInv, AgentInv, PlainExchanged
  PROVE  RuntimeInv' /\ AgentInv'
<1>1. /\ AgentType /\ PhaseInv /\ MessagesInv
      /\ messages \in Seq(Messages) /\ exchange \in Seq(Messages)
      /\ seen # "open" => obs # "open"
      /\ stopped => obs # "open"
      /\ failure \in LimitCodes => denied
  BY AgentParts
<1>2. /\ ~OpenHands /\ pc = "calling" /\ todo = <<>> /\ Submittable
      /\ messages' = (IF policy = "last_generation" THEN <<>> ELSE messages) \o exchange
      /\ pc' = "loop"
      /\ WorkerStands /\ policy' = policy
      /\ UNCHANGED <<rpc, exchange, todo, answer, seen, pending, stopped, failure,
                     finished>>
  BY AgentParts, RunStands DEF PlainExchanged
<1>3. rpc.kind = "idle"
  BY <1>1, <1>2 DEF PhaseInv
<1>4. RuntimeInv'
  BY <1>2, <1>3, AgentAsks
<1>5. /\ Recorded(messages) /\ Covered(messages, {})
      /\ Recorded(exchange) /\ Covered(exchange, {})
  <2>1. Range(todo) = {}
    BY <1>2 DEF Range
  <2> QED
    BY <1>1, <1>2, <2>1 DEF MessagesInv
<1>6. PICK s : s = IF policy = "last_generation" THEN <<>> ELSE messages
  OBVIOUS
<1>7. s \in Seq(Messages) /\ Recorded(s) /\ Covered(s, {})
  <2>1. CASE s = messages
    BY <1>1, <1>5, <2>1
  <2>2. CASE s = <<>>
    <3>1. Range(s) = {}
      BY <2>2 DEF Range
    <3> QED
      BY <2>2, <3>1 DEF Recorded, Covered, Tools
  <2> QED
    BY <1>6, <2>1, <2>2
<1>8. messages' \in Seq(Messages) /\ Recorded(messages') /\ Covered(messages', {})
  <2>1. messages' = s \o exchange
    BY <1>2, <1>6
  <2>2. /\ s \o exchange \in Seq(Messages)
        /\ Recorded(s \o exchange) /\ Covered(s \o exchange, {})
    BY <1>1, <1>5, <1>7, HistoriesJoined
  <2> QED
    BY <2>1, <2>2
<1>9. AgentType' /\ PhaseInv' /\ BatchInv'
  BY <1>1, <1>2, <1>3, <1>8 DEF AgentType, PhaseInv, BatchInv
<1>10. MessagesInv'
  <2>1. Recorded(messages)' /\ Covered(messages, {})'
    BY <1>2, <1>8, Standing
  <2> QED
    BY <1>2, <2>1 DEF MessagesInv, OpenHands
<1>11. Submittable'
  BY <1>2, StillSubmittable
<1>12. AgentInv'
  BY <1>1, <1>2, <1>9, <1>10, <1>11, RunGoesOn
<1> QED
  BY <1>4, <1>12

\* A limit ends the interaction with the last answer, another error as an error.
LEMMA AgentPlainDenied ==
  ASSUME RuntimeInv, AgentInv, PlainDenied
  PROVE  RuntimeInv' /\ AgentInv'
<1>1. /\ AnswerInv
      /\ exchange \in Seq(Messages)
      /\ todo \in Seq(CallId) /\ pending \in Seq(CallId)
      /\ seen # "open" => obs # "open"
      /\ stopped => obs # "open"
      /\ failure \in LimitCodes => denied
  BY AgentParts
<1>2. /\ pc \in {"generating", "stepping"} /\ rpc.kind = "error"
      /\ rpc'.kind = "idle"
      /\ WorkerStands /\ policy' = policy
      /\ UNCHANGED <<messages, exchange, todo, seen, pending, stopped, failure, finished>>
  BY RunStands DEF PlainDenied, Idle
<1>3. RuntimeInv'
  BY <1>2, AgentAsks
<1>4. CASE rpc.code \in LimitCodes
  <2>1. pc' = "returned" /\ answer' = answer
    BY <1>4 DEF PlainDenied, Return
  <2>2. denied
    BY <1>2, <1>4, RuntimeParts DEF ReplyInv
  <2>3. Submittable
    BY <1>1, <1>2, <1>4 DEF AnswerInv
  <2>4. Submittable'
    BY <1>2, <2>1, <2>3, StillSubmittable
  <2> QED
    BY <1>1, <1>2, <1>3, <2>1, <2>2, <2>4, RunEnds
<1>5. CASE rpc.code \notin LimitCodes
  <2>1. pc' = "failed"
    BY <1>5 DEF PlainDenied, Raise
  <2> QED
    BY <1>1, <1>2, <1>3, <2>1, RunEnds
<1> QED
  BY <1>4, <1>5

-----------------------------------------------------------------------------
(* OpenHandsIntegration.                                                   *)

\* conversation.run leaves with an answer because it ended, was stopped or hit
\* a limit, else with an error.
LEMMA LeaveView ==
  ASSUME NEW how, NEW code, NEW a, Leave(how, code, a)
  PROVE  \/ /\ pc' = "returned" /\ answer' = a
            /\ how \in {"end", "stopped"} \/ code \in LimitCodes
         \/ pc' = "failed"
  BY Zenon DEF Leave, Return, Raise

\* A set of indices has a least element.
LEMMA LeastIndex ==
  ASSUME NEW T, T \subseteq Nat, T # {}
  PROVE  \E x \in T : \A y \in T : x <= y
<1>1. \E R : IsWellFoundedOn(R, Nat) /\ \A x, y \in Nat : x < y => <<x, y>> \in R
  <2>1. \A x, y \in Nat : x < y => <<x, y>> \in OpToRel(<, Nat)
    BY DEF OpToRel
  <2> QED BY <2>1, NatLessThanWellFounded
<1>2. PICK R : IsWellFoundedOn(R, Nat) /\ \A x, y \in Nat : x < y => <<x, y>> \in R
  BY <1>1
<1>3. PICK x \in T : \A y \in T : ~ (<<y, x>> \in R)
  <2>1. IsWellFoundedOn(R, Nat)
    BY <1>2
  <2> QED BY <2>1, WFMin
<1>4. \A y \in T : ~ (y < x)
  BY <1>2, <1>3
<1>5. \A y \in T : x <= y
  BY <1>4
<1> QED BY <1>5

\* Removing an element adds none.
LEMMA RemoveView ==
  ASSUME NEW S, NEW s \in Seq(S), NEW i \in 1 .. Len(s)
  PROVE  RemoveAt(s, i) \in Seq(S) /\ Range(RemoveAt(s, i)) \subseteq Range(s)
<1>1. PICK l, r : l = SubSeq(s, 1, i - 1) /\ r = SubSeq(s, i + 1, Len(s))
  OBVIOUS
<1>2. RemoveAt(s, i) = l \o r
  BY <1>1, Zenon DEF RemoveAt
<1>3. l \in Seq(S) /\ \A k \in DOMAIN l : k \in DOMAIN s /\ l[k] = s[k]
  BY <1>1
<1>4. r \in Seq(S) /\ \A k \in DOMAIN r : k + i \in DOMAIN s /\ r[k] = s[k + i]
  BY <1>1
<1>5. l \o r \in Seq(S) /\ Range(l \o r) = Range(l) \cup Range(r)
  BY <1>3, <1>4, ConcatRange
<1>6. Range(l) \subseteq Range(s)
  BY <1>3, Zenon DEF Range
<1>7. Range(r) \subseteq Range(s)
  BY <1>4, Zenon DEF Range
<1> QED
  BY <1>2, <1>5, <1>6, <1>7

\* claim gives out a pending call of that tool that was generated with those
\* arguments, if it gives out any.
LEMMA ClaimFinds ==
  ASSUME pending \in Seq(CallId), NEW name, NEW args,
         NEW i, i = Claim(name, args), i > 0
  PROVE  /\ i \in 1 .. Len(pending) /\ pending[i] \in Range(pending)
         /\ ToolOf[pending[i]] = name /\ ArgumentsOf[pending[i]] = args
<1>1. Len(pending) \in Nat /\ DOMAIN pending = 1 .. Len(pending)
  OBVIOUS
<1>2. PICK I : I = {k \in 1 .. Len(pending) :
                      ToolOf[pending[k]] = name /\ ArgumentsOf[pending[k]] = args}
  OBVIOUS
<1>3. i = IF I # {} THEN Min(I) ELSE 0
  BY <1>2, Zenon DEF Claim, SelectInSeq
<1>4. I # {} /\ i = Min(I)
  BY <1>3
<1>5. \A k \in I : k \in Nat
  BY <1>1, <1>2
<1>6. PICK k : k \in I /\ \A x \in I : k <= x
  <2>1. I \subseteq Nat /\ I # {}
    BY <1>4, <1>5
  <2> QED
    BY <2>1, LeastIndex
<1>7. Min(I) \in I
  BY <1>6, Zenon DEF Min
<1> QED
  BY <1>1, <1>2, <1>4, <1>7 DEF Range

\* completion asks with a recorded history only: after an error message the
\* failure is known, and it leaves.
LEMMA AgentComplete ==
  ASSUME RuntimeInv, AgentInv, Complete
  PROVE  RuntimeInv' /\ AgentInv'
<1>1. /\ AgentType /\ PhaseInv /\ MessagesInv
      /\ messages \in Seq(Messages) /\ exchange \in Seq(Messages)
      /\ todo \in Seq(CallId) /\ pending \in Seq(CallId)
      /\ seen # "open" => obs # "open"
      /\ stopped => obs # "open"
      /\ failure \in LimitCodes => denied
  BY AgentParts
<1>2. /\ OpenHands /\ pc = "loop" /\ Submittable
      /\ WorkerStands /\ policy' = policy
      /\ UNCHANGED <<messages, exchange, todo, seen, pending, stopped, failure, finished>>
  BY AgentParts, RunStands, Zenon DEF Complete
<1>3. rpc.kind = "idle"
  BY <1>1, <1>2 DEF PhaseInv
<1>4. \/ /\ rpc' = rpc
         /\ \/ pc' = "returned" /\ answer' = answer /\ (failure \in LimitCodes \/ stopped)
            \/ pc' = "failed"
      \/ /\ ~IsCode(failure) /\ answer' = answer /\ pc' = "generating"
         /\ rpc' = [kind |-> "generate", messages |-> messages]
  <2>1. \/ rpc' = rpc /\ Leave("error", failure, answer)
        \/ rpc' = rpc /\ stopped /\ Leave("stopped", failure, answer)
        \/ /\ ~IsCode(failure) /\ answer' = answer /\ pc' = "generating"
           /\ rpc' = [kind |-> "generate", messages |-> messages]
        \/ rpc' = rpc /\ Leave("error", "", answer)
    BY Zenon DEF Complete, Request, IsCode
  <2>2. "" \notin LimitCodes /\ "error" \notin {"end", "stopped"}
    BY Zenon DEF LimitCodes
  <2>3. Leave("error", "", answer) => pc' = "failed"
    BY <2>2, LeaveView, Zenon
  <2>4. Leave("error", failure, answer) =>
          \/ pc' = "returned" /\ answer' = answer /\ failure \in LimitCodes
          \/ pc' = "failed"
    BY <2>2, LeaveView, Zenon
  <2>5. Leave("stopped", failure, answer) =>
          (pc' = "returned" /\ answer' = answer) \/ pc' = "failed"
    BY LeaveView, Zenon
  <2> QED
    BY <2>1, <2>3, <2>4, <2>5, Zenon
<1>5. CASE /\ rpc' = rpc
           /\ \/ /\ pc' = "returned" /\ answer' = answer
                 /\ failure \in LimitCodes \/ stopped
              \/ pc' = "failed"
  <2>1. RuntimeInv'
    BY <1>2, <1>3, <1>5, AgentAsks
  <2>2. answer' = answer => Submittable'
    BY <1>2, StillSubmittable
  <2>3. AgentInv'
    BY <1>1, <1>2, <1>3, <1>5, <2>2, RunEnds
  <2> QED
    BY <2>1, <2>3
<1>6. CASE /\ ~IsCode(failure) /\ answer' = answer /\ pc' = "generating"
           /\ rpc' = [kind |-> "generate", messages |-> messages]
  <2>1. rpc'.kind = "generate" /\ rpc'.messages = messages
    BY <1>6
  <2>2. Recorded(messages) /\ Covered(messages, {})
    BY <1>1, <1>2, <1>6 DEF MessagesInv
  <2>3. RuntimeInv'
    BY <1>1, <1>2, <2>1, <2>2, AgentAsks
  <2>4. AgentType' /\ PhaseInv' /\ BatchInv'
    BY <1>1, <1>2, <1>6, <2>1 DEF AgentType, PhaseInv, BatchInv
  <2>5. MessagesInv'
    <3>1. Recorded(messages)' /\ Covered(messages, {})'
      BY <1>2, <2>2, Standing
    <3> QED
      BY <1>2, <1>6, <3>1 DEF MessagesInv, OpenHands
  <2>6. Submittable'
    BY <1>2, <1>6, StillSubmittable
  <2>7. AgentInv'
    BY <1>1, <1>2, <1>6, <2>4, <2>5, <2>6, RunGoesOn
  <2> QED
    BY <2>3, <2>7
<1> QED
  BY <1>4, <1>5, <1>6

\* A generation becomes the answer; its calls open a batch.
LEMMA AgentCompletionReturns ==
  ASSUME RuntimeInv, AgentInv, CompletionReturns
  PROVE  RuntimeInv' /\ AgentInv'
<1>1. /\ AgentType /\ MessagesInv
      /\ messages \in Seq(Messages) /\ exchange \in Seq(Messages)
      /\ todo \in Seq(CallId) /\ pending \in Seq(CallId)
      /\ seen # "open" => obs # "open"
      /\ stopped => obs # "open"
      /\ failure \in LimitCodes => denied
  BY AgentParts
<1>2. /\ OpenHands /\ pc = "generating" /\ rpc.kind = "generation"
      /\ rpc'.kind = "idle" /\ pending' = rpc.calls
      /\ WorkerStands /\ policy' = policy
      /\ UNCHANGED <<exchange, seen, stopped, failure, finished>>
  BY RunStands DEF CompletionReturns, Idle
<1>3. /\ rpc.gen = LastGeneration /\ rpc.gen \in Nat
      /\ rpc.finish \in Finishes /\ rpc.calls \in Seq(CallId)
      /\ rpc.finish = "stop" => Stops(rpc.gen)
      /\ rpc.finish = "length" => limited
      /\ \A c \in Range(rpc.calls) : <<c, rpc.gen>> \in generated
  BY <1>2, RuntimeParts DEF ReplyInv, RequestType
<1>4. RuntimeInv'
  BY <1>2, AgentAsks
<1>5. CASE rpc.finish # "tool_calls"
  <2>1. /\ UNCHANGED <<todo, messages>>
        /\ Leave(IF rpc.finish = "length" THEN "stopped" ELSE "end", failure, rpc.gen)
    BY <1>5, Zenon DEF CompletionReturns
  <2>2. (pc' = "returned" /\ answer' = rpc.gen) \/ pc' = "failed"
    BY <2>1, LeaveView, Zenon
  <2>3. answer' = rpc.gen => Submittable'
    BY <1>2, <1>3, StillSubmittable
  <2>4. limited \/ Stops(LastGeneration)
    BY <1>3, <1>5 DEF Finishes
  <2>5. AgentInv'
    BY <1>1, <1>2, <1>3, <2>1, <2>2, <2>3, <2>4, RunEnds
  <2> QED
    BY <1>4, <2>5
<1>6. CASE ~(rpc.finish # "tool_calls")
  <2>1. PICK m : m = Assistant(rpc.gen, rpc.calls)
    OBVIOUS
  <2>2. /\ pc' = "calling" /\ answer' = rpc.gen /\ todo' = rpc.calls
        /\ messages' = Append(messages, m)
    BY <1>6, <2>1, Zenon DEF CompletionReturns
  <2>3. m \in Messages /\ m.role = "assistant" /\ m.calls = rpc.calls
    BY <1>3, <2>1 DEF Assistant, Messages
  <2>4. /\ messages' \in Seq(Messages)
        /\ Recorded(messages) => Recorded(messages')
        /\ Covered(messages, {}) => Covered(messages', Range(m.calls))
    BY <1>1, <2>2, <2>3, AssistantAdded
  <2>5. LastGeneration' = LastGeneration /\ generated' = generated
    BY <1>2, Standing DEF WorkerStands
  <2>6. AgentType' /\ PhaseInv'
    BY <1>1, <1>2, <1>3, <2>2, <2>4 DEF AgentType, PhaseInv
  <2>7. BatchInv'
    BY <1>2, <1>3, <2>2, <2>5 DEF BatchInv, OpenHands
  <2>8. MessagesInv'
    <3>1. ~IsCode(failure) => Recorded(messages)'
      BY <1>1, <1>2, <2>4, Standing DEF MessagesInv
    <3>2. Covered(messages, Range(todo))'
      BY <1>1, <1>2, <2>2, <2>3, <2>4 DEF MessagesInv
    <3> QED
      BY <1>2, <2>2, <3>1, <3>2 DEF MessagesInv, OpenHands
  <2>9. Submittable'
    BY <1>2, <1>3, <2>2, StillSubmittable
  <2>10. AgentInv'
    BY <1>1, <1>2, <2>2, <2>6, <2>7, <2>8, <2>9, RunGoesOn
  <2> QED
    BY <1>4, <2>10
<1> QED
  BY <1>5, <1>6

\* A refused generation is kept as the failure; a limit leaves with the answer.
LEMMA AgentCompletionDenied ==
  ASSUME RuntimeInv, AgentInv, CompletionDenied
  PROVE  RuntimeInv' /\ AgentInv'
<1>1. /\ AnswerInv
      /\ exchange \in Seq(Messages)
      /\ todo \in Seq(CallId) /\ pending \in Seq(CallId)
      /\ seen # "open" => obs # "open"
      /\ stopped => obs # "open"
  BY AgentParts
<1>2. /\ pc = "generating" /\ rpc.kind = "error"
      /\ rpc'.kind = "idle" /\ failure' = rpc.code
      /\ Leave("error", rpc.code, answer)
      /\ WorkerStands /\ policy' = policy
      /\ UNCHANGED <<messages, exchange, todo, seen, pending, stopped, finished>>
  BY RunStands DEF CompletionDenied, Idle
<1>3. RuntimeInv'
  BY <1>2, AgentAsks
<1>4. IsCode(rpc.code) /\ (rpc.code \in LimitCodes => denied)
  BY <1>2, RuntimeParts DEF ReplyInv
<1>5. \/ pc' = "returned" /\ answer' = answer /\ rpc.code \in LimitCodes
      \/ pc' = "failed"
  <2>1. "error" \notin {"end", "stopped"}
    OBVIOUS
  <2> QED
    BY <1>2, <2>1, LeaveView, Zenon
<1>6. rpc.code \in LimitCodes /\ answer' = answer => Submittable'
  <2>1. rpc.code \in LimitCodes => Submittable
    BY <1>1, <1>2 DEF AnswerInv
  <2> QED
    BY <1>2, <2>1, StillSubmittable
<1>7. AgentInv'
  BY <1>1, <1>2, <1>4, <1>5, <1>6, RunEnds
<1> QED
  BY <1>3, <1>7

\* The call that claim gives out was generated with the arguments of the one
\* being run.
LEMMA AgentCallTool ==
  ASSUME RuntimeInv, AgentInv, CallTool
  PROVE  RuntimeInv' /\ AgentInv'
<1>1. /\ AgentType /\ PhaseInv /\ BatchInv /\ MessagesInv
      /\ todo \in Seq(CallId) /\ pending \in Seq(CallId)
      /\ seen # "open" => obs # "open"
      /\ stopped => obs # "open"
      /\ failure \in LimitCodes => denied
  BY AgentParts
<1>2. PICK args, i :
        /\ args \in PassedAs[Head(todo)] /\ i = Claim(ToolOf[Head(todo)], args) /\ i > 0
        /\ rpc' = [kind |-> "step", call |-> pending[i]]
        /\ pending' = RemoveAt(pending, i)
  BY DEF CallTool, Request
<1>3. /\ OpenHands /\ pc = "calling" /\ todo # <<>> /\ Submittable /\ pc' = "stepping"
      /\ WorkerStands /\ policy' = policy
      /\ UNCHANGED <<messages, exchange, todo, answer, seen, stopped, failure, finished>>
  BY AgentParts, RunStands DEF CallTool
<1>4. /\ i \in 1 .. Len(pending) /\ pending[i] \in Range(pending)
      /\ ToolOf[pending[i]] = ToolOf[Head(todo)] /\ ArgumentsOf[pending[i]] = args
  BY <1>1, <1>2, ClaimFinds
<1>5. /\ pending[i] \in CallId
      /\ pending' \in Seq(CallId) /\ Range(pending') \subseteq Range(pending)
  BY <1>1, <1>2, <1>4, RemoveView
<1>6. rpc'.kind = "step" /\ rpc'.call = pending[i]
  BY <1>2
<1>7. StandsFor(rpc'.call, Head(todo))
  BY <1>2, <1>3, <1>4, <1>6 DEF StandsFor
<1>8. RuntimeInv'
  BY <1>3, <1>5, <1>6, AgentAsks
<1>9. AgentType' /\ PhaseInv'
  BY <1>1, <1>3, <1>5, <1>6 DEF AgentType, PhaseInv
<1>10. BatchInv'
  <2>1. LastGeneration' = LastGeneration /\ generated' = generated
    BY <1>3, Standing DEF WorkerStands
  <2>2. /\ \A c \in Range(todo) : <<c, LastGeneration>> \in generated
        /\ \A c \in Range(pending) : <<c, LastGeneration>> \in generated
    BY <1>1, <1>3 DEF BatchInv
  <2>3. StandsFor(rpc.call, Head(todo))'
    BY <1>3, <1>7 DEF StandsFor, OpenHands
  <2> QED
    BY <1>3, <1>4, <1>5, <1>6, <2>1, <2>2, <2>3 DEF BatchInv
<1>11. MessagesInv'
  BY <1>1, <1>3, Standing DEF MessagesInv, OpenHands
<1>12. Submittable'
  BY <1>3, StillSubmittable
<1> QED
  BY <1>1, <1>3, <1>8, <1>9, <1>10, <1>11, <1>12, RunGoesOn

\* The error of a call that was not claimed closes it without a failure: it is
\* the one message that repeats nothing.  A native one ends run().
LEMMA AgentClaimFails ==
  ASSUME RuntimeInv, AgentInv, ClaimFails
  PROVE  RuntimeInv' /\ AgentInv'
<1>1. /\ AgentType /\ PhaseInv /\ BatchInv /\ MessagesInv
      /\ messages \in Seq(Messages) /\ exchange \in Seq(Messages)
      /\ todo \in Seq(CallId) /\ pending \in Seq(CallId)
      /\ seen # "open" => obs # "open"
      /\ stopped => obs # "open"
      /\ failure \in LimitCodes => denied
  BY AgentParts
<1>2. /\ OpenHands /\ pc = "calling" /\ todo # <<>> /\ Submittable /\ rpc' = rpc
      /\ \/ Leave("error", failure, answer) /\ UNCHANGED <<messages, todo>>
         \/ /\ ToolOf[Head(todo)] \notin NativeTools
            /\ messages' = Append(messages, McpError(Head(todo), "unclaimed"))
            /\ todo' = Tail(todo) /\ pc' = pc /\ answer' = answer
      /\ WorkerStands /\ policy' = policy
      /\ UNCHANGED <<exchange, seen, pending, stopped, failure, finished>>
  <2>1. /\ OpenHands /\ pc = "calling" /\ todo # <<>> /\ InRun /\ rpc' = rpc
        /\ \/ Leave("error", failure, answer) /\ UNCHANGED <<messages, todo>>
           \/ /\ ToolOf[Head(todo)] \notin NativeTools
              /\ messages' = Append(messages, McpError(Head(todo), "unclaimed"))
              /\ todo' = Tail(todo) /\ pc' = pc /\ answer' = answer
        /\ UNCHANGED <<exchange, seen, pending, stopped, failure, finished>>
    BY DEF ClaimFails, NativeCall
  <2> QED
    BY <2>1, AgentParts, RunStands
<1>3. rpc.kind = "idle"
  BY <1>1, <1>2 DEF PhaseInv
<1>4. RuntimeInv'
  BY <1>2, <1>3, AgentAsks
<1>5. answer' = answer => Submittable'
  BY <1>2, StillSubmittable
<1>6. CASE Leave("error", failure, answer) /\ UNCHANGED <<messages, todo>>
  <2>1. "error" \notin {"end", "stopped"}
    OBVIOUS
  <2>2. \/ pc' = "returned" /\ answer' = answer /\ failure \in LimitCodes
        \/ pc' = "failed"
    BY <1>6, <2>1, LeaveView, Zenon
  <2>3. AgentInv'
    BY <1>1, <1>2, <1>3, <1>5, <1>6, <2>2, RunEnds
  <2> QED
    BY <1>4, <2>3
<1>7. CASE /\ ToolOf[Head(todo)] \notin NativeTools
           /\ messages' = Append(messages, McpError(Head(todo), "unclaimed"))
           /\ todo' = Tail(todo) /\ pc' = pc /\ answer' = answer
  <2>1. PICK m : m = McpError(Head(todo), "unclaimed")
    OBVIOUS
  <2>2. Head(todo) \in CallId
    BY <1>1, <1>2, TailView
  <2>3. /\ m \in Messages /\ m.role = "tool" /\ m.call = Head(todo)
        /\ m.status = "unclaimed"
    BY <2>1, <2>2 DEF McpError, ToolMessage, Messages
  <2>4. Unclaimed(m)
    BY <1>2, <1>7, <2>3 DEF Unclaimed
  <2>5. todo' \in Seq(CallId) /\ Range(todo) = Range(todo') \cup {m.call}
    BY <1>1, <1>2, <1>7, <2>3, TailView
  <2>6. messages' = Append(messages, m)
    BY <1>7, <2>1
  <2>7. /\ messages' \in Seq(Messages)
        /\ Recorded(messages) => Recorded(messages')
        /\ Covered(messages, Range(todo)) => Covered(messages', Range(todo'))
    BY <1>1, <2>3, <2>4, <2>5, <2>6, ToolMessageAdded
  <2>8. AgentType' /\ PhaseInv'
    BY <1>1, <1>2, <1>3, <1>7, <2>5, <2>7 DEF AgentType, PhaseInv
  <2>9. BatchInv'
    <3>1. LastGeneration' = LastGeneration /\ generated' = generated
      BY <1>2, Standing DEF WorkerStands
    <3>2. /\ \A c \in Range(todo) : <<c, LastGeneration>> \in generated
          /\ \A c \in Range(pending) : <<c, LastGeneration>> \in generated
      BY <1>1, <1>2 DEF BatchInv
    <3> QED
      BY <1>2, <1>7, <2>5, <3>1, <3>2 DEF BatchInv
  <2>10. MessagesInv'
    <3>1. ~IsCode(failure) => Recorded(messages)'
      BY <1>1, <1>2, <2>7, Standing DEF MessagesInv
    <3>2. Covered(messages, Range(todo))'
      BY <1>1, <1>2, <2>7 DEF MessagesInv
    <3> QED
      BY <1>2, <1>7, <3>1, <3>2 DEF MessagesInv, OpenHands
  <2>11. AgentInv'
    BY <1>1, <1>2, <1>5, <1>7, <2>8, <2>9, <2>10, RunGoesOn
  <2> QED
    BY <1>4, <2>11
<1> QED
  BY <1>2, <1>6, <1>7

\* An observation closes its call; that of a finish call gives the answer.
LEMMA AgentStepReturns ==
  ASSUME RuntimeInv, AgentInv, StepReturns
  PROVE  RuntimeInv' /\ AgentInv'
<1>1. /\ AgentType /\ BatchInv /\ MessagesInv
      /\ messages \in Seq(Messages) /\ exchange \in Seq(Messages)
      /\ todo \in Seq(CallId) /\ pending \in Seq(CallId)
      /\ stopped => obs # "open"
      /\ failure \in LimitCodes => denied
  BY AgentParts
<1>2. /\ OpenHands /\ pc = "stepping" /\ rpc.kind = "result" /\ Submittable
      /\ rpc'.kind = "idle" /\ seen' = rpc.obs
      /\ stopped' = (stopped \/ rpc.obs # "open")
      /\ WorkerStands /\ policy' = policy
      /\ UNCHANGED <<exchange, pending, failure>>
  BY AgentParts, RunStands DEF StepReturns, Idle, TakeObservation
<1>3. /\ rpc.call \in CallId /\ rpc.status \in ToolStatus
      /\ \E j \in Events("tool_result") :
           trace[j].call = rpc.call /\ trace[j].status = rpc.status
      /\ rpc.obs # "open" => obs # "open"
  BY <1>2, RuntimeParts DEF ReplyInv, RequestType
<1>4. RuntimeInv'
  BY <1>2, AgentAsks
<1>5. /\ todo # <<>> /\ StandsFor(rpc.call, Head(todo))
      /\ <<rpc.call, LastGeneration>> \in generated
      /\ \A c \in Range(todo) : <<c, LastGeneration>> \in generated
      /\ \A c \in Range(pending) : <<c, LastGeneration>> \in generated
  BY <1>1, <1>2 DEF BatchInv
<1>6. stopped' => obs # "open"
  BY <1>1, <1>2, <1>3
<1>7. \/ /\ messages' = Append(messages, ToolMessage(Head(todo), rpc.call, rpc.status))
         /\ todo' = Tail(todo) /\ pc' = "calling"
         /\ answer' = IF ToolOf[Head(todo)] = FinishTool THEN rpc.call ELSE answer
      \/ Leave("error", failure, answer) /\ UNCHANGED <<messages, todo, finished>>
  BY DEF StepReturns
<1>8. CASE /\ messages' = Append(messages, ToolMessage(Head(todo), rpc.call, rpc.status))
           /\ todo' = Tail(todo) /\ pc' = "calling"
           /\ answer' = IF ToolOf[Head(todo)] = FinishTool THEN rpc.call ELSE answer
  <2>1. PICK m : m = ToolMessage(Head(todo), rpc.call, rpc.status)
    OBVIOUS
  <2>11. Head(todo) \in CallId
    BY <1>1, <1>5, TailView
  <2>2. /\ m \in Messages /\ m.role = "tool" /\ m.call = Head(todo)
        /\ m.of = rpc.call /\ m.status = rpc.status
    BY <1>3, <2>1, <2>11 DEF ToolMessage, Messages
  <2>12. \E j \in Events("tool_result") : Repeats(m, trace[j])
    BY <1>3, <1>5, <2>2 DEF Repeats
  <2>3. todo' \in Seq(CallId) /\ Range(todo) = Range(todo') \cup {m.call}
    BY <1>1, <1>5, <1>8, <2>2, TailView
  <2>4. messages' = Append(messages, m)
    BY <1>8, <2>1
  <2>5. /\ messages' \in Seq(Messages)
        /\ Recorded(messages) => Recorded(messages')
        /\ Covered(messages, Range(todo)) => Covered(messages', Range(todo'))
    BY <1>1, <2>2, <2>3, <2>4, <2>12, ToolMessageAdded
  <2>6. AgentType' /\ PhaseInv'
    BY <1>1, <1>2, <1>8, <2>3, <2>5 DEF AgentType, PhaseInv
  <2>7. BatchInv'
    <3>1. LastGeneration' = LastGeneration /\ generated' = generated
      BY <1>2, Standing DEF WorkerStands
    <3> QED
      BY <1>2, <1>5, <1>8, <2>3, <3>1 DEF BatchInv, OpenHands
  <2>8. MessagesInv'
    <3>1. ~IsCode(failure) => Recorded(messages)'
      BY <1>1, <1>2, <2>5, Standing DEF MessagesInv
    <3>2. Covered(messages, Range(todo))'
      BY <1>1, <1>2, <2>5 DEF MessagesInv
    <3> QED
      BY <1>2, <1>8, <3>1, <3>2 DEF MessagesInv, OpenHands
  <2>9. Submittable'
    <3>1. HasResult(rpc.call) /\ <<rpc.call, LastGeneration>> \in generated
      BY <1>3, <1>5 DEF HasResult
    <3> QED
      BY <1>2, <1>8, <3>1, StillSubmittable
  <2>10. AgentInv'
    BY <1>1, <1>2, <1>3, <1>6, <1>8, <2>6, <2>7, <2>8, <2>9, RunGoesOn
  <2> QED
    BY <1>4, <2>10
<1>9. CASE Leave("error", failure, answer) /\ UNCHANGED <<messages, todo, finished>>
  <2>1. "error" \notin {"end", "stopped"}
    OBVIOUS
  <2>2. \/ pc' = "returned" /\ answer' = answer /\ failure \in LimitCodes
        \/ pc' = "failed"
    BY <1>9, <2>1, LeaveView, Zenon
  <2>3. answer' = answer => Submittable'
    BY <1>2, StillSubmittable
  <2>4. AgentInv'
    BY <1>1, <1>2, <1>3, <1>6, <1>9, <2>2, <2>3, RunEnds
  <2> QED
    BY <1>4, <2>4
<1> QED
  BY <1>7, <1>8, <1>9

\* A step that raised is kept as the failure; the error message of an MCP call
\* closes its call.
LEMMA AgentStepRaises ==
  ASSUME RuntimeInv, AgentInv, StepRaises
  PROVE  RuntimeInv' /\ AgentInv'
<1>1. /\ AgentType /\ BatchInv /\ MessagesInv
      /\ messages \in Seq(Messages) /\ exchange \in Seq(Messages)
      /\ todo \in Seq(CallId) /\ pending \in Seq(CallId)
      /\ seen # "open" => obs # "open"
      /\ stopped => obs # "open"
  BY AgentParts
<1>2. PICK code : code = IF rpc.kind = "error" THEN rpc.code ELSE "TOOL_CANCELLED"
  OBVIOUS
<1>3. /\ OpenHands /\ pc = "stepping" /\ Submittable
      /\ rpc'.kind = "idle" /\ failure' = code
      /\ \/ Leave("error", code, answer) /\ UNCHANGED <<messages, todo>>
         \/ /\ messages' = Append(messages, McpError(Head(todo), "unrecorded"))
            /\ todo' = Tail(todo) /\ pc' = "calling" /\ answer' = answer
      /\ WorkerStands /\ policy' = policy
      /\ UNCHANGED <<exchange, seen, pending, stopped, finished>>
  <2>1. /\ OpenHands /\ pc = "stepping" /\ InRun /\ rpc' = Idle /\ failure' = code
        /\ \/ Leave("error", code, answer) /\ UNCHANGED <<messages, todo>>
           \/ /\ messages' = Append(messages, McpError(Head(todo), "unrecorded"))
              /\ todo' = Tail(todo) /\ pc' = "calling" /\ answer' = answer
        /\ UNCHANGED <<exchange, seen, pending, stopped, finished>>
    BY <1>2 DEF StepRaises
  <2> QED
    BY <2>1, AgentParts, RunStands DEF Idle
<1>4. IsCode(code) /\ (code \in LimitCodes => denied)
  <2>1. CASE rpc.kind = "error"
    BY <1>2, <2>1, RuntimeParts DEF ReplyInv
  <2>2. CASE rpc.kind # "error"
    BY <1>2, <2>2, Zenon DEF IsCode, LimitCodes
  <2> QED
    BY <2>1, <2>2
<1>5. RuntimeInv'
  BY <1>3, AgentAsks
<1>6. /\ todo # <<>>
      /\ \A c \in Range(todo) : <<c, LastGeneration>> \in generated
      /\ \A c \in Range(pending) : <<c, LastGeneration>> \in generated
  BY <1>1, <1>3 DEF BatchInv
<1>7. CASE Leave("error", code, answer) /\ UNCHANGED <<messages, todo>>
  <2>1. "error" \notin {"end", "stopped"}
    OBVIOUS
  <2>2. \/ pc' = "returned" /\ answer' = answer /\ code \in LimitCodes
        \/ pc' = "failed"
    BY <1>7, <2>1, LeaveView, Zenon
  <2>3. answer' = answer => Submittable'
    BY <1>3, StillSubmittable
  <2>4. AgentInv'
    BY <1>1, <1>3, <1>4, <1>7, <2>2, <2>3, RunEnds
  <2> QED
    BY <1>5, <2>4
<1>8. CASE /\ messages' = Append(messages, McpError(Head(todo), "unrecorded"))
           /\ todo' = Tail(todo) /\ pc' = "calling" /\ answer' = answer
  <2>1. PICK m : m = McpError(Head(todo), "unrecorded")
    OBVIOUS
  <2>2. Head(todo) \in CallId
    BY <1>1, <1>6, TailView
  <2>3. m \in Messages /\ m.role = "tool" /\ m.call = Head(todo)
    BY <2>1, <2>2 DEF McpError, ToolMessage, Messages
  <2>4. todo' \in Seq(CallId) /\ Range(todo) = Range(todo') \cup {m.call}
    BY <1>1, <1>6, <1>8, <2>3, TailView
  <2>5. messages' = Append(messages, m)
    BY <1>8, <2>1
  <2>6. /\ messages' \in Seq(Messages)
        /\ Covered(messages, Range(todo)) => Covered(messages', Range(todo'))
    BY <1>1, <2>3, <2>4, <2>5, ToolMessageAdded
  <2>7. AgentType' /\ PhaseInv'
    BY <1>1, <1>3, <1>8, <2>4, <2>6 DEF AgentType, PhaseInv
  <2>8. BatchInv'
    <3>1. LastGeneration' = LastGeneration /\ generated' = generated
      BY <1>3, Standing DEF WorkerStands
    <3> QED
      BY <1>3, <1>6, <1>8, <2>4, <3>1 DEF BatchInv, OpenHands
  <2>9. MessagesInv'
    <3>1. Covered(messages, Range(todo))'
      BY <1>1, <1>3, <2>6 DEF MessagesInv
    <3> QED
      BY <1>3, <1>4, <1>8, <3>1 DEF MessagesInv, OpenHands
  <2>10. Submittable'
    BY <1>3, <1>8, StillSubmittable
  <2>11. AgentInv'
    BY <1>1, <1>3, <1>4, <1>8, <2>7, <2>8, <2>9, <2>10, RunGoesOn
  <2> QED
    BY <1>5, <2>11
<1> QED
  BY <1>3, <1>7, <1>8

\* After a batch the conversation goes on, or ends because it has finished.
LEMMA AgentBatchEnds ==
  ASSUME RuntimeInv, AgentInv, BatchEnds
  PROVE  RuntimeInv' /\ AgentInv'
<1>1. /\ AgentType /\ PhaseInv /\ MessagesInv
      /\ messages \in Seq(Messages) /\ exchange \in Seq(Messages)
      /\ todo \in Seq(CallId) /\ pending \in Seq(CallId)
      /\ seen # "open" => obs # "open"
      /\ stopped => obs # "open"
      /\ failure \in LimitCodes => denied
  BY AgentParts
<1>2. /\ OpenHands /\ pc = "calling" /\ todo = <<>> /\ Submittable
      /\ WorkerStands /\ policy' = policy
      /\ UNCHANGED <<rpc, messages, exchange, todo, seen, pending, stopped, failure,
                     finished>>
  BY AgentParts, RunStands DEF BatchEnds
<1>3. rpc.kind = "idle"
  BY <1>1, <1>2 DEF PhaseInv
<1>4. RuntimeInv'
  BY <1>2, <1>3, AgentAsks
<1>5. answer' = answer => Submittable'
  BY <1>2, StillSubmittable
<1>6. CASE finished
  <2>1. Leave("end", failure, answer)
    BY <1>6 DEF BatchEnds
  <2>2. (pc' = "returned" /\ answer' = answer) \/ pc' = "failed"
    BY <2>1, LeaveView, Zenon
  <2>3. AgentInv'
    BY <1>1, <1>2, <1>3, <1>5, <1>6, <2>2, RunEnds
  <2> QED
    BY <1>4, <2>3
<1>7. CASE ~finished
  <2>1. pc' = "loop" /\ answer' = answer
    BY <1>7 DEF BatchEnds
  <2>2. AgentType' /\ PhaseInv' /\ BatchInv'
    BY <1>1, <1>2, <1>3, <2>1 DEF AgentType, PhaseInv, BatchInv
  <2>3. MessagesInv'
    <3>1. Range(todo) = {}
      BY <1>2 DEF Range
    <3>2. Covered(messages, {})'
      BY <1>1, <1>2, <3>1 DEF MessagesInv
    <3>3. ~IsCode(failure) => Recorded(messages)'
      BY <1>1, <1>2, Standing DEF MessagesInv
    <3> QED
      BY <1>2, <2>1, <3>2, <3>3 DEF MessagesInv, OpenHands
  <2>4. AgentInv'
    BY <1>1, <1>2, <1>5, <2>1, <2>2, <2>3, RunGoesOn
  <2> QED
    BY <1>4, <2>4
<1> QED
  BY <1>6, <1>7

\* A step of either agent.
LEMMA AgentSteps ==
  ASSUME RuntimeInv, AgentInv, AgentStep
  PROVE  RuntimeInv' /\ AgentInv'
  BY AgentPlainGenerate, AgentPlainGeneration, AgentPlainCall, AgentPlainResult,
     AgentPlainExchanged, AgentPlainDenied, AgentComplete, AgentCompletionReturns,
     AgentCompletionDenied, AgentCallTool, AgentClaimFails, AgentStepReturns,
     AgentStepRaises, AgentBatchEnds DEF AgentStep

-----------------------------------------------------------------------------
(***************************************************************************)
(* The host, the clock, and the theorems.                                  *)
(***************************************************************************)

\* A step that touches neither the Worker's records nor the agent.
LEMMA NothingMoves ==
  ASSUME RuntimeInv, AgentInv,
         UNCHANGED <<usage, generated, obs, denied, limited, trace, complete, rpc, policy,
                     agentVars>>
  PROVE  RuntimeInv' /\ AgentInv'
<1>1. /\ RuntimeType /\ EndInv /\ AccountInv /\ LatestInv /\ ReplyInv /\ HistoryIsRecorded
      /\ AgentType /\ PhaseInv /\ BatchInv /\ AnswerInv /\ ReasonInv /\ MessagesInv
  BY DEF RuntimeInv, AgentInv
<1>2. WorkerStands
  BY DEF WorkerStands
<1>3. UNCHANGED <<pc, messages, exchange, todo, answer, seen, pending, stopped, failure,
                  finished>>
  BY DEF agentVars
<1>4. /\ LastGeneration' = LastGeneration
      /\ \A k : Events(k)' = Events(k)
      /\ \A ms : Recorded(ms)' <=> Recorded(ms)
      /\ \A c : HasResult(c)' <=> HasResult(c)
      /\ \A g : Stops(g)' <=> Stops(g)
  BY <1>2, Standing
<1>5. /\ \A N, open : Accounts(N, open) => Accounts(N, open)'
      /\ LatestInv' /\ HistoryIsRecorded' /\ Ended'
  BY <1>1, TraceKept DEF EndInv, Ended
<1>6. RuntimeType'
  BY <1>1 DEF RuntimeType, RequestType
<1>7. EndInv'
  BY <1>1, <1>5 DEF EndInv, Ended
<1>8. AccountInv'
  <2>1. PICK N : N = usage.generations
    OBVIOUS
  <2>2. PICK M : M = usage.generations - 1
    OBVIOUS
  <2>3. PICK S : S = {rpc.call}
    OBVIOUS
  <2>4. /\ rpc.kind \in {"model", "tool"} => ~complete
        /\ complete => Accounts(N, {})'
        /\ rpc.kind = "model" /\ rpc.complete => N > 0 /\ Accounts(M, {})'
        /\ rpc.kind = "tool" /\ rpc.complete => Accounts(N, S)'
    BY <1>1, <1>5, <2>1, <2>2, <2>3 DEF AccountInv
  <2> QED
    BY <2>1, <2>2, <2>3, <2>4 DEF AccountInv
<1>9. ReplyInv'
  BY <1>1, <1>4 DEF ReplyInv
<1>10. AgentType' /\ PhaseInv'
  BY <1>1, <1>3 DEF AgentType, PhaseInv
<1>11. BatchInv'
  BY <1>1, <1>3, <1>4 DEF BatchInv, StandsFor, OpenHands
<1>12. AnswerInv'
  <2>1. Submittable => Submittable'
    BY <1>2, <1>3, StillSubmittable
  <2> QED
    BY <1>1, <1>3, <2>1 DEF AnswerInv
<1>13. ReasonInv'
  BY <1>1, <1>3, <1>4 DEF ReasonInv
<1>14. MessagesInv'
  BY <1>1, <1>3, <1>4 DEF MessagesInv, OpenHands
<1> QED
  BY <1>5, <1>6, <1>7, <1>8, <1>9, <1>10, <1>11, <1>12, <1>13, <1>14
     DEF RuntimeInv, AgentInv

\* agent.run begins, or returns at once because the environment has ended.
LEMMA AgentRunAgent ==
  ASSUME RuntimeInv, AgentInv, RunAgent
  PROVE  RuntimeInv' /\ AgentInv'
<1>1. /\ AgentType /\ PhaseInv /\ MessagesInv
      /\ exchange \in Seq(Messages)
      /\ todo \in Seq(CallId) /\ pending \in Seq(CallId)
      /\ stopped => obs # "open"
      /\ failure \in LimitCodes => denied
  BY AgentParts
<1>2. /\ pc = "ready" /\ seen' = obs /\ policy' = policy /\ WorkerStands
      /\ UNCHANGED <<rpc, messages, exchange, todo, pending, stopped, failure, finished>>
  BY DEF RunAgent, BindTask, runtimeVars, WorkerStands
<1>3. rpc.kind = "idle" /\ trace = <<>> /\ answer = 0
  BY <1>1, <1>2 DEF PhaseInv
<1>4. LastGeneration = 0
  <2>1. Events("generation") = {}
    BY <1>3 DEF Events
  <2> QED
    BY <2>1 DEF LastGeneration
<1>5. RuntimeInv'
  BY <1>2, <1>3, AgentAsks
<1>6. answer' = 0 => Submittable'
  BY <1>2, <1>4, StillSubmittable
<1>7. CASE OpenHands /\ obs # "open"
  <2>1. pc' = "returned" /\ answer' = 0
    BY <1>7 DEF RunAgent, Return
  <2> QED
    BY <1>1, <1>2, <1>3, <1>5, <1>6, <1>7, <2>1, RunEnds
<1>8. CASE ~(OpenHands /\ obs # "open")
  <2>1. pc' = "loop" /\ answer' = answer
    BY <1>8 DEF RunAgent
  <2>2. AgentType' /\ PhaseInv' /\ BatchInv'
    BY <1>1, <1>2, <1>3, <2>1 DEF AgentType, PhaseInv, BatchInv
  <2>3. MessagesInv'
    BY <1>1, <1>2, <2>1, Standing DEF MessagesInv, OpenHands
  <2>4. AgentInv'
    BY <1>1, <1>2, <1>3, <1>6, <2>1, <2>2, <2>3, RunGoesOn
  <2> QED
    BY <1>5, <2>4
<1> QED
  BY <1>7, <1>8

\* The Worker gives up agent.run.
LEMMA AgentPollFails ==
  ASSUME RuntimeInv, AgentInv, PollFails
  PROVE  RuntimeInv' /\ AgentInv'
<1>1. /\ exchange \in Seq(Messages)
      /\ todo \in Seq(CallId) /\ pending \in Seq(CallId)
      /\ seen # "open" => obs # "open"
      /\ stopped => obs # "open"
      /\ failure \in LimitCodes => denied
  BY AgentParts
<1>2. /\ pc' = "failed" /\ rpc'.kind = "idle" /\ policy' = policy /\ WorkerStands
      /\ UNCHANGED <<messages, exchange, todo, seen, pending, stopped, failure, finished>>
  BY DEF PollFails, Raise, Idle, WorkerStands
<1> QED
  BY <1>1, <1>2, AgentAsks, RunEnds

\* A step of the host: only agent.run touches the agent.
LEMMA AgentHostStep ==
  ASSUME RuntimeInv, AgentInv, HostStep
  PROVE  RuntimeInv' /\ AgentInv'
<1>1. CASE RunAgent
  BY <1>1, AgentRunAgent
<1>2. CASE ~RunAgent
  <2>1. UNCHANGED <<runtimeVars, policy, agentVars>>
    BY <1>2, Zenon DEF HostStep, PrepareTools, PrepareAgent, StartMcp,
       StartIntegration, FreezeTools, CloseBegins, CloseIntegration, CloseMcp, CloseLoop
  <2> QED
    BY <2>1, NothingMoves DEF runtimeVars
<1> QED
  BY <1>1, <1>2

\* close() takes the parts in order, and nothing starts a part any more.
LEMMA CloseStep == CloseInv /\ Next => CloseInv'
<1> SUFFICES ASSUME CloseInv, Next PROVE CloseInv'
  OBVIOUS
<1>1. CASE UNCHANGED <<closing, mcp, loop>> /\ stage \notin {"close", "end"}
  BY <1>1 DEF CloseInv
<1>2. CASE UNCHANGED hostVars
  BY <1>2 DEF CloseInv, hostVars
<1>3. CASE StartMcp
  BY <1>3 DEF StartMcp, CloseInv
<1>4. CASE CloseBegins
  BY <1>4 DEF CloseBegins, CloseInv
<1>5. CASE CloseIntegration
  BY <1>5 DEF CloseIntegration, CloseInv
<1>6. CASE CloseMcp
  BY <1>6 DEF CloseMcp, CloseInv
<1>7. CASE CloseLoop
  BY <1>7 DEF CloseLoop, CloseInv
<1>8. CASE PrepareTools \/ PrepareAgent \/ StartIntegration \/ FreezeTools
  BY <1>1, <1>8 DEF PrepareTools, PrepareAgent, StartIntegration, FreezeTools
<1>9. CASE RunAgent \/ PollFails
  BY <1>1, <1>9 DEF RunAgent, PollFails
<1>10. CASE AgentStep
  <2>1. InRun
    BY <1>10, Zenon DEF AgentStep, PlainGenerate, PlainGeneration, PlainCall,
       PlainResult, PlainExchanged, PlainDenied, Complete, CompletionReturns,
       CompletionDenied, CallTool, ClaimFails, StepReturns, StepRaises, BatchEnds
  <2> QED
    BY <1>1, <2>1 DEF InRun
<1>11. CASE RuntimeStep \/ Outside
  BY <1>2, <1>11 DEF RuntimeStep, Outside
<1> QED
  BY <1>3, <1>4, <1>5, <1>6, <1>7, <1>8, <1>9, <1>10, <1>11 DEF Next, HostStep

\* Initially nothing is recorded, asked or said.
LEMMA AgentHostInit == Init => HostInv
<1> SUFFICES ASSUME Init PROVE HostInv
  OBVIOUS
<1>1. /\ usage = [generations |-> 0, tools |-> 0, tokens |-> 0]
      /\ obs \in {"open", "terminated"}
      /\ denied = FALSE /\ limited = FALSE
      /\ trace = <<>> /\ complete = TRUE /\ rpc = [kind |-> "idle"]
      /\ closing = "no"
      /\ pc = "ready" /\ messages = <<>> /\ exchange = <<>> /\ todo = <<>>
      /\ answer = 0 /\ seen = "open" /\ pending = <<>> /\ stopped = FALSE
  BY Zenon DEF Init, RuntimeInit, IntegrationInit, Idle
<1>2. failure \notin LimitCodes
  BY Zenon DEF Init, IntegrationInit, LimitCodes
<1>3. rpc.kind = "idle" /\ usage.generations = 0
  BY <1>1
<1>4. /\ \A k : Events(k) = {}
      /\ Range(messages) = {}
  BY <1>1 DEF Events, Range
<1>5. RuntimeType
  <2>1. RequestType
    BY <1>3 DEF RequestType, RequestKinds
  <2>2. usage \in [generations : Nat, tools : Nat, tokens : Nat]
    BY <1>1
  <2>3. trace \in Seq(Recordable)
    BY <1>1
  <2> QED
    BY <1>1, <2>1, <2>2, <2>3 DEF RuntimeType, Observations
<1>6. EndInv
  BY <1>3, <1>4 DEF EndInv, NothingAfterEnvironmentEnds
<1>7. AccountInv
  <2>1. Cardinality({}) = 0
    BY FS_EmptySet
  <2> QED
    BY <1>3, <1>4, <2>1 DEF AccountInv, Accounts
<1>8. LatestInv /\ HistoryIsRecorded
  BY <1>4 DEF LatestInv, HistoryIsRecorded
<1>9. ReplyInv
  BY <1>3 DEF ReplyInv
<1>10. AgentType /\ PhaseInv /\ BatchInv /\ AnswerInv
  BY <1>1, <1>3 DEF AgentType, PhaseInv, BatchInv, AnswerInv
<1>11. ReasonInv
  BY <1>1, <1>2 DEF ReasonInv
<1>12. MessagesInv
  BY <1>1, <1>4 DEF MessagesInv, Recorded, Covered, Tools
<1>13. CloseInv
  BY <1>1 DEF CloseInv
<1> QED
  BY <1>5, <1>6, <1>7, <1>8, <1>9, <1>10, <1>11, <1>12, <1>13
     DEF HostInv, RuntimeInv, AgentInv

\* Every step keeps the invariant.
LEMMA AgentHostNext == HostInv /\ [Next]_vars => HostInv'
<1> SUFFICES ASSUME HostInv, [Next]_vars PROVE HostInv'
  OBVIOUS
<1>1. RuntimeInv /\ AgentInv /\ CloseInv
  BY DEF HostInv
<1>2. CASE UNCHANGED vars
  <2>1. CloseInv'
    BY <1>1, <1>2 DEF CloseInv, vars, hostVars
  <2>2. RuntimeInv' /\ AgentInv'
    BY <1>1, <1>2, NothingMoves DEF vars, runtimeVars, hostVars
  <2> QED
    BY <2>1, <2>2 DEF HostInv
<1>3. CASE Next
  <2>1. CloseInv'
    BY <1>1, <1>3, CloseStep
  <2>2. ASSUME RuntimeStep PROVE RuntimeInv' /\ AgentInv'
    BY <1>1, <2>2, WorkerSteps, WorkerKeepsAgent DEF RuntimeStep, hostVars
  <2>3. ASSUME Outside PROVE RuntimeInv' /\ AgentInv'
    BY <1>1, <2>3, NothingMoves DEF Outside, Cancel, Tick, hostVars
  <2>4. RuntimeInv' /\ AgentInv'
    BY <1>1, <1>3, <2>2, <2>3, AgentHostStep, AgentSteps, AgentPollFails DEF Next
  <2> QED
    BY <2>1, <2>4 DEF HostInv
<1> QED
  BY <1>2, <1>3

\* The invariant of the agent, its host and the Worker's side of both.
THEOREM AgentHostInvariant == Spec => []HostInv
  BY AgentHostInit, AgentHostNext, PTL DEF Spec

\* Whatever failed to be written on the way, a trace that is still complete has
\* an event for every generation counted and a result for every call started.
THEOREM CompleteTraceAccountsHolds == Spec => []CompleteTraceAccounts
<1>1. HostInv => CompleteTraceAccounts
  BY DEF HostInv, RuntimeInv, AccountInv, Accounts, CompleteTraceAccounts
<1> QED
  BY <1>1, AgentHostInvariant, PTL

\* What either agent submits is the last answer the Worker recorded, or the
\* message of a finish call of that answer whose result it recorded.
THEOREM AnswerIsRecordedHolds == Spec => []AnswerIsRecorded
<1>1. HostInv => AnswerIsRecorded
  BY DEF HostInv, AgentInv, AnswerInv, Submittable, HasResult, AnswerIsRecorded
<1> QED
  BY <1>1, AgentHostInvariant, PTL

\* No answer that a limit, a truncated generation or the environment forced is
\* reported as a final answer.
THEOREM OnlyFinalAnswersAreFinalHolds == Spec => []OnlyFinalAnswersAreFinal
<1>1. HostInv => OnlyFinalAnswersAreFinal
  <2> SUFFICES ASSUME HostInv, pc = "returned", TerminationReason = "final_answer"
               PROVE  finished \/ Stops(LastGeneration)
    BY DEF OnlyFinalAnswersAreFinal, Stops
  <2>1. /\ obs \in Observations
        /\ obs # "open" \/ denied \/ limited \/ finished \/ Stops(LastGeneration)
    BY DEF HostInv, RuntimeInv, RuntimeType, AgentInv, ReasonInv
  <2>2. obs = "open" /\ ~denied /\ ~limited
    BY <2>1 DEF TerminationReason, Observations
  <2> QED
    BY <2>1, <2>2
<1> QED
  BY <1>1, AgentHostInvariant, PTL

\* Whatever the agent, what it submits and the reason it gives are in the trace.
THEOREM AnswerIsBackedHolds == Spec => []AnswerIsBacked
<1>1. AnswerIsRecorded /\ OnlyFinalAnswersAreFinal => AnswerIsBacked
  BY DEF AnswerIsBacked
<1> QED
  BY <1>1, AnswerIsRecordedHolds, OnlyFinalAnswersAreFinalHolds, PTL

\* After the observation that ended the environment nothing is generated and no
\* tool is started.
THEOREM NothingAfterEnvironmentEndsHolds == Spec => []NothingAfterEnvironmentEnds
<1>1. HostInv => NothingAfterEnvironmentEnds
  BY DEF HostInv, RuntimeInv, EndInv
<1> QED
  BY <1>1, AgentHostInvariant, PTL

\* Every tool message a model was ever asked with repeats a recorded result, and
\* no call of an earlier answer was left out.
THEOREM HistoryIsRecordedHolds == Spec => []HistoryIsRecorded
<1>1. HostInv => HistoryIsRecorded
  BY DEF HostInv, RuntimeInv
<1> QED
  BY <1>1, AgentHostInvariant, PTL

\* However far prepare got and whatever closing a part raised, close() ends
\* with the MCP server told to exit and the loop stopped.
THEOREM CloseReachesEveryPartHolds == Spec => []CloseReachesEveryPart
<1>1. HostInv => CloseReachesEveryPart
  BY DEF HostInv, CloseInv, CloseReachesEveryPart
<1> QED
  BY <1>1, AgentHostInvariant, PTL
=============================================================================
