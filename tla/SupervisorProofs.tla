-------------------------- MODULE SupervisorProofs --------------------------
(***************************************************************************)
(* Theorems about EpisodeSupervisor: for any limits, usage and tokens, and *)
(* any number of failed writes and deaths of the Worker.                   *)
(***************************************************************************)
EXTENDS EpisodeSupervisor, WellFoundedInduction, TLAPS

AtOps == {"none", "model", "answer", "settle", "tool_call", "tool"}

\* A spool has used finitely many numbers.
Spools == {s \in [reserved : SUBSET Nat, events : SUBSET Nat, usage : Seq(Usage)] :
             \E b \in Nat : \A k \in s.reserved \cup s.events : k < b}

TypeInv ==
  /\ scored \in BOOLEAN /\ completed \in BOOLEAN
  /\ usage \in Usage /\ spent \in Usage /\ outcomes \in Nat
  /\ unanswered \in Nat /\ uncovered \in Nat
  /\ op \in [at : AtOps, allowed : Nat, complete : BOOLEAN]
  /\ writer \in [next : Nat, events : SUBSET Nat, complete : BOOLEAN]
  /\ spool \in Spools
  /\ closed \in [Hosts -> {"open", "ok", "failed"}]

(* Where execute is, and what it has by then. *)

Running == {"admit", "open", "preparing", "environment", "tools", "agent", "reset", "observed",
            "running", "start", "interacting", "finalizing", "freeze_tools", "freeze_backend",
            "finalized"}
Scoring == {"snapshot", "scoring", "checkpoint", "score"}
Closing == {"close_scorer", "close_agent", "close_tools", "close_environment", "close_backend"}
Closed == {"conclude", "terminal", "seal", "finish"}
Dead == {"down", "recovered", "recovery_error", "recovery_seal", "recovery_finish"}
Stages == Running \cup Scoring \cup Closing \cup Closed \cup Dead
          \cup {"scored", "failing", "cleaning", "stuck", "finished"}

\* What an attempt that is being closed comes to: an error, or an answer with
\* the score the plan asks for.
Decided == fault = "none" => completed /\ (scored => score = "ok")

PhaseInv ==
  /\ stage \in Stages
  /\ op.at # "none" => stage = "interacting"
  /\ stage \in Running \cup Scoring => fault = "none" /\ ~completed /\ score = "none"
  /\ stage \in Scoring \cup {"scored"} => scored
  /\ stage = "scored" => fault = "none" /\ ~completed /\ score # "none"
  /\ stage = "failing" => fault # "none"
  /\ stage \in {"cleaning"} \cup Closing \cup Closed => Decided
  /\ stage \in Dead => fault # "none"
  /\ score # "none" => scored
  /\ result.by # "none" <=> stage = "finished"

(* The hosts are closed in their order. *)

Past(h) == closed[h] \in {"ok", "failed"}

CloseInv ==
  /\ stage = "close_scorer" => scored
  /\ stage \in {"close_agent", "close_tools", "close_environment", "close_backend"} \cup Closed =>
       (scored => Past("scorer"))
  /\ stage \in {"close_tools", "close_environment", "close_backend"} \cup Closed => Past("agent")
  /\ stage \in {"close_environment", "close_backend"} \cup Closed => Past("tools")
  /\ stage \in {"close_backend"} \cup Closed => Past("environment")
  /\ stage \in Closed => Past("backend")
  /\ stage \in {"terminal", "seal", "finish"} =>
       (cleanup = "completed" <=> \A h \in Given : closed[h] = "ok")

(* The trace: whole and settled, or one call ahead of it. *)

Whole == writer.events = 0..(writer.next - 1)
Ahead(calls) ==
  spent.generations + spent.tools = Consumed.generations + Consumed.tools + outcomes + calls

TraceInv ==
  /\ writer.complete => Whole /\ Ahead(0)
  /\ op.at \in {"model", "answer", "tool"} => ~writer.complete /\ (op.complete => Whole /\ Ahead(1))
  /\ op.at = "settle" => ~writer.complete /\ (op.complete => Whole /\ Ahead(0))
  /\ stage \in Dead => ~writer.complete

(* Usage: the counters have every answer; what a recovery would read covers   *)
(* what the records allow for, with the allowance of a call under way on top. *)

Covers(u, v) == u.generations >= v.generations /\ u.tools >= v.tools /\ u.tokens >= v.tokens

\* The same, but for some tokens.
CoversBut(u, v, tokens) ==
  u.generations >= v.generations /\ u.tools >= v.tools /\ u.tokens + tokens >= v.tokens

UsageInv ==
  /\ stage \notin Dead \cup {"finished"} =>
       /\ usage.generations >= spent.generations /\ usage.tools >= spent.tools
       /\ usage.tokens + unanswered = spent.tokens
  /\ stage \in Dead \ {"down"} => CoversBut(usage, spent, uncovered)
  /\ CoversBut(RecoveredUsage(spool), spent, uncovered)
  /\ op.at = "model" => RecoveredUsage(spool).tokens + uncovered >= spent.tokens + op.allowed
  /\ op.at = "tool_call" =>
       usage.tools > spent.tools /\ RecoveredUsage(spool).tools > spent.tools

\* What the ledger has stays true.
ResultInv == ResultIsHonest /\ UsageIsConservative

SupervisorInv == TypeInv /\ PhaseInv /\ CloseInv /\ TraceInv /\ UsageInv /\ ResultInv

-----------------------------------------------------------------------------
(* What the shared parts of the actions do.                                *)

LEMMA CallMoves ==
  ASSUME NEW at, NEW limit, NEW checked \in BOOLEAN, NEW next, Call(at, limit, checked, next)
  PROVE  /\ stage = at
         /\ \/ stage' = next /\ fault' = fault
            \/ stage' = "failing" /\ fault' # "none"
         /\ UNCHANGED <<world, budget, trace, answer, ending, history>>
BY DEF Call, Late, Fails, Goes, HostErrors

LEMMA SpoolShape ==
  ASSUME NEW s, s = [reserved |-> s.reserved, events |-> s.events, usage |-> s.usage],
         s.reserved \in SUBSET Nat, s.events \in SUBSET Nat, s.usage \in Seq(Usage),
         NEW b \in Nat, \A k \in s.reserved \cup s.events : k < b
  PROVE  s \in Spools
<1>1. s \in [reserved : SUBSET Nat, events : SUBSET Nat, usage : Seq(Usage)]
  OBVIOUS
<1> QED BY <1>1 DEF Spools

LEMMA RecordShape ==
  ASSUME TypeInv, NEW ok \in BOOLEAN, NEW complete \in BOOLEAN, Record(ok, complete)
  PROVE  /\ writer' \in [next : Nat, events : SUBSET Nat, complete : BOOLEAN]
         /\ spool' \in Spools
         /\ spool'.usage = spool.usage
         /\ writer'.complete => ok /\ complete
         /\ ok /\ Whole => Whole'
<1>1. /\ writer.next \in Nat /\ writer.events \in SUBSET Nat /\ writer.complete \in BOOLEAN
      /\ spool.reserved \in SUBSET Nat /\ spool.events \in SUBSET Nat /\ spool.usage \in Seq(Usage)
  BY DEF TypeInv, Spools
<1>2. /\ writer' = [next |-> writer'.next, events |-> writer'.events, complete |-> writer'.complete]
      /\ writer'.next \in Nat /\ writer'.events \in SUBSET Nat /\ writer'.complete \in BOOLEAN
      /\ spool' = [reserved |-> spool'.reserved, events |-> spool'.events, usage |-> spool.usage]
      /\ spool'.reserved \in SUBSET Nat /\ spool'.events \in SUBSET Nat
      /\ spool'.reserved \cup spool'.events
         \subseteq spool.reserved \cup spool.events \cup {writer.next}
      /\ writer'.complete => ok /\ complete
      /\ ok => writer'.next = writer.next + 1 /\ writer'.events = writer.events \cup {writer.next}
  <2>1. CASE ok
    <3>1. /\ writer' = [next |-> writer.next + 1, events |-> writer.events \cup {writer.next},
                        complete |-> complete]
          /\ spool' = Appended(writer.next)
      BY <2>1 DEF Record
    <3>2. spool' = [reserved |-> spool.reserved \cup {writer.next},
                    events |-> spool.events \cup {writer.next}, usage |-> spool.usage]
      BY <3>1 DEF Appended, TypeInv, Spools
    <3>3. /\ spool.reserved \cup {writer.next} \in SUBSET Nat
          /\ spool.events \cup {writer.next} \in SUBSET Nat
          /\ writer.events \cup {writer.next} \in SUBSET Nat
      BY <1>1
    <3> QED BY <1>1, <2>1, <3>1, <3>2, <3>3
  <2>2. CASE ~ok
    <3>1. /\ writer' = [writer EXCEPT !.next = @ + 1, !.complete = FALSE]
          /\ spool' \in {spool, Reserved(writer.next), Appended(writer.next)}
      BY <2>2 DEF Record
    <3>2. writer' = [next |-> writer.next + 1, events |-> writer.events, complete |-> FALSE]
      BY <3>1 DEF TypeInv, Spools
    <3>3. /\ spool.reserved \cup {writer.next} \in SUBSET Nat
          /\ spool.events \cup {writer.next} \in SUBSET Nat
      BY <1>1
    <3>4. \/ spool' = [reserved |-> spool.reserved, events |-> spool.events, usage |-> spool.usage]
          \/ spool' = [reserved |-> spool.reserved \cup {writer.next}, events |-> spool.events,
                       usage |-> spool.usage]
          \/ spool' = [reserved |-> spool.reserved \cup {writer.next},
                       events |-> spool.events \cup {writer.next}, usage |-> spool.usage]
      BY <3>1 DEF Appended, Reserved, TypeInv, Spools
    <3>5. /\ spool' = [reserved |-> spool'.reserved, events |-> spool'.events, usage |-> spool.usage]
          /\ spool'.reserved \in SUBSET Nat /\ spool'.events \in SUBSET Nat
          /\ spool'.reserved \cup spool'.events
             \subseteq spool.reserved \cup spool.events \cup {writer.next}
      BY <1>1, <3>3, <3>4
    <3> QED BY <1>1, <2>2, <3>2, <3>5
  <2> QED BY <2>1, <2>2
<1>3. ok /\ Whole => Whole'
  <2> SUFFICES ASSUME ok, Whole PROVE Whole'
    OBVIOUS
  <2>1. writer.events = 0..(writer.next - 1) /\ writer.next \in Nat
    BY <1>1 DEF Whole
  <2>2. writer.events \cup {writer.next} = 0..writer.next
    BY <2>1
  <2>3. writer'.events = 0..writer.next /\ writer'.next - 1 = writer.next
    <3>1. writer'.next = writer.next + 1 /\ writer'.events = writer.events \cup {writer.next}
      BY <1>2
    <3> QED BY <2>1, <2>2, <3>1
  <2> QED BY <2>3 DEF Whole
<1>4. /\ writer'.complete => ok /\ complete
      /\ spool'.usage = spool.usage
  BY <1>2
<1>5. writer' \in [next : Nat, events : SUBSET Nat, complete : BOOLEAN]
  BY <1>1, <1>2
<1>6. spool' \in Spools
  <2>1. PICK b \in Nat : \A k \in spool.reserved \cup spool.events : k < b
    BY DEF TypeInv, Spools
  <2>2. \A k \in spool'.reserved \cup spool'.events :
          k \in spool.reserved \cup spool.events \cup {writer.next}
    BY <1>2
  <2>3. \A k \in spool'.reserved \cup spool'.events : k < b + writer.next + 1
    BY <1>1, <2>1, <2>2
  <2>4. b + writer.next + 1 \in Nat
    BY <1>1
  <2>5. /\ spool' = [reserved |-> spool'.reserved, events |-> spool'.events, usage |-> spool'.usage]
        /\ spool'.reserved \in SUBSET Nat /\ spool'.events \in SUBSET Nat
        /\ spool'.usage \in Seq(Usage)
    BY <1>1, <1>2
  <2> QED BY <2>3, <2>4, <2>5, SpoolShape
<1> QED BY <1>3, <1>4, <1>5, <1>6

LEMMA PersistShape ==
  ASSUME TypeInv, NEW ok \in BOOLEAN, NEW value \in Usage, PersistUsage(ok, value)
  PROVE  /\ spool' \in Spools
         /\ \/ spool'.usage = spool.usage /\ uncovered' = uncovered /\ ~ok
            \/ spool'.usage = Append(spool.usage, value) /\ uncovered' = unanswered
         /\ uncovered' \in Nat
<1>1. spool.usage \in Seq(Usage) /\ Append(spool.usage, value) \in Seq(Usage)
  BY DEF TypeInv, Spools
<1>2. [spool EXCEPT !.usage = Append(@, value)]
      = [reserved |-> spool.reserved, events |-> spool.events, usage |-> Append(spool.usage, value)]
  <2> DEFINE more == Append(spool.usage, value)
  <2>1. spool \in [reserved : SUBSET Nat, events : SUBSET Nat, usage : Seq(Usage)]
    BY DEF TypeInv, Spools
  <2> HIDE DEF more
  <2>2. [spool EXCEPT !.usage = more]
        = [reserved |-> spool.reserved, events |-> spool.events, usage |-> more]
    BY <2>1
  <2> QED BY <2>2 DEF more
<1>3. \/ spool' = spool /\ uncovered' = uncovered /\ ~ok
      \/ spool' = [spool EXCEPT !.usage = Append(@, value)] /\ uncovered' = unanswered
  BY DEF PersistUsage
<1>4. CASE spool' = spool /\ uncovered' = uncovered /\ ~ok
  <2>1. spool' \in Spools /\ uncovered' \in Nat
    BY <1>4 DEF TypeInv
  <2> QED BY <1>4, <2>1
<1>5. CASE spool' = [spool EXCEPT !.usage = Append(@, value)] /\ uncovered' = unanswered
  <2>1. spool' = [reserved |-> spool.reserved, events |-> spool.events,
                  usage |-> Append(spool.usage, value)]
    BY <1>2, <1>5
  <2>2. spool.reserved \in SUBSET Nat /\ spool.events \in SUBSET Nat
    BY DEF TypeInv, Spools
  <2>3. PICK b \in Nat : \A k \in spool.reserved \cup spool.events : k < b
    BY DEF TypeInv, Spools
  <2>4. /\ spool' = [reserved |-> spool'.reserved, events |-> spool'.events, usage |-> spool'.usage]
        /\ spool'.reserved = spool.reserved /\ spool'.events = spool.events
        /\ spool'.usage = Append(spool.usage, value)
    BY <2>1
  <2>5. spool' \in Spools
    BY <1>1, <2>2, <2>3, <2>4, SpoolShape
  <2>6. uncovered' \in Nat
    BY <1>5 DEF TypeInv
  <2> QED BY <1>5, <2>4, <2>5, <2>6
<1> QED BY <1>3, <1>4, <1>5

LEMMA LeastNat ==
  ASSUME NEW T, T \subseteq Nat, T # {}
  PROVE  \E x \in T : \A y \in T : x <= y
<1>1. \E R : IsWellFoundedOn(R, Nat) /\ \A x, y \in Nat : x < y => <<x, y>> \in R
  <2>1. \A x, y \in Nat : x < y => <<x, y>> \in OpToRel(<, Nat)
    BY DEF OpToRel
  <2> QED BY <2>1, NatLessThanWellFounded
<1>2. PICK R : IsWellFoundedOn(R, Nat) /\ \A x, y \in Nat : x < y => <<x, y>> \in R
  BY <1>1
<1>3. PICK x \in T : \A y \in T : ~ (<<y, x>> \in R)
  <2>1. IsWellFoundedOn(R, Nat)
    BY <1>2
  <2> QED BY <2>1, WFMin
<1>4. \A y \in T : ~ (y < x)
  BY <1>2, <1>3
<1>5. \A y \in T : x <= y
  BY <1>4
<1> QED BY <1>5

\* The number a recovery goes on with is beyond all that have been taken.
LEMMA NextFreeIsFree ==
  ASSUME NEW s, s.reserved \in SUBSET Nat, s.events \in SUBSET Nat, s.usage \in Seq(Usage),
         NEW b \in Nat, \A k \in s.reserved \cup s.events : k < b
  PROVE  NextFree(s) \in Nat /\ \A k \in s.reserved \cup s.events : k < NextFree(s)
<1> DEFINE numbers == s.reserved \cup s.events \cup {k - 1 : k \in DOMAIN s.usage}
           above == {n \in Nat : \A k \in numbers : k < n}
<1>1. numbers \subseteq Nat
  OBVIOUS
<1>2. above # {}
  <2>1. Len(s.usage) \in Nat /\ DOMAIN s.usage = 1..Len(s.usage)
    OBVIOUS
  <2>2. \A k \in numbers : k < b + Len(s.usage)
    BY <2>1
  <2>3. b + Len(s.usage) \in above
    BY <2>1, <2>2
  <2> QED BY <2>3
<1>3. PICK least \in above : \A n \in above : least <= n
  <2> HIDE DEF numbers
  <2>1. above \subseteq Nat
    OBVIOUS
  <2> HIDE DEF above
  <2> QED BY <1>2, <2>1, LeastNat
<1>4. least \in {0} \cup {k + 1 : k \in numbers}
  <2> HIDE DEF numbers
  <2>1. least \in Nat /\ \A k \in numbers : k < least
    BY <1>3
  <2> SUFFICES ASSUME least # 0 PROVE \E k \in numbers : least = k + 1
    OBVIOUS
  <2>2. least - 1 \in Nat /\ least - 1 \notin above
    BY <1>3, <2>1
  <2>3. PICK k \in numbers : ~(k < least - 1)
    BY <2>2
  <2>4. k \in Nat /\ k < least
    BY <1>1, <2>1
  <2> QED BY <2>1, <2>3, <2>4
<1>5. \E n \in {0} \cup {k + 1 : k \in numbers} : \A k \in numbers : k < n
  BY <1>3, <1>4
<1>6. NextFree(s) = CHOOSE n \in {0} \cup {k + 1 : k \in numbers} : \A k \in numbers : k < n
  BY DEF NextFree
<1> HIDE DEF numbers
<1>7. NextFree(s) \in {0} \cup {k + 1 : k \in numbers} /\ \A k \in numbers : k < NextFree(s)
  BY <1>5, <1>6
<1>8. NextFree(s) \in Nat
  BY <1>1, <1>7
<1>9. \A k \in s.reserved \cup s.events : k < NextFree(s)
  BY <1>7 DEF numbers
<1> QED BY <1>8, <1>9

LEMMA RecoveredType ==
  ASSUME NEW s, s.usage \in Seq(Usage)
  PROVE  RecoveredUsage(s) \in Usage
<1>1. Consumed \in Usage
  BY SupervisorAssumption
<1>2. s.usage # <<>> => s.usage[Len(s.usage)] \in Usage
  OBVIOUS
<1> QED BY <1>1, <1>2 DEF RecoveredUsage, Larger, Usage

\* What a recovery reads after one more record is that record, or more.
LEMMA RecoveredAppend ==
  ASSUME NEW s, NEW t, s.usage \in Seq(Usage), NEW value \in Usage,
         t.usage = Append(s.usage, value)
  PROVE  /\ RecoveredUsage(t) \in Usage
         /\ Covers(RecoveredUsage(t), value) /\ Covers(RecoveredUsage(t), Consumed)
<1>1. t.usage # <<>> /\ t.usage[Len(t.usage)] = value
  OBVIOUS
<1>2. Consumed \in Usage
  BY SupervisorAssumption
<1>3. RecoveredUsage(t) = [generations |-> Larger(Consumed.generations, value.generations),
                           tools |-> Larger(Consumed.tools, value.tools),
                           tokens |-> Larger(Consumed.tokens, value.tokens)]
  BY <1>1 DEF RecoveredUsage
<1>4. /\ \A m, n \in Nat : Larger(m, n) \in Nat
      /\ \A m, n \in Nat : Larger(m, n) >= m
      /\ \A m, n \in Nat : Larger(m, n) >= n
  BY DEF Larger
<1>5. /\ value.generations \in Nat /\ value.tools \in Nat /\ value.tokens \in Nat
      /\ Consumed.generations \in Nat /\ Consumed.tools \in Nat /\ Consumed.tokens \in Nat
  BY <1>2 DEF Usage
<1>6. /\ RecoveredUsage(t).generations = Larger(Consumed.generations, value.generations)
      /\ RecoveredUsage(t).tools = Larger(Consumed.tools, value.tools)
      /\ RecoveredUsage(t).tokens = Larger(Consumed.tokens, value.tokens)
  BY <1>3
<1>7. RecoveredUsage(t) \in Usage
  BY RecoveredType
<1>8. Covers(RecoveredUsage(t), value) /\ Covers(RecoveredUsage(t), Consumed)
  <2>1. /\ Larger(Consumed.generations, value.generations) >= value.generations
        /\ Larger(Consumed.generations, value.generations) >= Consumed.generations
        /\ Larger(Consumed.tools, value.tools) >= value.tools
        /\ Larger(Consumed.tools, value.tools) >= Consumed.tools
        /\ Larger(Consumed.tokens, value.tokens) >= value.tokens
        /\ Larger(Consumed.tokens, value.tokens) >= Consumed.tokens
    BY <1>4, <1>5
  <2> QED BY <1>6, <2>1 DEF Covers
<1> QED BY <1>7, <1>8

LEMMA RecoveredSame ==
  ASSUME NEW s, NEW t, t.usage = s.usage
  PROVE  RecoveredUsage(t) = RecoveredUsage(s)
BY DEF RecoveredUsage

-----------------------------------------------------------------------------
(* Steps that change nothing but where the attempt is, its error and the   *)
(* trace.                                                                  *)

\* A trace that is complete after the step was so before it, and is whole if it
\* was.
TraceStep ==
  /\ writer' \in [next : Nat, events : SUBSET Nat, complete : BOOLEAN]
  /\ spool' \in Spools
  /\ spool'.usage = spool.usage
  /\ writer'.complete => writer.complete /\ (Whole => Whole')

Quiet ==
  /\ UNCHANGED <<world, budget, answer, history>>
  /\ TraceStep
  /\ op.at = "none" /\ stage \notin Dead \cup {"finished"} /\ stage' \notin Dead

LEMMA TraceStands ==
  ASSUME TypeInv, UNCHANGED <<writer, spool>>
  PROVE  TraceStep
BY DEF TypeInv, Spools, TraceStep, Whole

LEMMA TraceRecords ==
  ASSUME TypeInv, NEW ok \in BOOLEAN, NEW complete \in BOOLEAN, complete => writer.complete,
         Record(ok, complete)
  PROVE  TraceStep
<1>1. /\ writer' \in [next : Nat, events : SUBSET Nat, complete : BOOLEAN]
      /\ spool' \in Spools
      /\ spool'.usage = spool.usage
      /\ writer'.complete => ok /\ complete
      /\ ok /\ Whole => Whole'
  BY RecordShape
<1> QED BY <1>1 DEF TraceStep

LEMMA TraceMarked ==
  ASSUME TypeInv, NEW complete \in BOOLEAN, complete => writer.complete,
         writer' = [writer EXCEPT !.complete = complete], spool' = spool
  PROVE  TraceStep
<1>1. writer' = [next |-> writer.next, events |-> writer.events, complete |-> complete]
  BY DEF TypeInv, Spools
<1> QED BY <1>1 DEF TypeInv, Spools, TraceStep, Whole

LEMMA QuietKeeps ==
  ASSUME SupervisorInv, Quiet
  PROVE  /\ scored' \in BOOLEAN /\ completed' \in BOOLEAN
         /\ usage' \in Usage /\ spent' \in Usage /\ outcomes' \in Nat
         /\ unanswered' \in Nat /\ uncovered' \in Nat
         /\ op' \in [at : AtOps, allowed : Nat, complete : BOOLEAN]
         /\ writer' \in [next : Nat, events : SUBSET Nat, complete : BOOLEAN]
         /\ spool' \in Spools
         /\ TraceInv' /\ UsageInv'
<1>1. TraceInv'
  BY DEF SupervisorInv, TypeInv, Spools, TraceInv, Quiet, TraceStep, Ahead, budget, history
<1>2. UsageInv'
  <2>1. RecoveredUsage(spool') = RecoveredUsage(spool)
    BY RecoveredSame DEF Quiet, TraceStep
  <2> QED BY <2>1 DEF SupervisorInv, UsageInv, Quiet, budget, history, CoversBut, Dead
<1> QED
  BY <1>1, <1>2 DEF SupervisorInv, TypeInv, Spools, Quiet, TraceStep, world, budget, answer, history

(* Where it goes. *)

fixed == <<scored, answer, ending, op>>

LEMMA RunArc ==
  ASSUME SupervisorInv, stage \in Running \cup Scoring, stage' \in Running \cup Scoring,
         stage' \in Scoring => scored, UNCHANGED fault, UNCHANGED fixed,
         stage' = "interacting" \/ op.at = "none"
  PROVE  PhaseInv' /\ CloseInv' /\ stage # "finished"
BY DEF SupervisorInv, PhaseInv, CloseInv, fixed, answer, ending, Running, Scoring, Closing, Closed,
       Dead, Stages, Decided

LEMMA FailArc ==
  ASSUME SupervisorInv, stage \in Running \cup Scoring, stage' = "failing", fault' # "none",
         UNCHANGED fixed, op.at = "none"
  PROVE  PhaseInv' /\ CloseInv' /\ stage # "finished"
BY DEF SupervisorInv, PhaseInv, CloseInv, fixed, answer, ending, Running, Scoring, Closing, Closed,
       Dead, Stages, Decided

LEMMA StuckArc ==
  ASSUME SupervisorInv, stage # "finished", stage' = "stuck", UNCHANGED fixed, op.at = "none"
  PROVE  PhaseInv' /\ CloseInv'
BY DEF SupervisorInv, PhaseInv, CloseInv, fixed, answer, ending, Running, Scoring, Closing, Closed,
       Dead, Stages, Decided

\* Until there is a result nothing can be wrong with it.
LEMMA NoResultYet ==
  ASSUME SupervisorInv, stage # "finished", UNCHANGED result, PhaseInv'
  PROVE  ResultInv'
<1>1. result.by = "none" /\ result'.by = "none"
  BY DEF SupervisorInv, PhaseInv
<1>2. stage' # "refused"
  BY DEF PhaseInv, Stages, Running, Scoring, Closing, Closed, Dead
<1> QED BY <1>1, <1>2 DEF ResultInv, ResultIsHonest, NothingIsRefused, CleanupIsTold,
                          CompleteTraceIsWhole, UsageIsConservative

LEMMA QuietStep ==
  ASSUME SupervisorInv, Quiet, stage # "finished", UNCHANGED <<closed, result>>, PhaseInv', CloseInv'
  PROVE  SupervisorInv'
<1>1. TypeInv'
  BY QuietKeeps DEF SupervisorInv, TypeInv, Spools
<1>2. TraceInv' /\ UsageInv'
  BY QuietKeeps
<1>3. ResultInv'
  BY NoResultYet
<1> QED BY <1>1, <1>2, <1>3 DEF SupervisorInv

\* A step from one of the running phases to another one, or to a failure.
LEMMA RunStep ==
  ASSUME SupervisorInv, stage \in Running \cup Scoring, op.at = "none", TraceStep,
         UNCHANGED <<world, budget, answer, ending, history>>,
         \/ /\ stage' \in Running \cup Scoring /\ fault' = fault
            /\ stage' \in Scoring => stage \in Scoring
         \/ stage' = "failing" /\ fault' # "none"
  PROVE  SupervisorInv'
<1>1. UNCHANGED fixed /\ UNCHANGED <<closed, result>>
  BY DEF fixed, world, budget, answer, ending
<1>2. PhaseInv' /\ CloseInv' /\ stage # "finished"
  <2>1. CASE stage' \in Running \cup Scoring /\ fault' = fault /\ (stage' \in Scoring => stage \in Scoring)
    <3>1. stage' \in Scoring => scored
      BY <2>1 DEF SupervisorInv, PhaseInv
    <3> QED BY <1>1, <2>1, <3>1, RunArc
  <2>2. CASE stage' = "failing" /\ fault' # "none"
    BY <1>1, <2>2, FailArc
  <2> QED BY <2>1, <2>2
<1>3. Quiet
  <2>1. stage \notin Dead \cup {"finished"} /\ stage' \notin Dead
    BY DEF Running, Scoring, Dead
  <2> QED BY <2>1 DEF Quiet
<1> QED BY <1>1, <1>2, <1>3, QuietStep

LEMMA Idle ==
  ASSUME SupervisorInv, stage # "interacting"
  PROVE  op.at = "none"
BY DEF SupervisorInv, PhaseInv

LEMMA CallKeeps ==
  ASSUME SupervisorInv, NEW at \in Running \cup Scoring, at # "interacting", NEW limit,
         NEW checked \in BOOLEAN, NEW next \in Running \cup Scoring, next \in Scoring => at \in Scoring,
         Call(at, limit, checked, next)
  PROVE  SupervisorInv'
<1>1. /\ stage = at
      /\ \/ stage' = next /\ fault' = fault
         \/ stage' = "failing" /\ fault' # "none"
      /\ UNCHANGED <<world, budget, trace, answer, ending, history>>
  BY CallMoves
<1>2. TraceStep
  BY <1>1, TraceStands DEF SupervisorInv, trace
<1> QED BY <1>1, <1>2, Idle, RunStep

LEMMA PhaseKeeps ==
  ASSUME SupervisorInv, NEW at \in Running \cup Scoring, at # "interacting",
         NEW next \in Running \cup Scoring, next \in Scoring => at \in Scoring, Phase(at, next)
  PROVE  SupervisorInv'
<1>1. /\ stage = at
      /\ \/ stage' = next /\ fault' = fault
         \/ stage' = "failing" /\ fault' # "none"
      /\ UNCHANGED <<world, budget, answer, ending, history>>
  BY DEF Phase, Goes, Fails
<1>2. TraceStep
  <2>1. PICK ok \in BOOLEAN : Record(ok, writer.complete)
    BY DEF Phase
  <2>2. writer.complete \in BOOLEAN
    BY DEF SupervisorInv, TypeInv, Spools
  <2> QED BY <2>1, <2>2, TraceRecords DEF SupervisorInv
<1> QED BY <1>1, <1>2, Idle, RunStep

-----------------------------------------------------------------------------
(* execute, up to the agent.                                               *)

LEMMA StartKeeps ==
  ASSUME SupervisorInv, Start
  PROVE  SupervisorInv'
<1>1. CASE Admit
  <2>1. stage = "admit" /\ UNCHANGED <<world, budget, trace, answer, ending, history>>
    BY <1>1 DEF Admit
  <2>2. TraceStep
    BY <2>1, TraceStands DEF SupervisorInv, trace
  <2>3. op.at = "none"
    BY <2>1, Idle
  <2>4. CASE stage' = "stuck"
    <3>1. UNCHANGED fixed /\ UNCHANGED <<closed, result>>
      BY <2>1 DEF fixed, world, budget, answer, ending
    <3>2. Quiet
      BY <2>1, <2>2, <2>3, <2>4 DEF Quiet, Dead
    <3> QED BY <2>1, <2>3, <2>4, <3>1, <3>2, StuckArc, QuietStep
  <2>5. CASE stage' = "open" /\ fault' = fault
    BY <2>1, <2>2, <2>3, <2>5, RunStep DEF Running, Scoring
  <2> QED BY <1>1, <2>4, <2>5 DEF Admit, GivesUp, Goes
<1>2. CASE Prepare
  <2>1. CASE Call("open", "interaction", FALSE, "preparing")
    BY <2>1, CallKeeps DEF Running, Scoring
  <2>2. CASE Phase("preparing", "environment")
    BY <2>2, PhaseKeeps DEF Running, Scoring
  <2>3. CASE Call("environment", "interaction", TRUE, "tools")
    BY <2>3, CallKeeps DEF Running, Scoring
  <2>4. CASE Call("tools", "interaction", TRUE, "agent")
    BY <2>4, CallKeeps DEF Running, Scoring
  <2>5. CASE Call("agent", "interaction", TRUE, "reset")
    BY <2>5, CallKeeps DEF Running, Scoring
  <2> QED BY <1>2, <2>1, <2>2, <2>3, <2>4, <2>5 DEF Prepare
<1>3. CASE Reset
  <2>1. /\ stage = "reset" /\ UNCHANGED <<world, budget, spool, faults, answer, ending, history>>
        /\ \/ stage' = "observed" /\ fault' = fault
           \/ stage' = "failing" /\ fault' # "none"
        /\ \/ UNCHANGED writer
           \/ writer' = [writer EXCEPT !.complete = FALSE]
    BY <1>3 DEF Reset, Goes, Fails, Late
  <2>2. TraceStep
    BY <2>1, TraceStands, TraceMarked DEF SupervisorInv
  <2> QED BY <2>1, <2>2, Idle, RunStep DEF Running, Scoring
<1>4. CASE Phase("observed", "running")
  BY <1>4, PhaseKeeps DEF Running, Scoring
<1>5. CASE Phase("running", "start")
  BY <1>5, PhaseKeeps DEF Running, Scoring
<1>6. CASE StartAgent
  <2>1. /\ stage = "start" /\ UNCHANGED <<world, budget, trace, answer, ending, history>>
        /\ \/ stage' = "interacting" /\ fault' = fault
           \/ stage' = "failing" /\ fault' # "none"
    BY <1>6 DEF StartAgent, Goes, Fails, Late
  <2>2. TraceStep
    BY <2>1, TraceStands DEF SupervisorInv, trace
  <2> QED BY <2>1, <2>2, Idle, RunStep DEF Running, Scoring
<1> QED BY <1>1, <1>2, <1>3, <1>4, <1>5, <1>6 DEF Start

-----------------------------------------------------------------------------
(* AgentRuntime.                                                           *)

LEMMA ServedStep ==
  ASSUME SupervisorInv, stage = "interacting", UNCHANGED served,
         usage' \in Usage, spent' \in Usage, unanswered' \in Nat, uncovered' \in Nat, outcomes' \in Nat,
         op' \in [at : AtOps, allowed : Nat, complete : BOOLEAN],
         writer' \in [next : Nat, events : SUBSET Nat, complete : BOOLEAN],
         spool' \in Spools,
         TraceInv', UsageInv'
  PROVE  SupervisorInv'
<1>1. TypeInv'
  BY DEF SupervisorInv, TypeInv, Spools, served, world, answer, ending
<1>2. PhaseInv'
  BY DEF SupervisorInv, PhaseInv, Decided, served, world, answer, ending
<1>3. CloseInv'
  BY DEF SupervisorInv, CloseInv, Closed, Past, served, world, answer, ending
<1>4. UNCHANGED result
  BY DEF served, ending
<1>5. ResultInv'
  BY <1>2, <1>4, NoResultYet
<1> QED BY <1>1, <1>2, <1>3, <1>5 DEF SupervisorInv

\* What a recovery would read covers what the last record covers, and what it
\* covered before if the record may be missing.
LEMMA PersistCovers ==
  ASSUME TypeInv, NEW ok \in BOOLEAN, NEW value \in Usage, PersistUsage(ok, value)
  PROVE  \A v \in Usage :
           CoversBut(value, v, unanswered) /\ (ok \/ CoversBut(RecoveredUsage(spool), v, uncovered))
           => CoversBut(RecoveredUsage(spool'), v, uncovered')
<1>1. \/ spool'.usage = spool.usage /\ uncovered' = uncovered /\ ~ok
      \/ spool'.usage = Append(spool.usage, value) /\ uncovered' = unanswered
  BY PersistShape
<1>2. spool.usage \in Seq(Usage) /\ unanswered \in Nat
  BY DEF TypeInv, Spools
<1>3. CASE spool'.usage = Append(spool.usage, value) /\ uncovered' = unanswered
  <2>1. RecoveredUsage(spool') \in Usage /\ Covers(RecoveredUsage(spool'), value)
    BY <1>2, <1>3, RecoveredAppend
  <2> DEFINE r == RecoveredUsage(spool')
  <2> HIDE DEF r
  <2>2. \A v \in Usage : CoversBut(value, v, unanswered) => CoversBut(r, v, unanswered)
    <3>1. r \in Usage /\ Covers(r, value)
      BY <2>1 DEF r
    <3> QED BY <1>2, <3>1 DEF Covers, CoversBut, Usage
  <2> QED BY <1>3, <2>2 DEF r
<1>4. CASE spool'.usage = spool.usage /\ uncovered' = uncovered /\ ~ok
  <2>1. RecoveredUsage(spool') = RecoveredUsage(spool)
    BY <1>4, RecoveredSame
  <2> QED BY <1>4, <2>1
<1> QED BY <1>1, <1>3, <1>4

\* The spool is not read by a step that leaves its usage records alone.
LEMMA UsageStands ==
  ASSUME SupervisorInv, spool'.usage = spool.usage
  PROVE  RecoveredUsage(spool') = RecoveredUsage(spool) /\ RecoveredUsage(spool) \in Usage
<1>1. spool.usage \in Seq(Usage)
  BY DEF SupervisorInv, TypeInv, Spools
<1> QED BY <1>1, RecoveredSame, RecoveredType

LEMMA BeginGenerationKeeps ==
  ASSUME SupervisorInv, BeginGeneration
  PROVE  SupervisorInv'
<1> DEFINE remaining == MaxOutputTokens - usage.tokens
           allowed == IF ConfiguredTokens < remaining THEN ConfiguredTokens ELSE remaining
           counted == [usage EXCEPT !.generations = @ + 1]
<1>1. /\ stage = "interacting" /\ op.at = "none" /\ usage.tokens < MaxOutputTokens
      /\ UNCHANGED <<served, unanswered, outcomes>>
      /\ usage' = counted
      /\ writer' = [writer EXCEPT !.complete = FALSE]
  BY DEF BeginGeneration, MayBegin, Serving
<1>2. PICK ok \in BOOLEAN :
        /\ PersistUsage(ok, Reservation(counted, allowed))
        /\ IF ok THEN /\ op' = [at |-> "model", allowed |-> allowed, complete |-> writer.complete]
                      /\ spent' = [spent EXCEPT !.generations = @ + 1]
           ELSE UNCHANGED <<op, spent>>
  BY DEF BeginGeneration
<1>3. /\ usage = [generations |-> usage.generations, tools |-> usage.tools, tokens |-> usage.tokens]
      /\ usage.generations \in Nat /\ usage.tools \in Nat /\ usage.tokens \in Nat
      /\ spent = [generations |-> spent.generations, tools |-> spent.tools, tokens |-> spent.tokens]
      /\ spent.generations \in Nat /\ spent.tools \in Nat /\ spent.tokens \in Nat
      /\ writer = [next |-> writer.next, events |-> writer.events, complete |-> writer.complete]
      /\ writer.next \in Nat /\ writer.events \in SUBSET Nat /\ writer.complete \in BOOLEAN
      /\ op \in [at : AtOps, allowed : Nat, complete : BOOLEAN]
      /\ outcomes \in Nat /\ unanswered \in Nat /\ uncovered \in Nat
  BY DEF SupervisorInv, TypeInv, Spools, Usage
<1>4. allowed \in Nat
  BY <1>1, <1>3, SupervisorAssumption
<1>5. counted = [generations |-> usage.generations + 1, tools |-> usage.tools, tokens |-> usage.tokens]
  BY <1>3
<1> HIDE DEF allowed, counted
<1>6. Reservation(counted, allowed) = [generations |-> usage.generations + 1, tools |-> usage.tools,
                                       tokens |-> usage.tokens + allowed]
  BY <1>5 DEF Reservation
<1>7. Reservation(counted, allowed) \in Usage /\ usage' \in Usage
  BY <1>1, <1>3, <1>4, <1>5, <1>6 DEF Usage
<1>8. spool' \in Spools /\ uncovered' \in Nat
  BY <1>2, <1>7, PersistShape DEF SupervisorInv
<1>9. /\ writer' = [next |-> writer.next, events |-> writer.events, complete |-> FALSE]
      /\ writer' \in [next : Nat, events : SUBSET Nat, complete : BOOLEAN]
  BY <1>1, <1>3
<1>10. /\ usage.generations >= spent.generations /\ usage.tools >= spent.tools
       /\ usage.tokens + unanswered = spent.tokens
       /\ CoversBut(RecoveredUsage(spool), spent, uncovered)
  BY <1>1 DEF SupervisorInv, UsageInv, Dead
<1>11. \A v \in Usage : CoversBut(Reservation(counted, allowed), v, unanswered)
                        /\ (ok \/ CoversBut(RecoveredUsage(spool), v, uncovered))
                        => CoversBut(RecoveredUsage(spool'), v, uncovered')
  BY <1>2, <1>7, PersistCovers DEF SupervisorInv
<1>12. CASE ok
  <2>1. /\ op' = [at |-> "model", allowed |-> allowed, complete |-> writer.complete]
        /\ spent' = [generations |-> spent.generations + 1, tools |-> spent.tools,
                     tokens |-> spent.tokens]
    BY <1>2, <1>3, <1>12
  <2>2. /\ op' \in [at : AtOps, allowed : Nat, complete : BOOLEAN] /\ spent' \in Usage
    BY <1>3, <1>4, <2>1 DEF AtOps, Usage
  <2>3. TraceInv'
    <3>1. writer.complete => Whole' /\ Ahead(1)'
      <4>1. writer.complete => Whole /\ Ahead(0)
        BY DEF SupervisorInv, TraceInv
      <4>2. Whole => Whole'
        BY <1>9 DEF Whole
      <4>3. Ahead(0) => Ahead(1)'
        BY <1>1, <1>3, <2>1, SupervisorAssumption DEF Ahead, Usage
      <4> QED BY <4>1, <4>2, <4>3
    <3>2. stage' = "interacting"
      BY <1>1 DEF served
    <3> QED BY <1>9, <2>1, <3>1, <3>2 DEF TraceInv, Dead
  <2>4. UsageInv'
    <3> DEFINE most == [generations |-> spent.generations + 1, tools |-> spent.tools,
                        tokens |-> spent.tokens + allowed]
    <3>1. most \in Usage /\ CoversBut(Reservation(counted, allowed), most, unanswered)
      BY <1>3, <1>4, <1>6, <1>10 DEF CoversBut, Usage
    <3>2. CoversBut(RecoveredUsage(spool'), most, uncovered')
      BY <1>11, <1>12, <3>1
    <3>3. /\ RecoveredUsage(spool').generations >= spent.generations + 1
          /\ RecoveredUsage(spool').tools >= spent.tools
          /\ RecoveredUsage(spool').tokens + uncovered' >= spent.tokens + allowed
      BY <3>2 DEF CoversBut
    <3>4. RecoveredUsage(spool').tokens \in Nat
      BY <1>8, RecoveredType DEF Usage, Spools
    <3>5. RecoveredUsage(spool').tokens + uncovered' >= spent.tokens
      BY <1>3, <1>4, <1>8, <3>3, <3>4
    <3>6. /\ usage'.generations >= spent'.generations /\ usage'.tools >= spent'.tools
          /\ usage'.tokens + unanswered' = spent'.tokens
      BY <1>1, <1>3, <1>5, <1>10, <2>1
    <3>7. stage' = "interacting"
      BY <1>1 DEF served
    <3> QED BY <2>1, <3>3, <3>5, <3>6, <3>7 DEF UsageInv, CoversBut, Dead
  <2> QED BY <1>1, <1>3, <1>7, <1>8, <1>9, <2>2, <2>3, <2>4, ServedStep
<1>13. CASE ~ok
  <2>1. UNCHANGED <<op, spent>>
    BY <1>2, <1>13
  <2>2. TraceInv'
    <3>1. stage' = "interacting"
      BY <1>1 DEF served
    <3> QED BY <1>1, <1>9, <2>1, <3>1 DEF TraceInv, Dead
  <2>3. UsageInv'
    <3>1. spent \in Usage /\ CoversBut(Reservation(counted, allowed), spent, unanswered)
      BY <1>3, <1>4, <1>6, <1>10 DEF CoversBut, Usage
    <3>2. CoversBut(RecoveredUsage(spool'), spent, uncovered')
      BY <1>10, <1>11, <3>1
    <3>3. /\ usage'.generations >= spent.generations /\ usage'.tools >= spent.tools
          /\ usage'.tokens + unanswered' = spent.tokens
      BY <1>1, <1>3, <1>5, <1>10
    <3>4. stage' = "interacting"
      BY <1>1 DEF served
    <3> QED BY <1>1, <2>1, <3>2, <3>3, <3>4 DEF UsageInv, CoversBut, Dead
  <2>4. spent' \in Usage /\ op' \in [at : AtOps, allowed : Nat, complete : BOOLEAN]
    BY <1>3, <2>1 DEF Usage
  <2> QED BY <1>1, <1>3, <1>7, <1>8, <1>9, <2>2, <2>3, <2>4, ServedStep
<1> QED BY <1>12, <1>13

\* What a model produces beyond its allowance is not covered; the rest is.
LEMMA ProducesShape ==
  ASSUME SupervisorInv, op.at = "model", NEW tokens \in 0..TokenBound, Produces(tokens)
  PROVE  /\ spent' = [generations |-> spent.generations, tools |-> spent.tools,
                      tokens |-> spent.tokens + tokens]
         /\ spent' \in Usage /\ uncovered' \in Nat /\ tokens \in Nat
         /\ CoversBut(RecoveredUsage(spool), spent', uncovered')
<1>1. /\ spent = [generations |-> spent.generations, tools |-> spent.tools, tokens |-> spent.tokens]
      /\ spent.generations \in Nat /\ spent.tools \in Nat /\ spent.tokens \in Nat
      /\ op.allowed \in Nat /\ uncovered \in Nat /\ tokens \in Nat /\ spool.usage \in Seq(Usage)
  BY SupervisorAssumption DEF SupervisorInv, TypeInv, Spools, Usage
<1>2. spent' = [generations |-> spent.generations, tools |-> spent.tools,
                tokens |-> spent.tokens + tokens]
  BY <1>1 DEF Produces
<1>3. spent' \in Usage
  <2>1. spent.tokens + tokens \in Nat
    BY <1>1
  <2> QED BY <1>1, <1>2, <2>1 DEF Usage
<1>4. /\ uncovered' = IF tokens > op.allowed THEN uncovered + (tokens - op.allowed) ELSE uncovered
      /\ uncovered' \in Nat
  BY <1>1 DEF Produces
<1>5. RecoveredUsage(spool).tokens \in Nat
  BY <1>1, RecoveredType DEF Usage
<1>6. /\ RecoveredUsage(spool).generations >= spent.generations
      /\ RecoveredUsage(spool).tools >= spent.tools
      /\ RecoveredUsage(spool).tokens + uncovered >= spent.tokens + op.allowed
  BY DEF SupervisorInv, UsageInv, CoversBut
<1>7. RecoveredUsage(spool).tokens + uncovered' >= spent.tokens + tokens
  BY <1>1, <1>4, <1>5, <1>6
<1>8. CoversBut(RecoveredUsage(spool), spent', uncovered')
  BY <1>2, <1>6, <1>7 DEF CoversBut
<1> QED BY <1>1, <1>2, <1>3, <1>4, <1>8

LEMMA ModelFailsKeeps ==
  ASSUME SupervisorInv, ModelFails
  PROVE  SupervisorInv'
<1>1. /\ stage = "interacting" /\ op.at = "model" /\ op' = NoOp
      /\ UNCHANGED <<served, usage, trace, outcomes>>
  BY DEF ModelFails, Serving
<1>2. PICK tokens \in 0..TokenBound : Produces(tokens) /\ unanswered' = unanswered + tokens
  BY DEF ModelFails
<1>3. /\ spent' = [generations |-> spent.generations, tools |-> spent.tools,
                   tokens |-> spent.tokens + tokens]
      /\ spent' \in Usage /\ uncovered' \in Nat /\ tokens \in Nat
      /\ CoversBut(RecoveredUsage(spool), spent', uncovered')
  BY <1>1, <1>2, ProducesShape
<1>4. op'.at = "none" /\ op' \in [at : AtOps, allowed : Nat, complete : BOOLEAN]
  BY <1>1 DEF NoOp, AtOps
<1>5. unanswered \in Nat /\ unanswered' \in Nat /\ usage.tokens \in Nat /\ spent.tokens \in Nat
  BY <1>2, <1>3 DEF SupervisorInv, TypeInv, Usage
<1>6. TraceInv'
  <2>1. ~writer.complete /\ writer' = writer /\ stage' = stage
    BY <1>1 DEF SupervisorInv, TraceInv, trace, served
  <2> QED BY <1>1, <1>4, <2>1 DEF TraceInv, Dead
<1>7. UsageInv'
  <2>1. /\ usage.generations >= spent.generations /\ usage.tools >= spent.tools
        /\ usage.tokens + unanswered = spent.tokens
    BY <1>1 DEF SupervisorInv, UsageInv, Dead
  <2>2. /\ usage'.generations >= spent'.generations /\ usage'.tools >= spent'.tools
        /\ usage'.tokens + unanswered' = spent'.tokens
    BY <1>1, <1>2, <1>3, <1>5, <2>1
  <2>3. spool' = spool /\ stage' = "interacting"
    BY <1>1 DEF trace, served
  <2>4. CoversBut(RecoveredUsage(spool'), spent', uncovered')
    BY <1>3, <2>3
  <2> QED BY <1>4, <2>2, <2>3, <2>4 DEF UsageInv, Dead
<1> QED BY <1>1, <1>3, <1>4, <1>5, <1>6, <1>7, ServedStep DEF SupervisorInv, TypeInv, Spools, trace

LEMMA ModelAnswersKeeps ==
  ASSUME SupervisorInv, ModelAnswers
  PROVE  SupervisorInv'
<1>1. /\ stage = "interacting" /\ op.at = "model"
      /\ UNCHANGED <<served, trace, unanswered, outcomes>>
  BY DEF ModelAnswers, Serving
<1>2. PICK tokens \in 0..TokenBound :
        /\ Produces(tokens)
        /\ usage' = [usage EXCEPT !.tokens = @ + tokens]
        /\ op' = IF tokens > op.allowed \/ usage'.tokens > MaxOutputTokens
                 THEN NoOp ELSE [op EXCEPT !.at = "answer"]
  BY DEF ModelAnswers, Counted
<1>3. /\ usage = [generations |-> usage.generations, tools |-> usage.tools, tokens |-> usage.tokens]
      /\ usage.generations \in Nat /\ usage.tools \in Nat /\ usage.tokens \in Nat
      /\ spent.tokens \in Nat /\ unanswered \in Nat
      /\ op = [at |-> op.at, allowed |-> op.allowed, complete |-> op.complete]
      /\ op.allowed \in Nat /\ op.complete \in BOOLEAN
      /\ outcomes \in Nat /\ tokens \in Nat
  BY SupervisorAssumption DEF SupervisorInv, TypeInv, Spools, Usage
<1>4. /\ usage' = [generations |-> usage.generations, tools |-> usage.tools,
                   tokens |-> usage.tokens + tokens]
      /\ usage' \in Usage
  <2>1. usage' = [usage EXCEPT !.tokens = @ + tokens]
    BY <1>2
  <2>2. usage' = [generations |-> usage.generations, tools |-> usage.tools,
                  tokens |-> usage.tokens + tokens]
    BY <1>3, <2>1
  <2>3. usage.tokens + tokens \in Nat
    BY <1>3
  <2> QED BY <1>3, <2>2, <2>3 DEF Usage
<1>5. /\ spent' = [generations |-> spent.generations, tools |-> spent.tools,
                   tokens |-> spent.tokens + tokens]
      /\ spent' \in Usage /\ uncovered' \in Nat
      /\ CoversBut(RecoveredUsage(spool), spent', uncovered')
  BY <1>1, <1>2, ProducesShape
<1>6. \/ op' = NoOp
      \/ op' = [at |-> "answer", allowed |-> op.allowed, complete |-> op.complete]
  BY <1>2, <1>3
<1>7. op' \in [at : AtOps, allowed : Nat, complete : BOOLEAN] /\ op'.at \in {"none", "answer"}
  <2>1. CASE op' = NoOp
    BY <2>1 DEF NoOp, AtOps
  <2>2. CASE op' = [at |-> "answer", allowed |-> op.allowed, complete |-> op.complete]
    <3>1. "answer" \in AtOps
      BY DEF AtOps
    <3> QED BY <1>3, <2>2, <3>1
  <2> QED BY <1>6, <2>1, <2>2
<1>8. TraceInv'
  <2>1. ~writer.complete /\ (op.complete => Whole /\ Ahead(1))
    BY <1>1 DEF SupervisorInv, TraceInv
  <2>2. writer' = writer /\ (Whole => Whole') /\ stage' = stage
    BY <1>1 DEF trace, Whole, served
  <2>3. Ahead(1) => Ahead(1)'
    <3>1. spent'.generations = spent.generations /\ spent'.tools = spent.tools
      BY <1>5
    <3> QED BY <1>1, <3>1 DEF Ahead
  <2>4. op'.at = "answer" => op'.complete = op.complete
    BY <1>6 DEF NoOp
  <2> QED BY <1>1, <1>7, <2>1, <2>2, <2>3, <2>4 DEF TraceInv, Dead
<1>9. UsageInv'
  <2>1. /\ usage.generations >= spent.generations /\ usage.tools >= spent.tools
        /\ usage.tokens + unanswered = spent.tokens
    BY <1>1 DEF SupervisorInv, UsageInv, Dead
  <2>2. /\ usage'.generations >= spent'.generations /\ usage'.tools >= spent'.tools
        /\ usage'.tokens + unanswered' = spent'.tokens
    BY <1>1, <1>3, <1>4, <1>5, <2>1
  <2>3. spool' = spool /\ stage' = "interacting"
    BY <1>1 DEF trace, served
  <2>4. CoversBut(RecoveredUsage(spool'), spent', uncovered')
    BY <1>5, <2>3
  <2> QED BY <1>7, <2>2, <2>3, <2>4 DEF UsageInv, Dead
<1>10. /\ outcomes' \in Nat /\ unanswered' \in Nat
       /\ writer' \in [next : Nat, events : SUBSET Nat, complete : BOOLEAN]
       /\ spool' \in Spools
  BY <1>1 DEF SupervisorInv, TypeInv, Spools, trace
<1> QED BY <1>1, <1>4, <1>5, <1>7, <1>8, <1>9, <1>10, ServedStep

LEMMA RecordGenerationKeeps ==
  ASSUME SupervisorInv, RecordGeneration
  PROVE  SupervisorInv'
<1>1. stage = "interacting" /\ op.at = "answer" /\ UNCHANGED <<served, usage, produced>>
  BY DEF RecordGeneration, Serving
<1>2. PICK ok \in BOOLEAN :
        /\ Record(ok, FALSE)
        /\ IF ok THEN op' = [op EXCEPT !.at = "settle"] /\ outcomes' = outcomes + 1
           ELSE op' = NoOp /\ UNCHANGED outcomes
  BY DEF RecordGeneration
<1>3. /\ writer' \in [next : Nat, events : SUBSET Nat, complete : BOOLEAN]
      /\ spool' \in Spools
      /\ spool'.usage = spool.usage /\ ~writer'.complete
      /\ ok /\ Whole => Whole'
  <2>1. /\ writer' \in [next : Nat, events : SUBSET Nat, complete : BOOLEAN]
        /\ spool' \in Spools
        /\ spool'.usage = spool.usage
        /\ writer'.complete => ok /\ FALSE
        /\ ok /\ Whole => Whole'
    BY <1>2, RecordShape DEF SupervisorInv
  <2> QED BY <2>1
<1>4. /\ op = [at |-> op.at, allowed |-> op.allowed, complete |-> op.complete]
      /\ op.allowed \in Nat /\ op.complete \in BOOLEAN
      /\ usage' \in Usage /\ spent' \in Usage /\ outcomes \in Nat
      /\ unanswered' \in Nat /\ uncovered' \in Nat
  BY <1>1 DEF SupervisorInv, TypeInv, Spools, produced
<1>5. \/ /\ ok /\ outcomes' = outcomes + 1
         /\ op' = [at |-> "settle", allowed |-> op.allowed, complete |-> op.complete]
      \/ op' = NoOp /\ outcomes' = outcomes
  BY <1>2, <1>4
<1>6. /\ op' \in [at : AtOps, allowed : Nat, complete : BOOLEAN] /\ op'.at \in {"none", "settle"}
      /\ outcomes' \in Nat
  <2>1. CASE op' = NoOp /\ outcomes' = outcomes
    <3>1. NoOp.at = "none" /\ NoOp \in [at : AtOps, allowed : Nat, complete : BOOLEAN]
      BY DEF NoOp, AtOps
    <3> QED BY <1>4, <2>1, <3>1
  <2>2. CASE /\ op' = [at |-> "settle", allowed |-> op.allowed, complete |-> op.complete]
             /\ outcomes' = outcomes + 1
    <3>1. op'.at = "settle" /\ op' \in [at : AtOps, allowed : Nat, complete : BOOLEAN]
      BY <1>4, <2>2 DEF AtOps
    <3> QED BY <1>4, <2>2, <3>1
  <2> QED BY <1>5, <2>1, <2>2
<1>7. TraceInv'
  <2>1. op.complete => Whole /\ Ahead(1)
    BY <1>1 DEF SupervisorInv, TraceInv
  <2>2. op'.at = "settle" /\ op'.complete => Whole' /\ Ahead(0)'
    <3> SUFFICES ASSUME op'.at = "settle", op'.complete
                 PROVE  Whole' /\ Ahead(0)'
      OBVIOUS
    <3>1. ok /\ outcomes' = outcomes + 1 /\ op.complete
      BY <1>5 DEF NoOp
    <3>2. Ahead(0)'
      BY <1>1, <1>4, <2>1, <3>1, SupervisorAssumption DEF Ahead, Usage, produced
    <3> QED BY <1>3, <2>1, <3>1, <3>2
  <2>3. stage' = "interacting"
    BY <1>1 DEF served
  <2> QED BY <1>3, <1>6, <2>2, <2>3 DEF TraceInv, Dead
<1>8. UsageInv'
  <2>1. RecoveredUsage(spool') = RecoveredUsage(spool) /\ stage' = stage
    BY <1>1, <1>3, UsageStands DEF served
  <2> QED BY <1>1, <1>6, <2>1 DEF SupervisorInv, UsageInv, CoversBut, produced, Dead
<1> QED BY <1>1, <1>3, <1>4, <1>6, <1>7, <1>8, ServedStep

LEMMA SettleGenerationKeeps ==
  ASSUME SupervisorInv, SettleGeneration
  PROVE  SupervisorInv'
<1>1. /\ stage = "interacting" /\ op.at = "settle" /\ op' = NoOp
      /\ UNCHANGED <<served, usage, spent, unanswered, outcomes>>
  BY DEF SettleGeneration, Serving
<1>2. PICK ok \in BOOLEAN : /\ PersistUsage(ok, usage)
                            /\ writer' = [writer EXCEPT !.complete = ok /\ op.complete]
  BY DEF SettleGeneration
<1>3. /\ usage \in Usage /\ spent \in Usage /\ outcomes' \in Nat
      /\ unanswered \in Nat /\ unanswered' \in Nat
      /\ writer = [next |-> writer.next, events |-> writer.events, complete |-> writer.complete]
      /\ writer.next \in Nat /\ writer.events \in SUBSET Nat /\ op.complete \in BOOLEAN
  BY <1>1 DEF SupervisorInv, TypeInv, Spools
<1>4. /\ writer' = [next |-> writer.next, events |-> writer.events, complete |-> ok /\ op.complete]
      /\ writer' \in [next : Nat, events : SUBSET Nat, complete : BOOLEAN]
  BY <1>2, <1>3
<1>5. op'.at = "none" /\ op' \in [at : AtOps, allowed : Nat, complete : BOOLEAN]
  BY <1>1 DEF NoOp, AtOps
<1>6. spool' \in Spools /\ uncovered' \in Nat
  BY <1>2, <1>3, PersistShape DEF SupervisorInv
<1>7. TraceInv'
  <2>1. op.complete => Whole /\ Ahead(0)
    BY <1>1 DEF SupervisorInv, TraceInv
  <2>2. writer'.complete => Whole' /\ Ahead(0)'
    BY <1>1, <1>4, <2>1 DEF Whole, Ahead
  <2>3. stage' = "interacting"
    BY <1>1 DEF served
  <2> QED BY <1>5, <2>2, <2>3 DEF TraceInv, Dead
<1>8. UsageInv'
  <2>1. /\ usage.generations >= spent.generations /\ usage.tools >= spent.tools
        /\ usage.tokens + unanswered = spent.tokens
        /\ CoversBut(RecoveredUsage(spool), spent, uncovered)
    BY <1>1 DEF SupervisorInv, UsageInv, Dead
  <2>2. CoversBut(usage, spent, unanswered)
    BY <1>3, <2>1 DEF CoversBut, Usage
  <2>3. CoversBut(RecoveredUsage(spool'), spent, uncovered')
    BY <1>2, <1>3, <2>1, <2>2, PersistCovers DEF SupervisorInv
  <2>4. stage' = "interacting"
    BY <1>1 DEF served
  <2> QED BY <1>1, <1>5, <2>1, <2>3, <2>4 DEF UsageInv, CoversBut, Dead
<1>9. usage' \in Usage /\ spent' \in Usage
  BY <1>1, <1>3
<1> QED BY <1>1, <1>3, <1>4, <1>5, <1>6, <1>7, <1>8, <1>9, ServedStep

LEMMA NoOpShape == NoOp.at = "none" /\ NoOp \in [at : AtOps, allowed : Nat, complete : BOOLEAN]
BY DEF NoOp, AtOps

LEMMA BeginToolKeeps ==
  ASSUME SupervisorInv, BeginTool
  PROVE  SupervisorInv'
<1>1. /\ stage = "interacting" /\ op.at = "none"
      /\ UNCHANGED <<served, writer, spent, unanswered, outcomes>>
      /\ usage' = [usage EXCEPT !.tools = @ + 1]
  BY DEF BeginTool, MayBegin, Serving
<1>2. PICK ok \in BOOLEAN : /\ PersistUsage(ok, usage')
                            /\ op' = IF ok THEN [NoOp EXCEPT !.at = "tool_call"] ELSE NoOp
  BY DEF BeginTool
<1>3. /\ usage = [generations |-> usage.generations, tools |-> usage.tools, tokens |-> usage.tokens]
      /\ usage.generations \in Nat /\ usage.tools \in Nat /\ usage.tokens \in Nat
      /\ spent \in Usage
      /\ spent.generations \in Nat /\ spent.tools \in Nat /\ spent.tokens \in Nat
      /\ outcomes' \in Nat /\ unanswered' \in Nat /\ unanswered \in Nat
      /\ writer' \in [next : Nat, events : SUBSET Nat, complete : BOOLEAN]
  BY <1>1 DEF SupervisorInv, TypeInv, Spools, Usage
<1>4. /\ usage' = [generations |-> usage.generations, tools |-> usage.tools + 1,
                   tokens |-> usage.tokens]
  BY <1>1, <1>3
<1>5. usage' \in Usage
  <2>1. usage.tools + 1 \in Nat
    BY <1>3
  <2> QED BY <1>3, <1>4, <2>1 DEF Usage
<1>6. /\ op' \in [at : AtOps, allowed : Nat, complete : BOOLEAN]
      /\ op'.at = IF ok THEN "tool_call" ELSE "none"
  BY <1>2 DEF NoOp, AtOps
<1>7. spool' \in Spools /\ uncovered' \in Nat
  BY <1>2, <1>5, PersistShape DEF SupervisorInv
<1>8. /\ usage.generations >= spent.generations /\ usage.tools >= spent.tools
      /\ usage.tokens + unanswered = spent.tokens
      /\ CoversBut(RecoveredUsage(spool), spent, uncovered)
  BY <1>1 DEF SupervisorInv, UsageInv, Dead
<1>9. \A v \in Usage : CoversBut(usage', v, unanswered)
                       /\ (ok \/ CoversBut(RecoveredUsage(spool), v, uncovered))
                       => CoversBut(RecoveredUsage(spool'), v, uncovered')
  BY <1>2, <1>5, PersistCovers DEF SupervisorInv
<1>10. TraceInv'
  BY <1>1, <1>6 DEF SupervisorInv, TraceInv, served, Dead, Whole, Ahead
<1>11. /\ usage'.generations >= spent'.generations /\ usage'.tools >= spent'.tools
       /\ usage'.tokens + unanswered' = spent'.tokens
  BY <1>1, <1>3, <1>4, <1>8
<1>12. CoversBut(RecoveredUsage(spool'), spent', uncovered')
  <2>1. CoversBut(usage', spent, unanswered)
    BY <1>3, <1>4, <1>8 DEF CoversBut
  <2>2. CoversBut(RecoveredUsage(spool'), spent, uncovered')
    BY <1>3, <1>8, <1>9, <2>1
  <2> QED BY <1>1, <2>2
<1>13. op'.at = "tool_call" => usage'.tools > spent'.tools /\ RecoveredUsage(spool').tools > spent'.tools
  <2> SUFFICES ASSUME op'.at = "tool_call"
               PROVE  usage'.tools > spent'.tools /\ RecoveredUsage(spool').tools > spent'.tools
    OBVIOUS
  <2>1. ok
    BY <1>6
  <2> DEFINE most == [generations |-> spent.generations, tools |-> spent.tools + 1,
                      tokens |-> spent.tokens]
  <2>2. most \in Usage
    <3>1. spent.tools + 1 \in Nat
      BY <1>3
    <3> QED BY <1>3, <3>1 DEF Usage
  <2>3. CoversBut(usage', most, unanswered)
    BY <1>3, <1>4, <1>8 DEF CoversBut
  <2>4. CoversBut(RecoveredUsage(spool'), most, uncovered')
    BY <1>9, <2>1, <2>2, <2>3
  <2>5. RecoveredUsage(spool').tools >= spent.tools + 1 /\ usage'.tools >= spent.tools + 1
    BY <2>3, <2>4 DEF CoversBut
  <2>6. RecoveredUsage(spool').tools \in Nat /\ usage'.tools \in Nat
    BY <1>5, <1>7, RecoveredType DEF Usage, Spools
  <2> QED BY <1>1, <1>3, <2>5, <2>6
<1>14. UsageInv'
  <2>1. stage' = "interacting" /\ op'.at # "model"
    BY <1>1, <1>6 DEF served
  <2> QED BY <2>1, <1>11, <1>12, <1>13 DEF UsageInv, Dead
<1>15. spent' \in Usage
  BY <1>1, <1>3
<1> QED BY <1>1, <1>3, <1>5, <1>6, <1>7, <1>10, <1>14, <1>15, ServedStep

LEMMA CallToolKeeps ==
  ASSUME SupervisorInv, CallTool
  PROVE  SupervisorInv'
<1>1. /\ stage = "interacting" /\ op.at = "tool_call"
      /\ UNCHANGED <<served, usage, unanswered, uncovered, outcomes>>
  BY DEF CallTool, Serving
<1>2. PICK ok \in BOOLEAN :
        /\ Record(ok, FALSE)
        /\ IF ok THEN /\ op' = [NoOp EXCEPT !.at = "tool", !.complete = writer.complete]
                      /\ spent' = [spent EXCEPT !.tools = @ + 1]
           ELSE op' = NoOp /\ UNCHANGED spent
  BY DEF CallTool
<1>3. /\ writer' \in [next : Nat, events : SUBSET Nat, complete : BOOLEAN]
      /\ spool' \in Spools
      /\ spool'.usage = spool.usage /\ ~writer'.complete
      /\ ok /\ Whole => Whole'
  <2>1. /\ writer' \in [next : Nat, events : SUBSET Nat, complete : BOOLEAN]
        /\ spool' \in Spools
        /\ spool'.usage = spool.usage
        /\ writer'.complete => ok /\ FALSE
        /\ ok /\ Whole => Whole'
    BY <1>2, RecordShape DEF SupervisorInv
  <2> QED BY <2>1
<1>4. /\ usage' \in Usage /\ outcomes' \in Nat /\ writer.complete \in BOOLEAN
      /\ outcomes \in Nat
      /\ spent \in Usage
      /\ spent = [generations |-> spent.generations, tools |-> spent.tools, tokens |-> spent.tokens]
      /\ spent.generations \in Nat /\ spent.tools \in Nat /\ spent.tokens \in Nat
      /\ usage.tools \in Nat /\ unanswered' \in Nat /\ uncovered' \in Nat
  BY <1>1 DEF SupervisorInv, TypeInv, Spools, Usage
<1>5. RecoveredUsage(spool') = RecoveredUsage(spool) /\ RecoveredUsage(spool).tools \in Nat
  BY <1>3, UsageStands DEF Usage
<1>6. /\ usage.generations >= spent.generations /\ usage.tools > spent.tools
      /\ usage.tokens + unanswered = spent.tokens
      /\ CoversBut(RecoveredUsage(spool), spent, uncovered) /\ RecoveredUsage(spool).tools > spent.tools
  BY <1>1 DEF SupervisorInv, UsageInv, Dead
<1>7. CASE ok
  <2>1. /\ op' = [at |-> "tool", allowed |-> 0, complete |-> writer.complete]
        /\ spent' = [generations |-> spent.generations, tools |-> spent.tools + 1,
                     tokens |-> spent.tokens]
    BY <1>2, <1>4, <1>7 DEF NoOp
  <2>2. op' \in [at : AtOps, allowed : Nat, complete : BOOLEAN]
    BY <1>4, <2>1 DEF AtOps
  <2>3. spent' \in Usage
    <3>1. spent.tools + 1 \in Nat
      BY <1>4
    <3> QED BY <1>4, <2>1, <3>1 DEF Usage
  <2>4. TraceInv'
    <3>1. writer.complete => Whole /\ Ahead(0)
      BY DEF SupervisorInv, TraceInv
    <3>2. Ahead(0) => Ahead(1)'
      BY <1>1, <1>4, <2>1, SupervisorAssumption DEF Ahead, Usage
    <3>3. stage' = "interacting"
      BY <1>1 DEF served
    <3> QED BY <1>3, <1>7, <2>1, <3>1, <3>2, <3>3 DEF TraceInv, Dead
  <2>5. UsageInv'
    <3>1. usage.tools >= spent.tools + 1 /\ RecoveredUsage(spool).tools >= spent.tools + 1
      BY <1>4, <1>5, <1>6
    <3>2. /\ usage'.generations >= spent'.generations /\ usage'.tools >= spent'.tools
          /\ usage'.tokens + unanswered' = spent'.tokens
      BY <1>1, <1>6, <2>1, <3>1
    <3>3. CoversBut(RecoveredUsage(spool'), spent', uncovered')
      BY <1>1, <1>5, <1>6, <2>1, <3>1 DEF CoversBut
    <3>4. stage' = "interacting"
      BY <1>1 DEF served
    <3> QED BY <2>1, <3>2, <3>3, <3>4 DEF UsageInv, Dead
  <2> QED BY <1>1, <1>3, <1>4, <2>2, <2>3, <2>4, <2>5, ServedStep
<1>8. CASE ~ok
  <2>1. op' = NoOp /\ spent' = spent
    BY <1>2, <1>8
  <2>2. TraceInv'
    BY <1>1, <1>3, <2>1, NoOpShape DEF TraceInv, Dead, served
  <2>3. UsageInv'
    <3>1. usage.tools >= spent.tools /\ stage' = "interacting"
      BY <1>1, <1>4, <1>6 DEF served
    <3> QED BY <1>1, <1>5, <1>6, <2>1, <3>1, NoOpShape DEF UsageInv, CoversBut, Dead
  <2> QED BY <1>1, <1>3, <1>4, <2>1, <2>2, <2>3, NoOpShape, ServedStep
<1> QED BY <1>7, <1>8

LEMMA ToolReturnsKeeps ==
  ASSUME SupervisorInv, ToolReturns
  PROVE  SupervisorInv'
<1>1. /\ stage = "interacting" /\ op.at = "tool" /\ op' = NoOp
      /\ UNCHANGED <<served, usage, produced>>
  BY DEF ToolReturns, Serving
<1>2. PICK ok \in BOOLEAN, valid \in BOOLEAN :
        /\ Record(ok, valid /\ op.complete)
        /\ outcomes' = IF ok THEN outcomes + 1 ELSE outcomes
  BY DEF ToolReturns
<1>3. /\ op.complete \in BOOLEAN /\ outcomes \in Nat /\ usage' \in Usage /\ spent' \in Usage
      /\ unanswered' \in Nat /\ uncovered' \in Nat
  BY <1>1 DEF SupervisorInv, TypeInv, Spools, produced
<1>4. /\ writer' \in [next : Nat, events : SUBSET Nat, complete : BOOLEAN]
      /\ spool' \in Spools
      /\ spool'.usage = spool.usage
      /\ writer'.complete => ok /\ (valid /\ op.complete)
      /\ ok /\ Whole => Whole'
  <2>1. (valid /\ op.complete) \in BOOLEAN
    OBVIOUS
  <2> QED BY <1>2, <2>1, RecordShape DEF SupervisorInv
<1>5. TraceInv'
  <2>1. op.complete => Whole /\ Ahead(1)
    BY <1>1 DEF SupervisorInv, TraceInv
  <2>2. ok /\ Ahead(1) => Ahead(0)'
    BY <1>1, <1>2, <1>3, SupervisorAssumption DEF Ahead, Usage, produced
  <2>3. writer'.complete => Whole' /\ Ahead(0)'
    BY <1>4, <2>1, <2>2
  <2>4. stage' = "interacting"
    BY <1>1 DEF served
  <2> QED BY <1>1, <2>3, <2>4, NoOpShape DEF TraceInv, Dead
<1>6. UsageInv'
  <2>1. RecoveredUsage(spool') = RecoveredUsage(spool) /\ stage' = stage
    BY <1>1, <1>4, UsageStands DEF served
  <2> QED BY <1>1, <2>1, NoOpShape DEF SupervisorInv, UsageInv, CoversBut, produced, Dead
<1>7. outcomes' \in Nat
  BY <1>2, <1>3
<1> QED BY <1>1, <1>3, <1>4, <1>5, <1>6, <1>7, NoOpShape, ServedStep

LEMMA AgentReturnsKeeps ==
  ASSUME SupervisorInv, AgentReturns
  PROVE  SupervisorInv'
<1>1. /\ stage = "interacting" /\ op.at = "none"
      /\ UNCHANGED <<world, budget, trace, answer, ending, history>>
      /\ \/ stage' = "finalizing" /\ fault' = fault
         \/ stage' = "failing" /\ fault' # "none"
  BY DEF AgentReturns, Serving, Goes, Fails, HostErrors
<1>2. TraceStep
  BY <1>1, TraceStands DEF SupervisorInv, trace
<1> QED BY <1>1, <1>2, RunStep DEF Running, Scoring

LEMMA InteractKeeps ==
  ASSUME SupervisorInv, Interact
  PROVE  SupervisorInv'
BY BeginGenerationKeeps, ModelFailsKeeps, ModelAnswersKeeps, RecordGenerationKeeps,
   SettleGenerationKeeps, BeginToolKeeps, CallToolKeeps, ToolReturnsKeeps, AgentReturnsKeeps
   DEF Interact

-----------------------------------------------------------------------------
(* execute, after the agent.                                               *)

\* A step of the end of an attempt: calls are over, what was spent is spent.
LEMMA TailStep ==
  ASSUME SupervisorInv, op.at = "none", stage \notin Dead, stage' \notin Dead,
         stage # "finished", TraceStep, UNCHANGED <<world, budget, result, history>>,
         completed' \in BOOLEAN, closed' \in [Hosts -> {"open", "ok", "failed"}],
         PhaseInv', CloseInv'
  PROVE  SupervisorInv'
<1>1. stage # "down" /\ stage' # "down"
  BY DEF Dead
<1>2. TypeInv'
  BY DEF SupervisorInv, TypeInv, Spools, TraceStep, world, budget, history
<1>3. TraceInv'
  BY DEF SupervisorInv, TraceInv, TraceStep, Ahead, budget, history
<1>4. UsageInv'
  <2>1. RecoveredUsage(spool') = RecoveredUsage(spool)
    BY UsageStands DEF TraceStep
  <2> QED BY <1>1, <2>1 DEF SupervisorInv, UsageInv, CoversBut, budget, history
<1>5. ResultInv'
  BY NoResultYet
<1> QED BY <1>2, <1>3, <1>4, <1>5 DEF SupervisorInv

LEMMA RecordKeepsTrace ==
  ASSUME SupervisorInv, NEW ok \in BOOLEAN, Record(ok, writer.complete)
  PROVE  TraceStep
<1>1. writer.complete \in BOOLEAN
  BY DEF SupervisorInv, TypeInv, Spools
<1> QED BY <1>1, TraceRecords DEF SupervisorInv

LEMMA FinalizedKeeps ==
  ASSUME SupervisorInv, Finalized
  PROVE  SupervisorInv'
<1>1. /\ stage = "finalized" /\ UNCHANGED <<world, budget, trace, score, ending, history>>
      /\ op.at = "none" /\ TraceStep
  <2>1. stage = "finalized" /\ UNCHANGED <<world, budget, trace, score, ending, history>>
    BY DEF Finalized
  <2> QED BY <2>1, Idle, TraceStands DEF SupervisorInv, trace
<1>2. fault = "none" /\ ~completed /\ score = "none"
  BY <1>1 DEF SupervisorInv, PhaseInv, Running
<1>3. CASE stage' = "failing" /\ fault' # "none" /\ UNCHANGED completed
  BY <1>1, <1>3, RunStep DEF Running, Scoring, answer
<1>4. CASE fault' = fault /\ stage' = (IF scored THEN "snapshot" ELSE "cleaning") /\ completed' = ~scored
  <2>1. PhaseInv'
    BY <1>1, <1>2, <1>4 DEF SupervisorInv, TypeInv, Spools, PhaseInv, Decided, Running, Scoring, Closing,
       Closed, Dead, Stages, world, budget, ending
  <2>2. CloseInv'
    BY <1>4 DEF CloseInv, Closed
  <2>3. /\ closed' \in [Hosts -> {"open", "ok", "failed"}] /\ completed' \in BOOLEAN
        /\ UNCHANGED result
    BY <1>1, <1>4 DEF SupervisorInv, TypeInv, Spools, ending
  <2>4. stage \notin Dead /\ stage' \notin Dead
    BY <1>1, <1>4 DEF Dead
  <2> QED BY <1>1, <2>1, <2>2, <2>3, <2>4, TailStep
<1>5. \/ stage' = "failing" /\ fault' # "none" /\ UNCHANGED completed
      \/ fault' = fault /\ stage' = (IF scored THEN "snapshot" ELSE "cleaning") /\ completed' = ~scored
  <2>1. CASE cancelled \/ Late("finalize") # "none"
    BY <2>1 DEF Finalized, Fails, Late
  <2>2. CASE ~(cancelled \/ Late("finalize") # "none")
    BY <2>2 DEF Finalized, Goes
  <2> QED BY <2>1, <2>2
<1> QED BY <1>3, <1>4, <1>5

LEMMA CheckpointKeeps ==
  ASSUME SupervisorInv, Checkpoint
  PROVE  SupervisorInv'
<1>1. PICK ok \in BOOLEAN :
        /\ writer' = [writer EXCEPT !.complete = @ /\ ok]
        /\ IF ok /\ Late("finalize") = "none" THEN Goes("score")
           ELSE Fails(IF ok THEN Late("finalize") ELSE "STORAGE_IO")
  BY DEF Checkpoint
<1>2. stage = "checkpoint" /\ UNCHANGED <<world, budget, spool, answer, ending, history>>
  BY DEF Checkpoint
<1>3. TraceStep
  <2>1. writer = [next |-> writer.next, events |-> writer.events, complete |-> writer.complete]
        /\ writer.complete \in BOOLEAN
    BY DEF SupervisorInv, TypeInv, Spools
  <2>2. writer' = [writer EXCEPT !.complete = writer.complete /\ ok]
    BY <1>1, <2>1
  <2>3. (writer.complete /\ ok) \in BOOLEAN
    OBVIOUS
  <2> QED BY <1>2, <2>2, <2>3, TraceMarked DEF SupervisorInv
<1>4. \/ stage' = "score" /\ fault' = fault
      \/ stage' = "failing" /\ fault' # "none"
  BY <1>1 DEF Goes, Fails, Late
<1> QED BY <1>2, <1>3, <1>4, Idle, RunStep DEF Running, Scoring

LEMMA ScoreKeeps ==
  ASSUME SupervisorInv, Score
  PROVE  SupervisorInv'
<1>1. /\ stage = "score" /\ stage' = "scored" /\ fault' = fault /\ score' # "none"
      /\ UNCHANGED <<world, budget, trace, completed, ending, history>>
  BY DEF Score, Goes
<1>2. TraceStep /\ op.at = "none"
  BY <1>1, Idle, TraceStands DEF SupervisorInv, trace
<1>3. PhaseInv'
  BY <1>1 DEF SupervisorInv, PhaseInv, Decided, Running, Scoring, Closing, Closed, Dead, Stages,
              world, budget, ending
<1>4. CloseInv'
  BY <1>1 DEF CloseInv, Closed
<1>5. closed' \in [Hosts -> {"open", "ok", "failed"}] /\ completed' \in BOOLEAN /\ UNCHANGED result
  BY <1>1 DEF SupervisorInv, TypeInv, Spools, ending
<1> QED BY <1>1, <1>2, <1>3, <1>4, <1>5, TailStep DEF Dead

LEMMA RecordScoreKeeps ==
  ASSUME SupervisorInv, RecordScore
  PROVE  SupervisorInv'
<1>1. /\ stage = "scored" /\ completed' = TRUE
      /\ UNCHANGED <<world, budget, score, ending, history>>
      /\ \/ score = "ok" /\ stage' = "cleaning" /\ fault' = fault
         \/ score # "ok" /\ stage' = "failing" /\ fault' = score
  BY DEF RecordScore, Goes, Fails
<1>2. TraceStep
  <2>1. PICK ok \in BOOLEAN : Record(ok, writer.complete)
    BY DEF RecordScore
  <2> QED BY <2>1, RecordKeepsTrace
<1>3. score # "none"
  BY <1>1 DEF SupervisorInv, PhaseInv
<1>4. PhaseInv'
  BY <1>1, <1>3 DEF SupervisorInv, PhaseInv, Decided, Running, Scoring, Closing, Closed, Dead, Stages,
                    world, budget, ending
<1>5. CloseInv'
  BY <1>1 DEF CloseInv, Closed
<1>6. closed' \in [Hosts -> {"open", "ok", "failed"}] /\ completed' \in BOOLEAN /\ UNCHANGED result
  BY <1>1 DEF SupervisorInv, TypeInv, Spools, ending
<1> QED BY <1>1, <1>2, <1>4, <1>5, <1>6, Idle, TailStep DEF Dead

LEMMA FinalizeKeeps ==
  ASSUME SupervisorInv, Finalize
  PROVE  SupervisorInv'
<1>1. CASE Phase("finalizing", "freeze_tools")
  BY <1>1, PhaseKeeps DEF Running, Scoring
<1>2. CASE Call("freeze_tools", "finalize", FALSE, "freeze_backend")
  BY <1>2, CallKeeps DEF Running, Scoring
<1>3. CASE Call("freeze_backend", "finalize", FALSE, "finalized")
  BY <1>3, CallKeeps DEF Running, Scoring
<1>4. CASE Call("snapshot", "finalize", TRUE, "scoring")
  BY <1>4, CallKeeps DEF Running, Scoring
<1>5. CASE Phase("scoring", "checkpoint")
  BY <1>5, PhaseKeeps DEF Running, Scoring
<1> QED BY <1>1, <1>2, <1>3, <1>4, <1>5, FinalizedKeeps, CheckpointKeeps, ScoreKeeps,
           RecordScoreKeeps DEF Finalize

-----------------------------------------------------------------------------
(* execute, the end of every attempt.                                      *)

LEMMA LogKeeps ==
  ASSUME SupervisorInv, NEW at, NEW next, Log(at, next),
         \/ at = "failing" /\ next = "cleaning"
         \/ at = "cleaning" /\ next = (IF scored THEN "close_scorer" ELSE "close_agent")
         \/ at = "terminal" /\ next = "seal"
  PROVE  SupervisorInv'
<1>1. /\ stage = at /\ stage' = next /\ fault' = fault
      /\ UNCHANGED <<world, budget, answer, ending, history>>
  BY DEF Log, Goes
<1>2. TraceStep
  <2>1. PICK ok \in BOOLEAN : Record(ok, writer.complete)
    BY DEF Log
  <2> QED BY <2>1, RecordKeepsTrace
<1>3. PhaseInv'
  BY <1>1 DEF SupervisorInv, PhaseInv, Decided, Running, Scoring, Closing, Closed, Dead, Stages,
              world, budget, answer, ending
<1>4. CloseInv'
  BY <1>1 DEF SupervisorInv, CloseInv, Closed, Past, Given, world, ending
<1>5. closed' \in [Hosts -> {"open", "ok", "failed"}] /\ completed' \in BOOLEAN /\ UNCHANGED result
  BY <1>1 DEF SupervisorInv, TypeInv, Spools, answer, ending
<1>6. op.at = "none" /\ stage \notin Dead /\ stage' \notin Dead /\ stage # "finished"
  BY <1>1, Idle DEF Dead
<1> QED BY <1>1, <1>2, <1>3, <1>4, <1>5, <1>6, TailStep

\* The hosts and where the closing goes after each.
ClosingOrder == {<<"close_scorer", "scorer", "close_agent">>,
                 <<"close_agent", "agent", "close_tools">>,
                 <<"close_tools", "tools", "close_environment">>,
                 <<"close_environment", "environment", "close_backend">>,
                 <<"close_backend", "backend", "conclude">>}

LEMMA CloseHostKeeps ==
  ASSUME SupervisorInv, NEW at, NEW host, NEW next, <<at, host, next>> \in ClosingOrder,
         CloseHost(at, host, next)
  PROVE  SupervisorInv'
<1>1. /\ stage = at /\ stage' = next /\ fault' = fault
      /\ UNCHANGED <<world, budget, trace, answer, cleanup, result, history>>
  BY DEF CloseHost, Goes
<1>2. PICK end \in {"ok", "failed"} : closed' = [closed EXCEPT ![host] = end]
  BY DEF CloseHost
<1>3. closed \in [Hosts -> {"open", "ok", "failed"}] /\ completed' \in BOOLEAN
  BY <1>1 DEF SupervisorInv, TypeInv, Spools, answer
<1>4. host \in Hosts
  BY DEF ClosingOrder, Hosts
<1>5. /\ closed' \in [Hosts -> {"open", "ok", "failed"}]
      /\ Past(host)'
      /\ \A h \in Hosts : Past(h) => Past(h)'
  BY <1>2, <1>3, <1>4 DEF Past
<1>6. PhaseInv'
  BY <1>1 DEF SupervisorInv, PhaseInv, Decided, Running, Scoring, Closing, Closed, Dead, Stages,
              ClosingOrder, world, budget, answer
<1>7. CloseInv'
  <2>1. /\ Past("scorer") => Past("scorer")'
        /\ Past("agent") => Past("agent")'
        /\ Past("tools") => Past("tools")'
        /\ Past("environment") => Past("environment")'
        /\ Past("backend") => Past("backend")'
    BY <1>5 DEF Hosts
  <2>2. scored' = scored
    BY <1>1 DEF world
  <2> HIDE DEF Past
  <2> QED BY <1>1, <1>5, <2>1, <2>2 DEF SupervisorInv, CloseInv, Closed, ClosingOrder
<1>8. op.at = "none" /\ stage \notin Dead /\ stage' \notin Dead /\ stage # "finished"
  BY <1>1, Idle DEF Dead, ClosingOrder
<1>9. TraceStep
  BY <1>1, TraceStands DEF SupervisorInv, trace
<1> QED BY <1>1, <1>3, <1>5, <1>6, <1>7, <1>8, <1>9, TailStep

LEMMA ConcludeKeeps ==
  ASSUME SupervisorInv, Conclude
  PROVE  SupervisorInv'
<1>1. /\ stage = "conclude" /\ stage' = "terminal" /\ fault' = fault
      /\ UNCHANGED <<world, budget, answer, closed, result, history>>
      /\ cleanup' = (IF \A h \in Given : closed[h] = "ok" THEN "completed" ELSE "failed")
  BY DEF Conclude, Goes
<1>2. TraceStep
  <2>1. CASE UNCHANGED trace
    BY <2>1, TraceStands DEF SupervisorInv, trace
  <2>2. CASE \E ok \in BOOLEAN : Record(ok, writer.complete)
    BY <2>2, RecordKeepsTrace
  <2> QED BY <2>1, <2>2 DEF Conclude
<1>3. PhaseInv'
  BY <1>1 DEF SupervisorInv, PhaseInv, Decided, Running, Scoring, Closing, Closed, Dead, Stages,
              world, budget, answer
<1>4. CloseInv'
  <2>1. /\ scored => Past("scorer")
        /\ Past("agent") /\ Past("tools") /\ Past("environment") /\ Past("backend")
    BY <1>1 DEF SupervisorInv, CloseInv, Closed
  <2>2. scored' = scored /\ closed' = closed
    BY <1>1 DEF world
  <2>3. (scored' => Past("scorer")')
        /\ Past("agent")' /\ Past("tools")' /\ Past("environment")' /\ Past("backend")'
    BY <2>1, <2>2 DEF Past
  <2>4. cleanup' = "completed" <=> (\A h \in Given : closed[h] = "ok")'
    BY <1>1, <2>2 DEF Given
  <2> QED BY <1>1, <2>3, <2>4 DEF CloseInv, Closed
<1>5. closed' \in [Hosts -> {"open", "ok", "failed"}] /\ completed' \in BOOLEAN
  BY <1>1 DEF SupervisorInv, TypeInv, Spools, answer
<1> QED BY <1>1, <1>2, <1>3, <1>4, <1>5, Idle, TailStep DEF Dead

LEMMA CleanupKeeps ==
  ASSUME SupervisorInv, Cleanup
  PROVE  SupervisorInv'
<1>1. CASE Log("failing", "cleaning")
  BY <1>1, LogKeeps
<1>2. CASE Log("cleaning", IF scored THEN "close_scorer" ELSE "close_agent")
  BY <1>2, LogKeeps
<1>3. CASE CloseHost("close_scorer", "scorer", "close_agent")
  BY <1>3, CloseHostKeeps DEF ClosingOrder
<1>4. CASE CloseHost("close_agent", "agent", "close_tools")
  BY <1>4, CloseHostKeeps DEF ClosingOrder
<1>5. CASE CloseHost("close_tools", "tools", "close_environment")
  BY <1>5, CloseHostKeeps DEF ClosingOrder
<1>6. CASE CloseHost("close_environment", "environment", "close_backend")
  BY <1>6, CloseHostKeeps DEF ClosingOrder
<1>7. CASE CloseHost("close_backend", "backend", "conclude")
  BY <1>7, CloseHostKeeps DEF ClosingOrder
<1> QED BY <1>1, <1>2, <1>3, <1>4, <1>5, <1>6, <1>7, ConcludeKeeps DEF Cleanup

LEMMA SealKeeps ==
  ASSUME SupervisorInv, Seal
  PROVE  SupervisorInv'
<1>1. /\ stage = "seal" /\ stage' \in {"finish", "stuck"} /\ fault' = fault
      /\ UNCHANGED <<world, budget, writer, spool, answer, ending, history>>
  BY DEF Seal, Goes, GivesUp
<1>2. TraceStep
  BY <1>1, TraceStands DEF SupervisorInv
<1>3. PhaseInv'
  BY <1>1 DEF SupervisorInv, PhaseInv, Decided, Running, Scoring, Closing, Closed, Dead, Stages,
              world, budget, answer, ending
<1>4. CloseInv'
  BY <1>1 DEF SupervisorInv, CloseInv, Closed, Past, Given, world, ending
<1>5. closed' \in [Hosts -> {"open", "ok", "failed"}] /\ completed' \in BOOLEAN /\ UNCHANGED result
  BY <1>1 DEF SupervisorInv, TypeInv, Spools, answer, ending
<1> QED BY <1>1, <1>2, <1>3, <1>4, <1>5, Idle, TailStep DEF Dead

\* A result of execute that is decided is one the plan accepts.
LEMMA DecidedIsAccepted ==
  ASSUME SupervisorInv, stage = "finish"
  PROVE  /\ Accepted(ExecuteResult)
         /\ ExecuteResult.status = "completed" <=> ExecuteResult.error = "none"
         /\ ExecuteResult.status = "completed" =>
              ExecuteResult.answer /\ (scored <=> ExecuteResult.score = "ok")
<1>1. (fault = "none" => completed /\ (scored => score = "ok")) /\ (score # "none" => scored)
  BY DEF SupervisorInv, PhaseInv, Decided, Closed
<1>2. /\ ExecuteResult.status = ExecutionStatus /\ ExecuteResult.error = fault
      /\ ExecuteResult.answer = completed /\ ExecuteResult.score = score
  BY DEF ExecuteResult
<1>3. ExecutionStatus = "completed" <=> fault = "none"
  BY DEF ExecutionStatus
<1> QED BY <1>1, <1>2, <1>3 DEF Accepted

LEMMA FinishKeeps ==
  ASSUME SupervisorInv, Finish
  PROVE  SupervisorInv'
<1>1. /\ stage = "finish" /\ UNCHANGED <<world, budget, trace, answer, closed, cleanup, history>>
      /\ fault' = fault /\ op.at = "none"
  BY Idle DEF Finish, Goes, GivesUp
<1>2. Accepted(ExecuteResult)
  BY <1>1, DecidedIsAccepted
<1>3. CASE result' = ExecuteResult /\ stage' = "finished"
  <2>1. /\ result'.by = "execute" /\ result'.status = ExecuteResult.status
        /\ result'.error = ExecuteResult.error /\ result'.answer = ExecuteResult.answer
        /\ result'.score = ExecuteResult.score /\ result'.cleanup = cleanup
        /\ result'.events = writer.events /\ result'.usage = usage
        /\ result'.trajectory = (IF writer.complete THEN "final_complete" ELSE "final_partial")
    BY <1>3 DEF ExecuteResult
  <2>2. TypeInv'
    BY <1>1 DEF SupervisorInv, TypeInv, Spools, world, budget, trace, answer, history
  <2>3. PhaseInv'
    BY <1>1, <1>3, <2>1 DEF SupervisorInv, PhaseInv, Running, Scoring, Closing, Closed, Dead, Stages,
                            world, budget, answer
  <2>4. CloseInv'
    BY <1>3 DEF CloseInv, Closed
  <2>5. TraceInv'
    BY <1>1, <1>3 DEF SupervisorInv, TraceInv, Whole, Ahead, Dead, budget, trace, history
  <2>6. UsageInv'
    BY <1>1, <1>3, UsageStands DEF SupervisorInv, UsageInv, CoversBut, budget, trace, history, Dead
  <2>7. NothingIsRefused'
    BY <1>3 DEF NothingIsRefused
  <2>8. CleanupIsTold'
    <3>1. /\ scored => Past("scorer")
          /\ Past("agent") /\ Past("tools") /\ Past("environment") /\ Past("backend")
          /\ cleanup = "completed" <=> \A h \in Given : closed[h] = "ok"
      BY <1>1 DEF SupervisorInv, CloseInv, Closed
    <3>2. \A h \in Given : closed[h] # "open"
      BY <3>1 DEF Given, Hosts, Past
    <3>3. Given' = Given /\ closed' = closed
      BY <1>1 DEF Given, world
    <3> QED BY <2>1, <3>1, <3>2, <3>3 DEF CleanupIsTold
  <2>9. CompleteTraceIsWhole'
    <3>1. writer.complete => Whole /\ Ahead(0)
      BY DEF SupervisorInv, TraceInv
    <3>2. Ahead(0) => spent.generations + spent.tools
                      = Consumed.generations + Consumed.tools + outcomes
      BY SupervisorAssumption DEF Ahead, SupervisorInv, TypeInv, Spools, Usage
    <3>3. writer' = writer /\ spent' = spent /\ outcomes' = outcomes
      BY <1>1 DEF trace, history
    <3>4. result'.trajectory = "final_complete" => writer.complete
      BY <2>1
    <3> QED BY <2>1, <3>1, <3>2, <3>3, <3>4 DEF CompleteTraceIsWhole, Whole
  <2>10. /\ result'.status = "completed" <=> result'.error = "none"
         /\ result'.status = "completed" => result'.answer /\ (scored' <=> result'.score = "ok")
    BY <1>1, <2>1, DecidedIsAccepted DEF world
  <2>11. UsageIsConservative'
    <3>1. /\ usage.generations >= spent.generations /\ usage.tools >= spent.tools
          /\ usage.tokens + unanswered = spent.tokens
      BY <1>1 DEF SupervisorInv, UsageInv, Dead
    <3> QED BY <1>1, <2>1, <3>1 DEF UsageIsConservative, history
  <2>12. ResultInv'
    BY <2>7, <2>8, <2>9, <2>10, <2>11 DEF ResultInv, ResultIsHonest
  <2> QED BY <2>2, <2>3, <2>4, <2>5, <2>6, <2>12 DEF SupervisorInv
<1>4. CASE stage' = "stuck" /\ UNCHANGED result
  <2>1. UNCHANGED fixed
    BY <1>1, <1>4 DEF fixed, world, budget, answer, ending
  <2>2. PhaseInv' /\ CloseInv'
    BY <1>1, <1>4, <2>1, StuckArc
  <2>3. TraceStep
    BY <1>1, TraceStands DEF SupervisorInv, trace
  <2>4. closed' \in [Hosts -> {"open", "ok", "failed"}] /\ completed' \in BOOLEAN
    BY <1>1 DEF SupervisorInv, TypeInv, Spools, answer
  <2> QED BY <1>1, <1>4, <2>2, <2>3, <2>4, TailStep DEF Dead
<1>5. \/ result' = ExecuteResult /\ stage' = "finished"
      \/ stage' = "stuck" /\ UNCHANGED result
  BY <1>2 DEF Finish, Goes, GivesUp
<1> QED BY <1>3, <1>4, <1>5

LEMMA ConclusionKeeps ==
  ASSUME SupervisorInv, Conclusion
  PROVE  SupervisorInv'
<1>1. CASE Log("terminal", "seal")
  BY <1>1, LogKeeps
<1> QED BY <1>1, SealKeeps, FinishKeeps DEF Conclusion

-----------------------------------------------------------------------------
(* The Worker dies, and recover_interrupted.                               *)

LEMMA CrashKeeps ==
  ASSUME SupervisorInv, Crash
  PROVE  SupervisorInv'
<1>1. /\ stage # "finished" /\ stage # "down" /\ stage' = "down" /\ fault' = "WORKER_RESTART"
      /\ usage' = Consumed /\ op' = NoOp /\ writer' = [NewWriter EXCEPT !.complete = FALSE]
      /\ score' = "none" /\ completed' = FALSE /\ closed' = [h \in Hosts |-> "open"]
      /\ UNCHANGED <<world, spool, result, unanswered, outcomes>>
  BY DEF Crash
<1>2. /\ spent' \in Usage /\ uncovered' \in Nat
      /\ CoversBut(RecoveredUsage(spool), spent', uncovered')
  <2>1. CASE op.at = "model"
    <3>1. PICK tokens \in 0..TokenBound : Produces(tokens)
      BY <2>1 DEF Crash
    <3> QED BY <2>1, <3>1, ProducesShape
  <2>2. CASE op.at # "model"
    <3>1. UNCHANGED <<spent, uncovered>>
      BY <2>2 DEF Crash
    <3> QED BY <3>1 DEF SupervisorInv, TypeInv, UsageInv
  <2> QED BY <2>1, <2>2
<1>3. /\ writer' = [next |-> 0, events |-> {}, complete |-> FALSE]
      /\ writer' \in [next : Nat, events : SUBSET Nat, complete : BOOLEAN]
  BY <1>1 DEF NewWriter
<1>4. TypeInv'
  <2>1. closed' \in [Hosts -> {"open", "ok", "failed"}]
    BY <1>1
  <2> QED BY <1>1, <1>2, <1>3, <2>1, NoOpShape, SupervisorAssumption
          DEF SupervisorInv, TypeInv, Spools, world
<1>5. PhaseInv'
  BY <1>1, NoOpShape DEF SupervisorInv, PhaseInv, Running, Scoring, Closing, Closed, Dead, Stages, world
<1>6. CloseInv'
  BY <1>1 DEF CloseInv, Closed
<1>7. TraceInv'
  BY <1>1, <1>3, NoOpShape DEF TraceInv
<1>8. UsageInv'
  <2>1. RecoveredUsage(spool') = RecoveredUsage(spool)
    BY <1>1
  <2> QED BY <1>1, <1>2, <2>1, NoOpShape DEF UsageInv, Dead
<1>9. ResultInv'
  BY <1>1, <1>5, NoResultYet
<1> QED BY <1>4, <1>5, <1>6, <1>7, <1>8, <1>9 DEF SupervisorInv

LEMMA RecoverKeeps ==
  ASSUME SupervisorInv, Recover
  PROVE  SupervisorInv'
<1>1. /\ stage = "down" /\ stage' = "recovered" /\ fault' = fault
      /\ usage' = RecoveredUsage(spool)
      /\ writer' = [next |-> NextFree(spool), events |-> spool.events, complete |-> FALSE]
      /\ UNCHANGED <<world, op, spool, faults, answer, closed, result, history>>
      /\ op.at = "none"
  <2>1. stage = "down"
    BY DEF Recover
  <2>2. op.at = "none"
    BY <2>1, Idle
  <2> QED BY <2>2 DEF Recover, Goes
<1>2. PICK b \in Nat : \A k \in spool.reserved \cup spool.events : k < b
  BY DEF SupervisorInv, TypeInv, Spools
<1>3. /\ spool.reserved \in SUBSET Nat /\ spool.events \in SUBSET Nat /\ spool.usage \in Seq(Usage)
  BY DEF SupervisorInv, TypeInv, Spools
<1>4. NextFree(spool) \in Nat
  BY <1>2, <1>3, NextFreeIsFree
<1>5. RecoveredUsage(spool) \in Usage
  BY <1>3, RecoveredType
<1>6. TypeInv'
  BY <1>1, <1>3, <1>4, <1>5 DEF SupervisorInv, TypeInv, world, answer, history
<1>7. PhaseInv'
  BY <1>1 DEF SupervisorInv, PhaseInv, Decided, Running, Scoring, Closing, Closed, Dead, Stages,
              world, answer
<1>8. CloseInv'
  BY <1>1 DEF CloseInv, Closed
<1>9. TraceInv'
  BY <1>1 DEF TraceInv
<1>10. UsageInv'
  <2>1. CoversBut(RecoveredUsage(spool), spent, uncovered)
    BY DEF SupervisorInv, UsageInv
  <2>2. RecoveredUsage(spool') = RecoveredUsage(spool)
    BY <1>1
  <2>3. spent' = spent /\ uncovered' = uncovered
    BY <1>1 DEF history
  <2> QED BY <1>1, <2>1, <2>2, <2>3 DEF UsageInv, CoversBut, Dead
<1>11. ResultInv'
  BY <1>1, <1>7, NoResultYet
<1> QED BY <1>6, <1>7, <1>8, <1>9, <1>10, <1>11 DEF SupervisorInv

\* A step of the recovery that goes on, or starts anew.
LEMMA RecoveryArc ==
  ASSUME SupervisorInv, stage \in Dead, stage # "down", stage' \in Dead, fault' = fault,
         writer' \in [next : Nat, events : SUBSET Nat, complete : BOOLEAN], ~writer'.complete,
         spool' \in Spools, spool'.usage = spool.usage,
         UNCHANGED <<world, budget, answer, closed, result, history>>
  PROVE  SupervisorInv'
<1>1. op.at = "none" /\ stage # "finished"
  BY Idle DEF Dead
<1>2. TypeInv'
  BY DEF SupervisorInv, TypeInv, world, budget, answer, history
<1>3. PhaseInv'
  BY <1>1 DEF SupervisorInv, PhaseInv, Decided, Running, Scoring, Closing, Closed, Dead, Stages,
              world, budget, answer
<1>4. CloseInv'
  BY DEF CloseInv, Closed, Dead
<1>5. TraceInv'
  BY <1>1 DEF TraceInv, budget
<1>6. UsageInv'
  <2>1. RecoveredUsage(spool') = RecoveredUsage(spool)
    BY UsageStands
  <2> QED BY <1>1, <2>1 DEF SupervisorInv, UsageInv, CoversBut, budget, history, Dead
<1>7. ResultInv'
  BY <1>1, <1>3, NoResultYet
<1> QED BY <1>2, <1>3, <1>4, <1>5, <1>6, <1>7 DEF SupervisorInv

LEMMA RecoveryStepKeeps ==
  ASSUME SupervisorInv, NEW at \in Dead \ {"down"}, NEW next \in Dead, RecoveryStep(at, next)
  PROVE  SupervisorInv'
<1>1. PICK ok \in BOOLEAN : Record(ok, FALSE) /\ stage' = IF ok THEN next ELSE "down"
  BY DEF RecoveryStep
<1>2. stage = at /\ fault' = fault /\ UNCHANGED <<world, budget, answer, ending, history>>
  BY DEF RecoveryStep
<1>3. /\ writer' \in [next : Nat, events : SUBSET Nat, complete : BOOLEAN]
      /\ spool' \in Spools
      /\ spool'.usage = spool.usage
      /\ writer'.complete => ok /\ FALSE
  BY <1>1, RecordShape DEF SupervisorInv
<1>4. stage' \in Dead
  BY <1>1 DEF Dead
<1> QED BY <1>2, <1>3, <1>4, RecoveryArc DEF ending

LEMMA RecoverySealKeeps ==
  ASSUME SupervisorInv, RecoverySeal
  PROVE  SupervisorInv'
<1>1. /\ stage = "recovery_seal" /\ fault' = fault /\ stage' \in {"recovery_finish", "down"}
      /\ UNCHANGED <<world, budget, writer, spool, answer, ending, history>>
  BY DEF RecoverySeal
<1>2. /\ writer' \in [next : Nat, events : SUBSET Nat, complete : BOOLEAN]
      /\ spool' \in Spools /\ ~writer'.complete
  BY <1>1 DEF SupervisorInv, TypeInv, TraceInv, Dead
<1> QED BY <1>1, <1>2, RecoveryArc DEF Dead, ending

LEMMA RecoveryFinishKeeps ==
  ASSUME SupervisorInv, RecoveryFinish
  PROVE  SupervisorInv'
<1>1. /\ stage = "recovery_finish" /\ fault' = fault /\ op.at = "none" /\ stage # "finished"
      /\ UNCHANGED <<world, budget, writer, spool, answer, closed, cleanup, history>>
  <2>1. stage = "recovery_finish"
    BY DEF RecoveryFinish
  <2>2. op.at = "none"
    BY <2>1, Idle
  <2> QED BY <2>1, <2>2 DEF RecoveryFinish
<1>2. CASE stage' = "down" /\ UNCHANGED result
  <2>1. /\ writer' \in [next : Nat, events : SUBSET Nat, complete : BOOLEAN]
        /\ spool' \in Spools /\ ~writer'.complete
    BY <1>1 DEF SupervisorInv, TypeInv, TraceInv, Dead
  <2> QED BY <1>1, <1>2, <2>1, RecoveryArc DEF Dead
<1>3. CASE result' = RecoveryResult /\ stage' = "finished"
  <2>1. /\ result'.by = "recovery" /\ result'.status = "failed" /\ result'.error = fault
        /\ result'.trajectory = "final_partial" /\ result'.usage = usage
    BY <1>3 DEF RecoveryResult
  <2>2. TypeInv'
    BY <1>1 DEF SupervisorInv, TypeInv, world, budget, answer, history
  <2>3. PhaseInv'
    BY <1>1, <1>3, <2>1 DEF SupervisorInv, PhaseInv, Running, Scoring, Closing, Closed, Dead, Stages,
                            world, budget, answer
  <2>4. CloseInv'
    BY <1>3 DEF CloseInv, Closed
  <2>5. TraceInv'
    BY <1>1, <1>3 DEF SupervisorInv, TraceInv, Whole, Ahead, Dead, budget, history
  <2>6. UsageInv'
    BY <1>1, <1>3, UsageStands DEF SupervisorInv, UsageInv, CoversBut, budget, history, Dead
  <2>7. ResultIsHonest'
    <3>1. fault # "none"
      BY <1>1 DEF SupervisorInv, PhaseInv, Dead
    <3> QED BY <1>1, <1>3, <2>1, <3>1 DEF ResultIsHonest, NothingIsRefused, CleanupIsTold,
                                          CompleteTraceIsWhole
  <2>8. UsageIsConservative'
    <3>1. CoversBut(usage, spent, uncovered)
      BY <1>1 DEF SupervisorInv, UsageInv, Dead
    <3> QED BY <1>1, <2>1, <3>1 DEF UsageIsConservative, CoversBut, history
  <2> QED BY <2>2, <2>3, <2>4, <2>5, <2>6, <2>7, <2>8 DEF SupervisorInv, ResultInv
<1> QED BY <1>2, <1>3 DEF RecoveryFinish

LEMMA RecoveryKeeps ==
  ASSUME SupervisorInv, Recovery
  PROVE  SupervisorInv'
<1>1. CASE RecoveryStep("recovered", "recovery_error")
  BY <1>1, RecoveryStepKeeps DEF Dead
<1>2. CASE RecoveryStep("recovery_error", "recovery_seal")
  BY <1>2, RecoveryStepKeeps DEF Dead
<1> QED BY <1>1, <1>2, CrashKeeps, RecoverKeeps, RecoverySealKeeps, RecoveryFinishKeeps DEF Recovery

-----------------------------------------------------------------------------
(* The flag and the clock, and steps of others.                            *)

LEMMA OthersKeep ==
  ASSUME SupervisorInv,
         UNCHANGED <<stage, scored, budget, trace, fault, answer, ending, history>>
  PROVE  SupervisorInv'
<1>1. TypeInv'
  BY DEF SupervisorInv, TypeInv, budget, trace, answer, ending, history
<1>2. PhaseInv'
  BY DEF SupervisorInv, PhaseInv, Decided, budget, answer, ending
<1>3. CloseInv'
  BY DEF SupervisorInv, CloseInv, Closed, Past, Given, ending
<1>4. TraceInv'
  BY DEF SupervisorInv, TraceInv, Whole, Ahead, budget, trace, history
<1>5. UsageInv'
  BY UsageStands DEF SupervisorInv, UsageInv, CoversBut, budget, trace, history
<1>6. ResultInv'
  BY DEF SupervisorInv, ResultInv, ResultIsHonest, NothingIsRefused, CleanupIsTold, Given,
         CompleteTraceIsWhole, UsageIsConservative, trace, ending, history
<1> QED BY <1>1, <1>2, <1>3, <1>4, <1>5, <1>6 DEF SupervisorInv

LEMMA InitHolds == Init => SupervisorInv
<1> SUFFICES ASSUME Init PROVE SupervisorInv
  OBVIOUS
<1>1. /\ stage = "admit" /\ scored \in BOOLEAN /\ usage = Consumed /\ op = NoOp
      /\ writer = NewWriter /\ spool = [reserved |-> {}, events |-> {}, usage |-> <<>>]
      /\ fault = "none" /\ score = "none" /\ completed = FALSE
      /\ closed = [h \in Hosts |-> "open"] /\ result = NoResult
      /\ spent = Consumed /\ unanswered = 0 /\ uncovered = 0 /\ outcomes = 0
  BY DEF Init
<1>2. /\ Consumed \in Usage
      /\ Consumed.generations \in Nat /\ Consumed.tools \in Nat /\ Consumed.tokens \in Nat
  BY SupervisorAssumption DEF Usage
<1>3. writer = [next |-> 0, events |-> {}, complete |-> TRUE]
  BY <1>1 DEF NewWriter
<1>4. TypeInv
  <2>1. spool \in Spools
    <3>1. /\ spool = [reserved |-> spool.reserved, events |-> spool.events, usage |-> spool.usage]
          /\ spool.reserved \in SUBSET Nat /\ spool.events \in SUBSET Nat
          /\ spool.usage \in Seq(Usage) /\ spool.reserved \cup spool.events = {}
      BY <1>1
    <3> QED BY <3>1, SpoolShape
  <2>2. closed \in [Hosts -> {"open", "ok", "failed"}]
    BY <1>1
  <2>3. writer \in [next : Nat, events : SUBSET Nat, complete : BOOLEAN]
    BY <1>3
  <2>4. op \in [at : AtOps, allowed : Nat, complete : BOOLEAN]
    BY <1>1, NoOpShape
  <2>5. completed \in BOOLEAN /\ outcomes \in Nat /\ unanswered \in Nat /\ uncovered \in Nat
    BY <1>1
  <2> QED BY <1>1, <1>2, <2>1, <2>2, <2>3, <2>4, <2>5 DEF TypeInv
<1>5. PhaseInv
  BY <1>1, NoOpShape DEF PhaseInv, Running, Scoring, Closing, Closed, Dead, Stages, NoResult
<1>6. CloseInv
  BY <1>1 DEF CloseInv, Closed
<1>7. TraceInv
  <2>1. Whole
    BY <1>3 DEF Whole
  <2>2. Ahead(0)
    BY <1>1, <1>2 DEF Ahead
  <2> QED BY <1>1, <2>1, <2>2, NoOpShape DEF TraceInv, Dead
<1>8. UsageInv
  <2>1. RecoveredUsage(spool) = [generations |-> Larger(Consumed.generations, Consumed.generations),
                                 tools |-> Larger(Consumed.tools, Consumed.tools),
                                 tokens |-> Larger(Consumed.tokens, Consumed.tokens)]
    BY <1>1 DEF RecoveredUsage
  <2>2. CoversBut(RecoveredUsage(spool), spent, uncovered)
    BY <1>1, <1>2, <2>1 DEF CoversBut, Larger
  <2>3. /\ usage.generations >= spent.generations /\ usage.tools >= spent.tools
        /\ usage.tokens + unanswered = spent.tokens
    BY <1>1, <1>2
  <2> QED BY <1>1, <2>2, <2>3, NoOpShape DEF UsageInv, Dead
<1>9. ResultInv
  BY <1>1 DEF ResultInv, ResultIsHonest, NothingIsRefused, CleanupIsTold, CompleteTraceIsWhole,
              UsageIsConservative, NoResult
<1> QED BY <1>4, <1>5, <1>6, <1>7, <1>8, <1>9 DEF SupervisorInv

-----------------------------------------------------------------------------
\* Where execute is decides what it has: an error or an answer with its score,
\* hosts that have been closed, a trace that is whole or marked, and usage, in
\* memory and on the disk, that accounts for what was spent.  (supervisor.rs, execute)
THEOREM SupervisorInvariant == Spec => []SupervisorInv
<1>1. Init => SupervisorInv
  BY InitHolds
<1>2. SupervisorInv /\ [Next]_vars => SupervisorInv'
  <2> SUFFICES ASSUME SupervisorInv, [Next]_vars
               PROVE  SupervisorInv'
    OBVIOUS
  <2>1. CASE Cancel
    BY <2>1, OthersKeep DEF Cancel
  <2>2. CASE TimePasses
    BY <2>2, OthersKeep DEF TimePasses
  <2>3. CASE UNCHANGED vars
    BY <2>3, OthersKeep DEF vars, world
  <2> QED BY <2>1, <2>2, <2>3, StartKeeps, InteractKeeps, FinalizeKeeps, CleanupKeeps, ConclusionKeeps,
             RecoveryKeeps DEF Next
<1> QED BY <1>1, <1>2, PTL DEF Spec

\* Whatever fails, is cancelled or is late, and wherever the Worker dies, a
\* result claims no more than happened, and execute never refuses its own.
\* (supervisor.rs, execute; worker.rs, recover_interrupted)
THEOREM ResultIsHonestHolds == Spec => []ResultIsHonest
<1>1. SupervisorInv => ResultIsHonest
  BY DEF SupervisorInv, ResultInv
<1> QED BY <1>1, SupervisorInvariant, PTL

\* No death, no failed write and no order of writing and calling makes an
\* attempt settle fewer calls than it has made, or fewer tokens than its models
\* have produced: execute misses exactly those of failed generations, a recovery
\* at most those whose reservation a later record has replaced and what the last
\* generation produced beyond its allowance.  (runtime.rs, generate_inner,
\* persist_usage; storage.rs, recovered_usage)
THEOREM UsageIsConservativeHolds == Spec => []UsageIsConservative
<1>1. SupervisorInv => UsageIsConservative
  BY DEF SupervisorInv, ResultInv
<1> QED BY <1>1, SupervisorInvariant, PTL
=============================================================================
