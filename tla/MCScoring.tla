----------------------------- MODULE MCScoring ------------------------------
(* Small requests for Scoring: every short answer of each text rule, and   *)
(* one or two requests per scorer whose scoring may be cut off.            *)
EXTENDS ScoringRules

Texts(alphabet, longest) == UNION {[1..n -> alphabet] : n \in 0..longest}

Request(rule, answer, target) ==
  [rule |-> rule, answer |-> answer, target |-> target, task |-> "t1", trajectory |-> "good",
   private |-> TRUE, private_complete |-> TRUE, plan |-> TRUE, text |-> TRUE, declared |-> TRUE,
   state |-> [given |-> TRUE, value |-> 1, goal |-> 2]]

Event(k, kind, id, response) ==
  [sequence |-> k, attempt |-> "a1", kind |-> kind, id |-> id, response |-> response]

Checkpoint(segments, count) ==
  [status |-> "scoring_checkpoint", task |-> "t1", attempt |-> "a1", segments |-> segments, count |-> count]

MCTrajectories ==
  LET whole == <<<<Event(0, "generation", "g1", "text")>>,
                 <<Event(1, "other", "o", "none"), Event(2, "generation", "g2", "tool_calls"),
                   Event(3, "generation", "g3", "none")>>>>
  IN [good     |-> Checkpoint(whole, 4),
      sealed   |-> [Checkpoint(whole, 4) EXCEPT !.status = "sealed"],
      foreign  |-> [Checkpoint(whole, 4) EXCEPT !.task = "t2"],
      mixed    |-> [Checkpoint(whole, 4) EXCEPT !.segments[1][1].attempt = "a2"],
      gap      |-> Checkpoint(<<whole[2]>>, 3),
      short    |-> Checkpoint(<<whole[1]>>, 4),
      repeated |-> Checkpoint(<<whole[1], <<Event(1, "generation", "g1", "text")>>>>, 2)]

Judge == Request("process", <<"1">>, <<"1">>)

MCContested ==
  {[Judge EXCEPT !.trajectory = t] : t \in DOMAIN MCTrajectories}
  \cup {[Judge EXCEPT !.rule = "authored", !.trajectory = t] : t \in {"good", "short"}}
  \cup {[Judge EXCEPT !.text = FALSE], [Judge EXCEPT !.declared = FALSE],
        Request("gsm8k", <<"1">>, <<"2">>), [Request("scitab", <<"nei">>, <<"nei">>) EXCEPT !.private = FALSE],
        Request("progress", <<>>, <<>>), [Request("progress", <<>>, <<>>) EXCEPT !.state.given = FALSE],
        Request("harness", <<>>, <<>>), [Request("harness", <<>>, <<>>) EXCEPT !.plan = FALSE],
        [Request("harness", <<>>, <<>>) EXCEPT !.private_complete = FALSE]}

MCRequests ==
  MCContested
  \cup {Request("olymmath", a, <<"1">>) : a \in Texts({"box{", "{", "}", "\\", "1"}, 5)}
  \cup {Request("olymmath", a, t) : a \in Texts({"frac{", "sqrt{", "{", "}", "1", "2", "x", "="}, 3),
                                    t \in {<<"1">>, <<"sqrt{", "1", "}">>}}
  \cup {Request("olymmath", a, <<"1", "/", "2">>) :
          a \in {<<"x", "=">> \o f \o <<"1", "}", "{", "2", "}">> : f \in {<<"frac{">>, <<"dfrac{">>, <<"sqrt{">>}}}
  \cup {Request("gsm8k", a, <<"1", "2">>) : a \in Texts({"####", "1", "2", "+", "-", "/", ",", "x"}, 3)}
  \cup {Request("scitab", a, <<"nei">>) :
          a \in Texts({"not", "cannot", "enough", "info", "information", "supports", "refutes", "nei"}, 4)}
  \cup {Request("pubmedqa", a, <<"yes">>) : a \in Texts({"yes", "no", "maybe", "uncertain", "y", "the"}, 3)}

Result(success, reward, metrics, generations) ==
  [success |-> success, reward |-> reward, metrics |-> metrics, generations |-> generations, system |-> FALSE]

MCReturned ==
  {Result("true", "given", <<"m">>, g) :
     g \in {<<>>, <<"g1">>, <<"g2", "g1">>, <<"g1", "g1">>, <<"g3">>, <<"g9">>}}
  \cup {Result("null", "missing", <<>>, <<>>), Result("false", "given", <<"m", "m">>, <<>>),
        [Result("true", "given", <<>>, <<>>) EXCEPT !.system = TRUE]}
=============================================================================
