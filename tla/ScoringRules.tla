---------------------------- MODULE ScoringRules ----------------------------
(***************************************************************************)
(* The text scoring rules of reference/shared (uenv_reference_rules), as   *)
(* pure operators; RuleVerdict is what Scoring takes as its TextVerdict.   *)
(* A text is a sequence of tokens.  Mathematical texts are made of the     *)
(* tokens the rules tell apart: digits, signs, braces, a backslash, the    *)
(* LaTeX openings "frac{", "dfrac{", "sqrt{" and "box{", the "####"        *)
(* marker; label answers are made of lower-case words.  White space, case  *)
(* and decimals are left out: strip() and lower() are then the identity    *)
(* and every number is a small rational.                                   *)
(*                                                                         *)
(* The recursive operators follow the loops of the code; the module is     *)
(* only model-checked.                                                     *)
(***************************************************************************)
EXTENDS Scoring

Digits == {"0", "1", "2"}
DigitValue == [d \in Digits |-> CASE d = "0" -> 0 [] d = "1" -> 1 [] d = "2" -> 2]
Letters == {"x"}

\* LaTeX openings: a command name together with its opening brace.
Openings == {"{", "frac{", "dfrac{", "sqrt{", "box{"}

-----------------------------------------------------------------------------
(* _take_braced: the text before and after the brace that closes one       *)
(* already opened; no such brace is a ValueError.                          *)

Count(tokens, text) == Cardinality({k \in DOMAIN text : text[k] \in tokens})

Balance(text) == Count(Openings, text) - Count({"}"}, text)

SplitAt(text, closing) ==
  IF closing = {} THEN [ok |-> FALSE, inner |-> <<>>, rest |-> <<>>]
  ELSE [ok |-> TRUE, inner |-> SubSeq(text, 1, Min(closing) - 1),
        rest |-> SubSeq(text, Min(closing) + 1, Len(text))]

TakeBraced(text) == SplitAt(text, {k \in DOMAIN text : Balance(SubSeq(text, 1, k)) = -1})

\* _numeric, first loop: every \dfrac{a}{b}, then every \frac{a}{b}, is
\* rewritten to a/b in place; no b, or an unclosed brace, means "no number".
NotRewritten == [ok |-> FALSE, text |-> <<>>]

RECURSIVE Rewritten(_)
WithDenominator(before, numerator, denominator) ==
  IF denominator.ok
  THEN Rewritten(before \o numerator \o <<"/">> \o denominator.inner \o denominator.rest)
  ELSE NotRewritten

WithNumerator(before, numerator) ==
  IF numerator.ok /\ numerator.rest # <<>> /\ Head(numerator.rest) = "{"
  THEN WithDenominator(before, numerator.inner, TakeBraced(Tail(numerator.rest)))
  ELSE NotRewritten

RewrittenAt(text, k) ==
  WithNumerator(SubSeq(text, 1, k - 1), TakeBraced(SubSeq(text, k + 1, Len(text))))

Positions(token, text) == {k \in DOMAIN text : text[k] = token}

Rewritten(text) ==
  CASE Positions("dfrac{", text) # {} -> RewrittenAt(text, Min(Positions("dfrac{", text)))
    [] Positions("dfrac{", text) = {} /\ Positions("frac{", text) # {} ->
         RewrittenAt(text, Min(Positions("frac{", text)))
    [] OTHER -> [ok |-> TRUE, text |-> text]

NotANumber == [ok |-> FALSE, num |-> 0, den |-> 1]

\* float(): an optional minus sign and at least one digit.
Float(text) ==
  LET negative == text # <<>> /\ Head(text) = "-"
      digits == IF negative THEN Tail(text) ELSE text
      magnitude == FoldLeft(LAMBDA v, d : 10 * v + DigitValue[d], 0, digits)
  IN IF digits # <<>> /\ \A k \in DOMAIN digits : digits[k] \in Digits
     THEN [ok |-> TRUE, num |-> IF negative THEN 0 - magnitude ELSE magnitude, den |-> 1]
     ELSE NotANumber

\* _numeric, second half: separators and leading plus signs are dropped,
\* any other character means "no number"; the text is split at the first slash.
Unsigned(text) ==
  LET other == {k \in DOMAIN text : text[k] # "+"}
  IN IF other = {} THEN <<>> ELSE SubSeq(text, Min(other), Len(text))

Quotient(above, below) ==
  IF above.ok /\ below.ok /\ below.num # 0
  THEN [ok |-> TRUE, num |-> above.num, den |-> below.num] ELSE NotANumber

Value(text) ==
  LET slash == Min(Positions("/", text))
  IN IF \E k \in DOMAIN text : text[k] \notin Digits \cup {"/", "-"} THEN NotANumber
     ELSE IF Positions("/", text) = {} THEN Float(text)
     ELSE Quotient(Float(SubSeq(text, 1, slash - 1)), Float(SubSeq(text, slash + 1, Len(text))))

Cleaned(rewritten) ==
  IF rewritten.ok
  THEN Value(Unsigned(SelectSeq(rewritten.text, LAMBDA c : c \notin {",", "$"})))
  ELSE NotANumber

Numeric(text) == Cleaned(Rewritten(text))

\* numeric_equivalent.  Its relative tolerance of 1e-9 separates every two
\* rationals of the size met here, so it is equality.
Equivalent(a, b) == [known |-> a.ok /\ b.ok, equal |-> a.num * b.den = b.num * a.den]

NumericEquivalent(left, right) == Equivalent(Numeric(left), Numeric(right))

-----------------------------------------------------------------------------
(* extract_boxed: the content of the last complete \boxed{...}.            *)

Escaped(text, k) == k > 1 /\ text[k - 1] = "\\"

BoxAt(text, k) == text[k] = "box{" /\ ~Escaped(text, k)

\* Braces preceded by a backslash do not count; the brace of a command does.
Depth(text, from, to) ==
  LET counted == {k \in from..to : text[k] \notin {"{", "}"} \/ ~Escaped(text, k)}
  IN 1 + Cardinality({k \in counted : text[k] \in Openings})
       - Cardinality({k \in counted : text[k] = "}"})

Closings(text, box) == {k \in box + 1..Len(text) : Depth(text, box + 1, k) = 0}

RECURSIVE ScanBoxes(_, _, _)
ScanBoxes(text, index, last) ==
  IF index > Len(text) THEN last
  ELSE IF BoxAt(text, index) /\ Closings(text, index) # {}
       THEN LET end == Min(Closings(text, index))
            IN ScanBoxes(text, end + 1,
                         [found |-> TRUE, text |-> SubSeq(text, index + 1, end - 1)])
       ELSE ScanBoxes(text, index + 1, last)

ExtractBoxed(text) == ScanBoxes(text, 1, [found |-> FALSE, text |-> <<>>])

-----------------------------------------------------------------------------
(* The mathematical rules.                                                 *)

\* rsplit("####", 1)[-1]
AfterMarker(text) ==
  LET marks == {k \in DOMAIN text : text[k] = "####"}
  IN IF marks = {} THEN text
     ELSE SubSeq(text, 1 + Max(marks), Len(text))

\* _assignment: "x = value" stands for its value, for a name of 1 to 3 characters.
Assignment(text) ==
  LET signs == {k \in DOMAIN text : text[k] = "="}
      sign == Min(signs)
  IN IF signs # {} /\ sign \in 2..4 /\ sign < Len(text)
        /\ \A k \in 1..sign - 1 : text[k] \in Digits \cup Letters
     THEN SubSeq(text, sign + 1, Len(text)) ELSE text

\* _math_normalize: \frac becomes "*", every other command, brace and sign
\* that is not listed is dropped.
MathNormalize(text) ==
  FoldLeft(LAMBDA kept, c :
             CASE c = "frac{" -> Append(kept, "*")
               [] c \in Digits \cup Letters \cup {"+", "-", "/", ","} -> Append(kept, c)
               [] OTHER -> kept,
           <<>>, text)

Unsupported(text) == \E k \in DOMAIN text : text[k] \in {"sqrt{", "box{"}

\* score_gsm8k's own normalization: backslashes, braces and separators are
\* dropped, the letters of a command stay.
GsmNormalize(text) == SelectSeq(text, LAMBDA c : c \notin {"{", "}", "\\", "$", ",", "=", "+", "####"})

\* The last comparison of both rules: two texts, neither of them empty.
SameText(left, right) == BinaryScore(left # <<>> /\ right # <<>> /\ left = right)

ScoreGsm8k(answer, target) ==
  LET predicted == AfterMarker(answer)
      numeric == NumericEquivalent(predicted, target)
  IN CASE target = <<>> \/ predicted = <<>> -> BinaryScore(FALSE)
       [] answer = target \/ predicted = target -> BinaryScore(TRUE)
       [] numeric.known -> BinaryScore(numeric.equal)
       [] OTHER -> SameText(GsmNormalize(predicted), GsmNormalize(target))

\* The answer score_olymmath grades: the boxed text, else what follows "####".
Predicted(answer) ==
  LET boxed == ExtractBoxed(answer)
  IN IF boxed.found THEN boxed.text ELSE AfterMarker(answer)

\* As a bug: the fallback erases commands it does not know.
ScoreOlymmath_Variant(answer, target) ==
  LET value == Assignment(Predicted(answer))
      numeric == NumericEquivalent(value, target)
  IN CASE target = <<>> \/ Predicted(answer) = <<>> -> BinaryScore(FALSE)
       [] Predicted(answer) = target -> BinaryScore(TRUE)
       [] numeric.known -> BinaryScore(numeric.equal)
       [] OTHER -> SameText(Assignment(MathNormalize(value)), MathNormalize(target))

ScoreOlymmath(answer, target) ==
  LET value == Assignment(Predicted(answer))
      numeric == NumericEquivalent(value, target)
  IN CASE target = <<>> \/ Predicted(answer) = <<>> -> BinaryScore(FALSE)
       [] Predicted(answer) = target -> BinaryScore(TRUE)
       [] numeric.known -> BinaryScore(numeric.equal)
       [] Unsupported(value) \/ Unsupported(target) -> BinaryScore(FALSE)
       [] OTHER -> SameText(Assignment(MathNormalize(value)), MathNormalize(target))

-----------------------------------------------------------------------------
(* The label rules.  A candidate is a label and the words that stand for   *)
(* it; a phrase is looked up as a substring, a word only between word      *)
(* boundaries.                                                             *)

Candidate(label, words) == [label |-> label, words |-> words]

PubmedqaAliases ==
  {Candidate("yes", <<"yes">>), Candidate("yes", <<"y">>), Candidate("no", <<"no">>),
   Candidate("no", <<"n">>), Candidate("maybe", <<"maybe">>), Candidate("maybe", <<"uncertain">>)}
PubmedqaPhrases == <<>>
PubmedqaWords ==
  <<Candidate("yes", <<"yes">>), Candidate("no", <<"no">>), Candidate("maybe", <<"maybe">>)>>

ScitabAliases ==
  {Candidate("supports", <<w>>) : w \in {"supports", "support", "supported", "true"}}
  \cup {Candidate("refutes", <<w>>) : w \in {"refutes", "refute", "refuted", "false"}}
  \cup {Candidate("not enough info", p) :
          p \in {<<"not", "enough", "info">>, <<"not", "enough", "information">>, <<"nei">>,
                 <<"insufficient">>, <<"insufficient", "information">>, <<"unverifiable">>}}
ScitabPhrases ==
  <<Candidate("not enough info", <<"not", "enough", "info">>),
    Candidate("not enough info", <<"not", "enough", "information">>),
    Candidate("not enough info", <<"insufficient", "information">>),
    Candidate("not enough info", <<"insufficient", "evidence">>)>>
ScitabWords ==
  <<Candidate("supports", <<"supports">>), Candidate("supports", <<"support">>),
    Candidate("supports", <<"supported">>), Candidate("refutes", <<"refutes">>),
    Candidate("refutes", <<"refute">>), Candidate("refutes", <<"refuted">>),
    Candidate("not enough info", <<"nei">>)>>

Rules(dataset) ==
  IF dataset = "pubmedqa"
  THEN [aliases |-> PubmedqaAliases, phrases |-> PubmedqaPhrases, words |-> PubmedqaWords]
  ELSE [aliases |-> ScitabAliases, phrases |-> ScitabPhrases, words |-> ScitabWords]

\* A substring may begin inside its first word and end inside its last one.
EndsWith(word, end) == word = end \/ <<word, end>> = <<"cannot", "not">>
StartsWith(word, start) == word = start \/ <<word, start>> = <<"information", "info">>

PhraseAt(text, k, phrase) ==
  /\ k + Len(phrase) - 1 <= Len(text)
  /\ EndsWith(text[k], phrase[1])
  /\ StartsWith(text[k + Len(phrase) - 1], phrase[Len(phrase)])
  /\ \A i \in 2..Len(phrase) - 1 : text[k + i - 1] = phrase[i]

WordAt(text, k, words) == text[k] = words[1]

\* rfind, and the last match of the word pattern; 0 when there is none.
LastAt(positions) == IF positions = {} THEN 0 ELSE Max(positions)

\* The loops over phrases and words: a later or equal position replaces the best.
Later(best, at, label) == IF at > 0 /\ at >= best.at THEN [at |-> at, label |-> label] ELSE best

\* _label: an alias must be the whole answer, otherwise the last mention counts.
Label(text, rules) ==
  LET whole == {a \in rules.aliases : a.words = text}
      phrased == FoldLeft(LAMBDA best, c :
                            Later(best, LastAt({k \in DOMAIN text : PhraseAt(text, k, c.words)}), c.label),
                          [at |-> 0, label |-> "none"], rules.phrases)
      worded == FoldLeft(LAMBDA best, c :
                           Later(best, LastAt({k \in DOMAIN text : WordAt(text, k, c.words)}), c.label),
                         phrased, rules.words)
  IN IF whole # {} THEN (CHOOSE a \in whole : TRUE).label ELSE worded.label

ScoreLabel(answer, target, rules) ==
  LET expected == Label(target, rules)
  IN BinaryScore(expected # "none" /\ Label(answer, rules) = expected)

\* The rule of a request's scorer: Scoring's TextVerdict.
RuleVerdict(r) ==
  CASE r.rule = "gsm8k" -> ScoreGsm8k(r.answer, r.target)
    [] r.rule = "olymmath" -> ScoreOlymmath(r.answer, r.target)
    [] OTHER -> ScoreLabel(r.answer, r.target, Rules(r.rule))

-----------------------------------------------------------------------------
(* What the rules promise, stated without their loops.                     *)

\* The boxes of a text that are closed, and where each ends.
ClosedBoxes(text) ==
  {b \in [start : DOMAIN text, end : DOMAIN text] :
     /\ BoxAt(text, b.start) /\ b.end > b.start
     /\ Depth(text, b.start + 1, b.end) = 0
     /\ \A k \in b.start + 1..b.end - 1 : Depth(text, b.start + 1, k) > 0}

\* The boxed answer is the closed box that ends last: boxes nest, so no box
\* inside an answer, and no box that is never closed, can take its place.
BoxedIsLastClosed(text) ==
  LET boxes == ClosedBoxes(text)
      found == ExtractBoxed(text)
  IN /\ found.found <=> boxes # {}
     /\ found.found => \E b \in boxes : /\ \A c \in boxes : c.end <= b.end
                                        /\ found.text = SubSeq(text, b.start + 1, b.end - 1)

\* A label answer that is no alias as a whole stands for the label mentioned
\* last, by a word or by a phrase, whatever the order of the tables.
LabelIsLastMention(text, rules) ==
  LET mentions ==
        {<<k, c.label>> : k \in DOMAIN text, c \in Range(rules.phrases) \cup Range(rules.words)}
      real == {m \in mentions :
                 \/ \E c \in Range(rules.phrases) : c.label = m[2] /\ PhraseAt(text, m[1], c.words)
                 \/ \E c \in Range(rules.words) : c.label = m[2] /\ WordAt(text, m[1], c.words)}
  IN (\A a \in rules.aliases : a.words # text) =>
       IF real = {} THEN Label(text, rules) = "none"
       ELSE \E m \in real : m[2] = Label(text, rules) /\ \A n \in real : n[1] <= m[1]

\* A command score_olymmath does not know is never erased to make a match:
\* such an answer is right only if it is the reference, token for token.
UnknownCommandsNeverMatch(answer, target) ==
  (ScoreOlymmath(answer, target) = "true" /\ (Unsupported(Predicted(answer)) \/ Unsupported(target)))
    => Predicted(answer) = target

\* The text rules keep their promises on the answer being scored: the boxed
\* answer is the closed box that ends last, a label is the last one
\* mentioned, an unknown command never makes a match.  (uenv_reference_rules)
RulesKeepTheirPromises ==
  /\ request.rule = "olymmath" => /\ BoxedIsLastClosed(request.answer)
                                  /\ UnknownCommandsNeverMatch(request.answer, request.target)
  /\ request.rule \in {"pubmedqa", "scitab"} => LabelIsLastMention(request.answer, Rules(request.rule))
=============================================================================
