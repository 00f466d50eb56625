------------------------------ MODULE Datasets ------------------------------
(***************************************************************************)
(* The dataset packages under reference/datasets: the typed models each    *)
(* declares, which column of a source row its adapter puts into which      *)
(* field, what its environment shows of the input and what its scorer      *)
(* takes from the private data.  A value is named by the column it was     *)
(* taken from (str(), the part of GSM8K's answer after its marker and the  *)
(* joined contexts of PubMedQA included), so that where it came from can   *)
(* be told wherever it turns up.                                           *)
(***************************************************************************)
EXTENDS TypedModels

\* normalize() of an adapter: row[...] fails on a missing column, row.get(...)
\* falls back to the empty string; SWE packages refuse other benchmark variants.
Adapter(sample_id, input, private) ==
  [sample_id |-> sample_id, input |-> input, private |-> private, optional |-> {}, variant |-> "any"]

Gsm8kAdapter == Adapter("id", [instruction |-> "question"], [answer |-> "answer"])

Gsm8kModels ==
  [Gsm8kInput |-> [instruction |-> Required(NonEmptyStr)],
   Gsm8kPrivateData |-> [answer |-> Required(NonEmptyStr)]]

OlymmathAdapter ==
  [Adapter("unique_id",
           [instruction |-> "problem", language |-> "language", difficulty |-> "difficulty", subject |-> "subject"],
           [answer |-> "answer"]) EXCEPT !.optional = {"subject"}]

OlymmathModels ==
  [OlymmathInput |-> [n \in {"instruction", "language", "difficulty", "subject"} |->
                        Required(IF n = "subject" THEN Str ELSE NonEmptyStr)],
   OlymmathPrivateData |-> [answer |-> Required(NonEmptyStr)]]

PubmedqaAdapter ==
  Adapter("id", [instruction |-> "QUESTION", contexts |-> "CONTEXTS"], [answer |-> "final_decision"])

PubmedqaModels ==
  [PubmedqaInput |-> [instruction |-> Required(NonEmptyStr), contexts |-> Required(Listed(Str))],
   PubmedqaPrivateData |-> [answer |-> Required(NonEmptyStr)]]

ScitabAdapter ==
  [Adapter("id",
           [claim |-> "claim", paper |-> "paper", paper_id |-> "paper_id", table_id |-> "table_id",
            caption |-> "table_caption", columns |-> "table_column_names", rows |-> "table_content_values"],
           [answer |-> "label"]) EXCEPT !.optional = {"paper", "paper_id", "table_id", "table_caption"}]

ScitabModels ==
  [ScitabInput |-> [claim |-> Required(NonEmptyStr), paper |-> Required(Str), paper_id |-> Required(Str),
                    table_id |-> Required(Str), caption |-> Required(Str),
                    columns |-> Required(Listed(Str)), rows |-> Required(Listed(Listed(Str)))],
   ScitabPrivateData |-> [answer |-> Required(NonEmptyStr)]]

DscodebenchAdapter ==
  Adapter("problem_id",
          [instruction |-> "code_problem", library |-> "library", entry_point |-> "entry_point"],
          [tests |-> "tests", num_tests |-> "num_tests", test_seed |-> "test_seed",
           evaluation_plan |-> "evaluation_plan"])

DscodebenchModels ==
  [DscodebenchInput |-> [instruction |-> Required(NonEmptyStr), library |-> Required(Str),
                         entry_point |-> Required(Str)],
   DscodebenchPrivateData |->
     [tests |-> Required(External("ArtifactRef")),
      reference_solution |-> Defaulted(Optional(External("ArtifactRef")), Null),
      num_tests |-> Required(Str), test_seed |-> Required(Str),
      evaluation_plan |-> Required(External("EvaluationPlan"))]]

\* The four SWE packages differ in the variant they accept.
SweAdapter(variant) ==
  [Adapter("instance_id",
           [instruction |-> "problem_statement", repo |-> "repo", base_commit |-> "base_commit",
            workspace_path |-> "workspace_path", runtime_assets |-> "runtime_assets"],
           [test_patch |-> "test_patch", fail_to_pass |-> "FAIL_TO_PASS", pass_to_pass |-> "PASS_TO_PASS",
            evaluation_plan |-> "evaluation_plan"]) EXCEPT !.variant = variant]

SweInput ==
  [n \in {"instruction", "repo", "base_commit", "workspace_path", "runtime_assets"} |->
     Required(IF n = "runtime_assets" THEN Listed(External("ArtifactRef")) ELSE NonEmptyStr)]

SwePrivateData ==
  [test_patch |-> Required(External("ArtifactRef")),
   reference_patch |-> Defaulted(Optional(External("ArtifactRef")), Null),
   fail_to_pass |-> Required(Listed(Str)), pass_to_pass |-> Required(Listed(Str)),
   evaluation_plan |-> Required(External("EvaluationPlan"))]

SweLiteAdapter == SweAdapter("lite")
SweLiteModels == [SweLiteInput |-> SweInput, SweLitePrivateData |-> SwePrivateData]
SweProAdapter == SweAdapter("pro")
SweProModels == [SweProInput |-> SweInput, SweProPrivateData |-> SwePrivateData]
SweSmithAdapter == SweAdapter("smith")
SweSmithModels == [SweSmithInput |-> SweInput, SweSmithPrivateData |-> SwePrivateData]
SweVerifiedAdapter == SweAdapter("verified")
SweVerifiedModels == [SweVerifiedInput |-> SweInput, SweVerifiedPrivateData |-> SwePrivateData]

-----------------------------------------------------------------------------
(* reset() of each package's environment: the parts of the observation,    *)
(* with the values of the task's input that each part quotes.              *)

TextPart(values) == [kind |-> "text", shown |-> List(values)]
StructuredPart(input) == [kind |-> "structured", shown |-> Dump(input)]

Gsm8kEnvironment(input) == <<TextPart(<<input.fields["instruction"]>>)>>
OlymmathEnvironment(input) == <<TextPart(<<input.fields["instruction"]>>)>>
PubmedqaEnvironment(input) == <<TextPart(<<input.fields["contexts"], input.fields["instruction"]>>)>>
ScitabEnvironment(input) == <<TextPart(<<Dump(input)>>)>>
DscodebenchEnvironment(input) == <<TextPart(<<>>), StructuredPart(input)>>
SweLiteEnvironment(input) == <<StructuredPart(input)>>
SweProEnvironment(input) == <<StructuredPart(input)>>
SweSmithEnvironment(input) == <<StructuredPart(input)>>
SweVerifiedEnvironment(input) == <<StructuredPart(input)>>

ResetObservation(dataset, input) ==
  CASE dataset = "gsm8k" -> Gsm8kEnvironment(input)
    [] dataset = "olymmath" -> OlymmathEnvironment(input)
    [] dataset = "pubmedqa" -> PubmedqaEnvironment(input)
    [] dataset = "scitab" -> ScitabEnvironment(input)
    [] dataset = "dscodebench" -> DscodebenchEnvironment(input)
    [] dataset = "swe_lite" -> SweLiteEnvironment(input)
    [] dataset = "swe_pro" -> SweProEnvironment(input)
    [] dataset = "swe_smith" -> SweSmithEnvironment(input)
    [] dataset = "swe_verified" -> SweVerifiedEnvironment(input)

-----------------------------------------------------------------------------
(* What each package's scorer takes from the private data: the reference   *)
(* answer of a text rule, or an evaluation plan and, for the harness, the  *)
(* private data as an envelope of its own.                                 *)

PrivateField(private, name) == IF name \in DOMAIN private.fields THEN private.fields[name] ELSE Raised

ReadReferenceText(private) == [harness |-> FALSE, material |-> PrivateField(private, "answer")]
EvaluateHarness(private) == [harness |-> TRUE, material |-> PrivateField(private, "evaluation_plan")]

Gsm8kScorer(private) == ReadReferenceText(private)
OlymmathScorer(private) == ReadReferenceText(private)
PubmedqaScorer(private) == ReadReferenceText(private)
ScitabScorer(private) == ReadReferenceText(private)
DscodebenchScorer(private) == EvaluateHarness(private)
SweLiteScorer(private) == EvaluateHarness(private)
SweProScorer(private) == EvaluateHarness(private)
SweSmithScorer(private) == EvaluateHarness(private)
SweVerifiedScorer(private) == EvaluateHarness(private)

ScorerReads(dataset, private) ==
  CASE dataset = "gsm8k" -> Gsm8kScorer(private)
    [] dataset = "olymmath" -> OlymmathScorer(private)
    [] dataset = "pubmedqa" -> PubmedqaScorer(private)
    [] dataset = "scitab" -> ScitabScorer(private)
    [] dataset = "dscodebench" -> DscodebenchScorer(private)
    [] dataset = "swe_lite" -> SweLiteScorer(private)
    [] dataset = "swe_pro" -> SweProScorer(private)
    [] dataset = "swe_smith" -> SweSmithScorer(private)
    [] dataset = "swe_verified" -> SweVerifiedScorer(private)

-----------------------------------------------------------------------------
\* Each package: its adapter and the models of its dataset.yaml.
Package(adapter, input, private) == [adapter |-> adapter, input |-> input, private |-> private]

DatasetPackages ==
  [gsm8k |-> Package(Gsm8kAdapter, "Gsm8kInput", "Gsm8kPrivateData"),
   olymmath |-> Package(OlymmathAdapter, "OlymmathInput", "OlymmathPrivateData"),
   pubmedqa |-> Package(PubmedqaAdapter, "PubmedqaInput", "PubmedqaPrivateData"),
   scitab |-> Package(ScitabAdapter, "ScitabInput", "ScitabPrivateData"),
   dscodebench |-> Package(DscodebenchAdapter, "DscodebenchInput", "DscodebenchPrivateData"),
   swe_lite |-> Package(SweLiteAdapter, "SweLiteInput", "SweLitePrivateData"),
   swe_pro |-> Package(SweProAdapter, "SweProInput", "SweProPrivateData"),
   swe_smith |-> Package(SweSmithAdapter, "SweSmithInput", "SweSmithPrivateData"),
   swe_verified |-> Package(SweVerifiedAdapter, "SweVerifiedInput", "SweVerifiedPrivateData")]

DatasetModels ==
  Gsm8kModels @@ OlymmathModels @@ PubmedqaModels @@ ScitabModels @@ DscodebenchModels
  @@ SweLiteModels @@ SweProModels @@ SweSmithModels @@ SweVerifiedModels

-----------------------------------------------------------------------------
\* A column's content, in the shape the field's annotation asks for.
RECURSIVE Content(_, _)
Content(type, column) ==
  CASE type.t = "list" -> List(<<Content(type.of, column)>>)
    [] type.t = "optional" -> Content(type.of, column)
    [] type.t = "external" -> Object([uri |-> Scalar(column)])
    [] OTHER -> Scalar(column)

Columns(adapter) ==
  {adapter.sample_id} \cup {adapter.input[n] : n \in DOMAIN adapter.input}
                      \cup {adapter.private[n] : n \in DOMAIN adapter.private}

\* The model an adapter fills from a row: its fields and what they hold.
Filled(m, fields, row) ==
  Construct(m, [n \in DOMAIN fields |->
                  IF fields[n] \in row.columns
                  THEN Content(Models[m][n].type, IF fields[n] \in row.empty THEN "" ELSE fields[n])
                  ELSE Scalar("")])

Normalize(package, row) ==
  IF \/ package.adapter.variant \notin {"any", row.variant}
     \/ ~(Columns(package.adapter) \ package.adapter.optional \subseteq row.columns)
  THEN [ok |-> FALSE, input |-> Raised, private |-> Raised]
  ELSE [ok |-> TRUE, input |-> Filled(package.input, package.adapter.input, row),
        private |-> Filled(package.private, package.adapter.private, row)]
=============================================================================
