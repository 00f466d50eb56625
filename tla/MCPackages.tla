----------------------------- MODULE MCPackages -----------------------------
(* Every dataset package with its own run, and for one package with typed   *)
(* configurations every way a declaration, a run or a row departs from it.  *)
EXTENDS Packages

\* A configuration with every kind of annotation, and ones an author may not publish.
ConfigModels ==
  [Nested |-> [level |-> Defaulted(Str, Scalar("low")), note |-> Required(Str)],
   Config |-> [mode |-> Defaulted(Str, Scalar("fast")),
               label |-> Defaulted(Optional(Str), Scalar("none")),
               nested |-> Defaulted(Modelled("Nested"), Object([note |-> Scalar("n")])),
               maybe |-> Defaulted(Optional(Modelled("Nested")), Null),
               many |-> Defaulted(Listed(Modelled("Nested")), List(<<>>)),
               table |-> Defaulted(Mapped(Modelled("Nested")), EmptyObject),
               inputs |-> Defaulted(Listed(External("ArtifactRef")), List(<<>>))],
   Recursive |-> [next |-> Defaulted(Optional(Modelled("Recursive")), Null)],
   Ambiguous |-> [either |-> Required(Ambiguous)],
   Shadowing |-> [inner |-> Defaulted(Listed(Modelled("Reserved")), List(<<>>))],
   Reserved |-> [temperature |-> Required(Str)]]

\* The proto package: a field without a default is required, and so is one with.
Proto(type, repeated, required, default) ==
  [type |-> type, repeated |-> repeated, required |-> required, default |-> default,
   properties |-> NoFields]
Preset(value) == Proto("scalar", FALSE, TRUE, Default(Scalar(value)))
Needed(type) == Proto(type, FALSE, TRUE, NoDefault)
Message(extension, fields) == [extension |-> extension, fields |-> fields, union |-> {}]

Current ==
  [EmptyConfig |-> Message(TRUE, NoFields),
   PlainAgentConfig |-> Message(TRUE, [history_policy |-> Preset("full"), system_prompt |-> Preset("")]),
   OpenHandsAgentConfig |-> Message(TRUE, [system_prompt |-> Preset("")]),
   ProcessBackendConfig |-> Message(TRUE, [runtime_profile |-> Needed("scalar")]),
   ContainerBackendConfig |-> Message(TRUE, NoFields),
   ToolConfig |-> Message(TRUE, [timeout_ms |-> Preset("30000"), max_preview_bytes |-> Preset("8192")]),
   EvaluationPlan |-> Message(TRUE, [harness |-> Needed("ResolvedComponent"),
                                     setup_argv |-> Proto("value", TRUE, TRUE, NoDefault)]),
   PackageManifest |-> Message(FALSE, [config_schemas |->
     [Needed("struct") EXCEPT !.properties = [environment |-> Schema("string")]]]),
   RunSpec |-> Message(FALSE, [model |-> Needed("ModelSpec"),
                               retry |-> Proto("RetryPolicy", FALSE, TRUE, Default(EmptyObject))]),
   ModelSpec |-> Message(FALSE, [endpoint |-> Needed("scalar"), credential_ref |-> Preset(""),
                                 generation |-> Proto("GenerationConfig", FALSE, TRUE, Default(EmptyObject))]),
   GenerationConfig |-> Message(FALSE, [temperature |-> Preset("0"), max_output_tokens |-> Preset("1024")]),
   RetryPolicy |-> Message(FALSE, [max_attempts |-> Preset("1"), max_backoff_ms |-> Preset("5000")]),
   ResolvedComponent |-> Message(FALSE, [id |-> Needed("scalar")]),
   ArtifactRef |-> Message(FALSE, [uri |-> Needed("scalar")]),
   TextPart |-> Message(FALSE, [text |-> Needed("scalar")]),
   StructuredPart |-> Message(FALSE, [data |-> Needed("struct")]),
   ContentPart |-> [extension |-> FALSE, fields |-> NoFields, union |-> {"TextPart", "StructuredPart"}],
   Observation |-> Message(FALSE, [content |-> Proto("ContentPart", TRUE, FALSE, NoDefault)])]

\* Before an edit: a field less, and a message that was an extension.
Earlier ==
  [Current EXCEPT !.ToolConfig = Message(TRUE, [timeout_ms |-> Preset("30000")]),
                  !.TextPart = [@ EXCEPT !.extension = TRUE]]

MCProtos == {Current, Earlier}

MCShared == {"EmptyConfig"}
MCModels == DatasetModels @@ ConfigModels @@ [EmptyConfig |-> NoFields]

Entry(role, config, image, exports) ==
  [role |-> role, version |-> "1", config |-> config, consumes_image |-> image, exports |-> exports,
   scope |-> "sandbox", capabilities |-> {}, native |-> FALSE]
Export(config, scope, capabilities) ==
  [config |-> config, scope |-> scope, capabilities |-> capabilities, native |-> TRUE]

MCCatalog ==
  (<<"", "plain">> :> Entry("agent", "PlainAgentConfig", FALSE, NoFields))
  @@ (<<"", "openhands">> :>
        Entry("agent", "OpenHandsAgentConfig", FALSE,
              [terminal |-> Export("ToolConfig", "sandbox", {"exec.v1"}),
               finish |-> Export("EmptyConfig", "agent_state", {})]))
  @@ (<<"", "process">> :> Entry("backend", "ProcessBackendConfig", FALSE, NoFields))
  @@ (<<"", "docker">> :> Entry("backend", "ContainerBackendConfig", TRUE, NoFields))
  @@ (<<"", "search">> :> Entry("tool", "ToolConfig", FALSE, NoFields))

Ref(owner, name) == [id |-> <<owner, name>>, version |-> "1"]
Tool(name, ref) == [name |-> name, ref |-> ref, config |-> EmptyObject]

Parameter(field, kind) == [type |-> field.type, default |-> field.default, kind |-> kind]
Grep ==
  [name |-> "grep", scope |-> "sandbox", side_effect |-> "read_only", capabilities |-> {"exec.v1"},
   parameters |-> [pattern |-> Parameter(Required(Str), "positional_or_keyword"),
                   path |-> Parameter(Defaulted(Str, Scalar(".")), "keyword_only"),
                   nested |-> Parameter(Defaulted(Optional(Modelled("Nested")), Null), "keyword_only"),
                   context |-> Parameter(Required(Untyped), "keyword_only")],
   returns |-> Listed(Str)]

\* Arguments, and results of a function that keeps its declared type or does not.
MCToolInputs ==
  {EmptyObject, Object([pattern |-> Scalar("p")]), Object([pattern |-> Scalar("p"), path |-> Null]),
   Object([pattern |-> Scalar("p"), nested |-> Object([note |-> Scalar("n")])]),
   Object([pattern |-> Scalar("p"), nested |-> EmptyObject]),
   Object([pattern |-> Scalar("p"), context |-> Scalar("c")])}
MCToolOutputs ==
  {Scalar("line"), Null, List(<<Scalar("line")>>),
   Instance("Nested", [note |-> Scalar("n"), level |-> Scalar("low")]),
   List(<<Instance("Nested", [note |-> Scalar("n"), level |-> Scalar("low")])>>),
   Observed("text", Scalar("seen"), FALSE), Observed("text", Scalar("seen"), TRUE)}

Declared(name) ==
  LET p == DatasetPackages[name]
  IN [yaml |-> "object", id |-> name, dataset |-> name, version |-> "1", project_version |-> "1",
      fields |-> AllowedDeclarationFields, entries |-> {"dataset_adapter", "environment", "scorer"},
      models |-> [input |-> p.input, private_data |-> p.private],
      capabilities |-> <<"filesystem.v1">>, internet |-> FALSE, image |-> "none",
      direct |-> TRUE, alias |-> FALSE, bound_elsewhere |-> {}, tools |-> <<Grep>>]

Endpoint == Object([endpoint |-> Scalar("e")])

RunOf(d) ==
  [yaml |-> "object", schema_version |-> FALSE, scorer |-> FALSE, dataset |-> [id |-> d.id, version |-> d.version],
   environment |-> EmptyObject, settings |-> Object([model |-> Endpoint]),
   scoring |-> [enabled |-> "true", extra |-> FALSE, given |-> FALSE, config |-> EmptyObject],
   agent |-> Ref("", "openhands"), backend |-> Ref("", "docker"),
   configs |-> [agent |-> EmptyObject, backend |-> EmptyObject],
   tools |-> <<Tool("grep", Ref(d.id, "grep")), Tool("terminal", Ref("openhands", "terminal"))>>,
   image |-> "run"]

RowOf(d) ==
  LET adapter == DatasetPackages[d.dataset].adapter
  IN [columns |-> Columns(adapter) \ adapter.optional, variant |-> adapter.variant, image |-> "none", empty |-> {}]

Build(d, r, w) == [declaration |-> d, public |-> r, row |-> w]

-----------------------------------------------------------------------------
D == [Declared("olymmath") EXCEPT
        !.models = [role \in {"environment_config", "scorer_config"} |-> "Config"] @@ @]
R == RunOf(D)
W == RowOf(D)

FaultyDeclarations ==
  {[D EXCEPT !.yaml = "duplicate_key"], [D EXCEPT !.yaml = "list"], [D EXCEPT !.fields = @ \cup {"timeout"}], [D EXCEPT !.entries = {"dataset_adapter", "environment"}],
   [D EXCEPT !.entries = {"environment"}], [D EXCEPT !.entries = @ \cup {"step"}],
   [D EXCEPT !.capabilities = <<"exec.v1", "exec.v1">>], [D EXCEPT !.project_version = "2"],
   [D EXCEPT !.direct = FALSE], [D EXCEPT !.bound_elsewhere = {"Config"}],
   [D EXCEPT !.models = ("reward" :> "Config") @@ @], [D EXCEPT !.models = [private_data |-> @.private_data]],
   [D EXCEPT !.models = [input |-> @.input]], [D EXCEPT !.models["input"] = "Gsm8kInput"]}
  \cup {[D EXCEPT !.tools = <<t>>] :
           t \in {[Grep EXCEPT !.scope = "host"], [Grep EXCEPT !.side_effect = "none"],
                  [Grep EXCEPT !.parameters["context"].kind = "positional_or_keyword"],
                  [Grep EXCEPT !.parameters["path"].kind = "var_keyword"],
                  [Grep EXCEPT !.parameters["path"].type = Untyped],
                  [Grep EXCEPT !.parameters["path"].type = Modelled("Recursive")],
                  [Grep EXCEPT !.returns = Untyped], [Grep EXCEPT !.returns = Ambiguous]}}
  \cup {[D EXCEPT !.alias = TRUE]}
  \cup {[D EXCEPT !.models["environment_config"] = m] : m \in {"Recursive", "Ambiguous", "Shadowing", "EmptyConfig"}}

OtherDeclarations ==
  {[D EXCEPT !.internet = TRUE], [D EXCEPT !.image = "package"],
   [D EXCEPT !.models = [input |-> @.input, private_data |-> @.private_data]],
   [D EXCEPT !.models = [input |-> @.input, private_data |-> @.private_data],
             !.entries = {"dataset_adapter", "environment"}],
   [D EXCEPT !.tools = @ \o @], [D EXCEPT !.tools[1].returns = ObservationType],
   [D EXCEPT !.tools[1].returns = Optional(Str)], [D EXCEPT !.tools[1].returns = Modelled("Nested")],
   [D EXCEPT !.tools[1].returns = Listed(Modelled("Nested"))],
   [D EXCEPT !.tools[1].returns = ObservationType, !.tools[1].scope = "agent_state"]}

\* Configurations a run may state, complete, partial, wrong and with explicit nulls.
NestedValues == {EmptyObject, Object([note |-> Scalar("a")]), Object([note |-> Scalar("a"), level |-> Scalar("b")])}
Environments ==
  {EmptyObject, Scalar("x"), Object([mode |-> Scalar("slow")]), Object([mode |-> Null]), Object([label |-> Null]),
   Object([unknown |-> Scalar("x")])}
  \cup {Object([nested |-> v]) : v \in NestedValues}
  \cup {Object([maybe |-> v]) : v \in NestedValues \cup {Null}}
  \cup {Object([many |-> List(<<v, u>>)]) : v, u \in NestedValues}
  \cup {Object([inputs |-> List(<<Object([uri |-> Scalar("u")])>>)])}
  \cup {Object([table |-> Object([k |-> v])]) : v \in NestedValues}
  \cup {Object([maybe |-> v, many |-> List(<<u>>), label |-> Null]) : v, u \in NestedValues}

ToolLists ==
  {<<>>, <<Tool("a", Ref("", "search"))>>, <<Tool("a", Ref("", "absent"))>>,
   <<Tool("a", Ref("openhands", "finish")), Tool("a", Ref("openhands", "terminal"))>>,
   <<Tool("a", Ref("openhands", "finish")), Tool("b", Ref("openhands", "terminal"))>>,
   <<Tool("a", [Ref("openhands", "finish") EXCEPT !.version = "2"])>>,
   <<[Tool("a", Ref("openhands", "terminal")) EXCEPT !.config = Object([timeout_ms |-> Null])]>>,
   <<[Tool("a", Ref("openhands", "terminal")) EXCEPT !.config = Object([timeout_ms |-> Scalar("9")])]>>}

\* Settings that leave things out at any depth, say them, or say too much.
ModelSettings ==
  {EmptyObject, Endpoint}
  \cup {Object([endpoint |-> Scalar("e"), generation |-> g]) :
          g \in {EmptyObject, Null, Object([temperature |-> Scalar("1")]), Object([top |-> Scalar("1")])}}
RetrySettings == {EmptyObject, Object([max_attempts |-> Scalar("3")])}
AllSettings ==
  {EmptyObject, Object([model |-> Endpoint, limit |-> Null])}
  \cup {Object([model |-> m]) : m \in ModelSettings}
  \cup {Object([model |-> m, retry |-> r]) : m \in ModelSettings, r \in RetrySettings}

Runs ==
  {[R EXCEPT !.environment = e] : e \in Environments}
  \cup {[R EXCEPT !.settings = s] : s \in AllSettings}
  \cup {[R EXCEPT !.tools = t, !.agent = a] : t \in ToolLists,
          a \in {Ref("", "openhands"), Ref("", "plain"), Ref("", "docker"), [Ref("", "openhands") EXCEPT !.version = "2"]}}
  \cup {[R EXCEPT !.scoring = [enabled |-> e, extra |-> x, given |-> c # EmptyObject, config |-> c]] :
          e \in {"true", "false", "absent"}, x \in BOOLEAN,
          c \in {EmptyObject, Object([mode |-> Scalar("s")]), Object([unknown |-> Null])}}
  \cup {[R EXCEPT !.backend = Ref("", b), !.image = i,
                  !.configs["backend"] = IF b = "process" /\ p THEN Object([runtime_profile |-> Scalar("py")]) ELSE @] :
          b \in {"docker", "process", "plain"}, i \in {"run", "none"}, p \in BOOLEAN}
  \cup {[R EXCEPT !.yaml = "duplicate_key"], [R EXCEPT !.schema_version = TRUE], [R EXCEPT !.scorer = TRUE], [R EXCEPT !.dataset.version = "2"],
        [R EXCEPT !.configs["agent"] = Object([system_prompt |-> Scalar("p")])]}

BuildRows ==
  {[W EXCEPT !.image = "task"], [W EXCEPT !.empty = {"problem"}], [W EXCEPT !.empty = {"answer"}], [W EXCEPT !.columns = @ \cup {"subject"}]}
  \cup {[W EXCEPT !.columns = @ \ {c}] : c \in W.columns}

MCBuilds ==
  {Build(Declared(n), RunOf(Declared(n)), RowOf(Declared(n))) : n \in DOMAIN DatasetPackages}
  \cup {Build(Declared("swe_pro"), RunOf(Declared("swe_pro")),
              [RowOf(Declared("swe_pro")) EXCEPT !.variant = "lite"])}
  \cup {Build(d, R, W) : d \in FaultyDeclarations \cup OtherDeclarations}
  \cup {Build(d, [R EXCEPT !.scoring.enabled = "false", !.image = i], w) :
          d \in OtherDeclarations, i \in {"run", "none"}, w \in {W, [W EXCEPT !.image = "task"]}}
  \cup {Build(D, r, W) : r \in Runs} \cup {Build(D, R, w) : w \in BuildRows}
=============================================================================
