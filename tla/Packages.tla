------------------------------ MODULE Packages ------------------------------
(***************************************************************************)
(* From a dataset package and a public run file to an execution plan: the  *)
(* loader (package_loader.py), the registry of schemas, the sample's wire  *)
(* form and the plan of the fixtures (fixture_plan.py), in the order in    *)
(* which build_examples.py calls them, once the contract has been built.   *)
(* Every step either succeeds or raises and ends the build.                *)
(*                                                                         *)
(* A component id is a pair <<owner, name>>; <<"", n>> stands alone.       *)
(***************************************************************************)
EXTENDS Datasets, ContractSchemas

CONSTANTS
  Builds,        \* a dataset.yaml with what importing its classes shows, a run file, a row
  Catalog,       \* components.yaml: id |-> entry
  SharedModels,  \* models of the core contract, not of a package
  ToolInputs, ToolOutputs  \* arguments of a tool call, and what a tool's function returns

VARIABLES
  step,         \* how far the build has come
  declaration,  \* the package being built
  public,       \* the public run being expanded
  row,          \* the package's test case
  files,        \* the schema files under generated/packages: their ids and schemas
  registry,     \* SchemaRegistry.extensions: schema id |-> schema
  manifest,     \* the published manifest
  wire,         \* the sample's input and private data as envelopes
  run,          \* the expanded RunSpec
  plan,         \* the ExecutionPlan
  delivered,    \* what the plan's components then make of it
  error         \* what ended the build

packageVars == <<step, declaration, public, row, files, registry, manifest, wire, run, plan, delivered, error>>
buildVars == <<packageVars, contractVars>>

None == [none |-> TRUE]

\* package_schema_id
SchemaId(d, m) == IF m \in SharedModels THEN <<"vnext", "", m>> ELSE <<d.id, d.version, m>>

PackageInit ==
  /\ ContractInit
  /\ step = "contracts"
  /\ declaration = None /\ public = None /\ row = None
  /\ files = {} /\ registry = [id \in {} |-> NoSchema]
  /\ manifest = None /\ wire = None /\ run = None /\ plan = None /\ error = ""
  /\ delivered = [observation |-> <<>>, call |-> None, scorer |-> None, command |-> None]

\* A build starts from the installed contract.  Files are published by name, in
\* a directory named after the package's, and never removed: a directory that has
\* been renamed since may hold this package's input in an older form.
Declare ==
  /\ step = "contracts" /\ building = "done"
  /\ \E build \in Builds :
       /\ declaration' = build.declaration /\ public' = build.public /\ row' = build.row
       /\ LET input == DatasetPackages[build.declaration.dataset].input
          IN files' \in {{}, {[id |-> <<build.declaration.id, build.declaration.version, input>>,
                              schema |-> Schema("any")]}}
  /\ step' = "declared"
  /\ UNCHANGED <<registry, manifest, wire, run, plan, delivered, error>>

Raise(code) ==
  /\ step' = "failed" /\ error' = code
  /\ UNCHANGED <<declaration, public, row, files, registry, manifest, wire, run, plan, delivered>>

-----------------------------------------------------------------------------
(* load_package                                                            *)

\* load_yaml: a mapping, and no key twice in it.
LoadYaml(document) == document.yaml = "object"

AllowedDeclarationFields ==
  {"id", "version", "entrypoints", "models", "internet_access", "required_capabilities", "runtime"}
ModelRoles == {"input", "private_data", "environment_config", "scorer_config", "observation", "state"}
ReservedModelFields ==
  {"episode_id", "attempt_id", "lease", "schema_ref", "plan_digest", "input_digest", "run_id", "agent",
   "backend", "model", "tools", "scorer", "dataset_package", "scoring", "limits", "purpose", "timeout"}
\* Properties of Limits and of GenerationConfig, read from the core contract.
LimitFields == {"total_timeout_ms", "max_generations", "max_tool_calls"}
GenerationFields == {"temperature", "max_output_tokens"}

\* validate_declaration
DeclarationValid(d) ==
  /\ d.fields \subseteq AllowedDeclarationFields
  /\ {"dataset_adapter", "environment"} \subseteq d.entries
  /\ d.entries \subseteq {"dataset_adapter", "environment", "scorer"}
  /\ Cardinality(Range(d.capabilities)) = Len(d.capabilities)
  /\ "input" \in DOMAIN d.models /\ DOMAIN d.models \subseteq ModelRoles
  /\ "scorer_config" \in DOMAIN d.models => "scorer" \in d.entries

\* check_fields: the names of a schema's properties, at every depth.
RECURSIVE FieldNames(_)
FieldNames(schema) ==
  CASE schema.s = "object" ->
         DOMAIN schema.properties \cup UNION {FieldNames(schema.properties[n]) : n \in DOMAIN schema.properties}
    [] schema.s \in {"array", "map", "anyOf"} -> FieldNames(schema.of)
    [] OTHER -> {}

ControlFields(role) ==
  ReservedModelFields \cup LimitFields
  \cup IF role \in {"environment_config", "scorer_config"} THEN GenerationFields ELSE {}

\* validate_author_package: direct subclasses, a schema for every model, and
\* no field of a package's own models that shadows a system field.
AuthorValid(d) ==
  /\ d.direct
  /\ \A role \in DOMAIN d.models :
       d.models[role] \notin SharedModels =>
         LET schema == ModelJsonSchema(d.models[role])
         IN schema.s # "raised" /\ FieldNames(schema) \cap ControlFields(role) = {}

\* bind_schema: a model class belongs to one schema id for good.
Bindable(d) == \A role \in DOMAIN d.models : d.models[role] \notin d.bound_elsewhere \ SharedModels

\* @tool: the declared scope and side effect are known ones, the context is
\* keyword-only and no argument, every other parameter is named and typed, and
\* the arguments and the result have a schema (an Observation needs none).
Untyped == [t |-> "untyped"]
ObservationType == [t |-> "observation"]

ToolArguments(t) == [n \in DOMAIN t.parameters \ {"context"} |-> t.parameters[n]]

ToolValid(t) ==
  LET arguments == ToolArguments(t)
  IN /\ t.scope \in {"sandbox", "agent_state", "external_service"}
     /\ t.side_effect \in {"read_only", "idempotent", "non_idempotent"}
     /\ "context" \in DOMAIN t.parameters => t.parameters["context"].kind = "keyword_only"
     /\ \A n \in DOMAIN arguments : /\ arguments[n].kind \in {"positional_or_keyword", "keyword_only"}
                                     /\ arguments[n].type # Untyped
     /\ FieldsSchema(arguments, {}).s # "raised"
     /\ t.returns # Untyped
     /\ t.returns # ObservationType => AnnotationSchema(t.returns, {}).s # "raised"

\* The checks of load_package in their order: dataset.yaml, the project's
\* version, the model classes, the author's classes, the functions of
\* tools.py, which are imported, and last whether an entry is an alias.
LoadError(d) ==
  IF ~LoadYaml(d) THEN "yaml"
  ELSE IF ~DeclarationValid(d) THEN "declaration"
  ELSE IF d.project_version # d.version THEN "version"
  ELSE IF ~Bindable(d) THEN "bound"
  ELSE IF ~AuthorValid(d) THEN "author"
  ELSE IF \E k \in DOMAIN d.tools : ~ToolValid(d.tools[k]) THEN "tool"
  ELSE IF d.alias THEN "alias" ELSE ""

LoadPackage ==
  /\ step = "declared"
  /\ IF LoadError(declaration) # "" THEN Raise(LoadError(declaration))
     ELSE /\ step' = "loaded"
          /\ UNCHANGED <<declaration, public, row, files, registry, manifest, wire, run, plan, delivered, error>>

-----------------------------------------------------------------------------
(* build_manifest publishes, SchemaRegistry.bundled reads what is there.   *)

ConfigModel(d, role) == IF role \in DOMAIN d.models THEN d.models[role] ELSE "EmptyConfig"

PackageSchemas(d) ==
  LET own == {d.models[r] : r \in DOMAIN d.models} \ SharedModels
  IN [id \in {SchemaId(d, m) : m \in own} |-> ModelJsonSchema(id[3])]

Manifest(d) ==
  [id |-> d.id, version |-> d.version, entries |-> d.entries,
   task_schema |-> SchemaId(d, d.models["input"]),
   config_schemas |-> [role \in {"environment", "scorer"} \cap d.entries |->
                         SchemaId(d, ConfigModel(d, IF role = "scorer" THEN "scorer_config"
                                                    ELSE "environment_config"))],
   private_schema |-> IF "private_data" \in DOMAIN d.models
                      THEN SchemaId(d, d.models["private_data"]) ELSE <<"", "", "">>,
   internet |-> d.internet, capabilities |-> Range(d.capabilities), image |-> d.image,
   tools |-> [k \in DOMAIN d.tools |->
                [id |-> <<d.id, d.tools[k].name>>, version |-> d.version, config |-> "EmptyConfig",
                 scope |-> d.tools[k].scope, capabilities |-> d.tools[k].capabilities, native |-> FALSE,
                 input_schema |-> FieldsSchema(ToolArguments(d.tools[k]), {})]],
   schemas |-> DOMAIN PackageSchemas(d)]

\* The arguments of the package's tools are published next to its models.
ToolSchemas(d) ==
  {[id |-> <<d.id, d.version, "tools", d.tools[k].name>>, schema |-> FieldsSchema(ToolArguments(d.tools[k]), {})] :
     k \in DOMAIN d.tools}

BuildManifest ==
  /\ step = "loaded"
  /\ manifest' = Manifest(declaration)
  /\ LET schemas == PackageSchemas(declaration)
     IN files' = files \cup {[id |-> id, schema |-> schemas[id]] : id \in DOMAIN schemas}
                       \cup ToolSchemas(declaration)
  /\ step' = "published"
  /\ UNCHANGED <<declaration, public, row, registry, wire, run, plan, delivered, error>>

\* The extension files among the SDK's resources.
CoreSchemas == {[id |-> <<"vnext", "", name>>, schema |-> resources.extensions[name]] :
                  name \in DOMAIN resources.extensions}

\* register: an id keeps the content it was registered with.
Conflicts(schemas) == \E a, b \in schemas : a.id = b.id /\ a.schema # b.schema

BundleSchemas ==
  /\ step = "published"
  /\ LET schemas == CoreSchemas \cup files
     IN IF Conflicts(schemas) THEN Raise("schema_conflict")
        ELSE /\ registry' = [id \in {s.id : s \in schemas} |-> (CHOOSE s \in schemas : s.id = id).schema]
             /\ step' = "bundled"
             /\ UNCHANGED <<declaration, public, row, files, manifest, wire, run, plan, delivered, error>>

-----------------------------------------------------------------------------
(* prepare_wire and the episode that main assembles.  A sample may name a  *)
(* runtime of its own (PreparedSample.runtime); the repository's adapters  *)
(* leave that to others.                                                   *)

PrepareWire ==
  /\ step = "bundled"
  /\ LET package == DatasetPackages[declaration.dataset]
         sample == Normalize(package, row)
         models == declaration.models
         declared == models["input"] = package.input
                     /\ "private_data" \in DOMAIN models /\ models["private_data"] = package.private
     IN IF ~LoadYaml(public) THEN Raise("yaml")
        ELSE IF public.dataset # [id |-> declaration.id, version |-> declaration.version]
        THEN Raise("no_package")
        ELSE IF ~sample.ok \/ Raised \in {sample.input, sample.private} \/ ~declared THEN Raise("sample")
        ELSE /\ wire' = [input |-> Envelope(manifest.task_schema, sample.input),
                         private |-> Envelope(manifest.private_schema, sample.private),
                         image |-> row.image]
             /\ step' = "prepared"
             /\ UNCHANGED <<declaration, public, row, files, registry, manifest, run, plan, delivered, error>>

-----------------------------------------------------------------------------
(* expand_run                                                              *)

\* select_manifest
Selected(ref, role) == ref.id = manifest.id /\ ref.version = manifest.version /\ role \in manifest.entries

\* As a bug: the filled copy is validated, what the author wrote is sent.
ConfigEnvelope_Variant(id, value) ==
  [ok |-> Valid(registry[id], ApplyDefaults(resources, registry[id], value)),
   envelope |-> [schema_ref |-> id, data |-> value]]

\* config_envelope: defaults are filled in once, then the result is validated.
ConfigEnvelope(id, value) ==
  LET data == ApplyDefaults(resources, registry[id], value)
  IN [ok |-> Valid(registry[id], data), envelope |-> [schema_ref |-> id, data |-> data]]

ComponentKnown(ref, role) ==
  /\ ref.id \in DOMAIN Catalog
  /\ Catalog[ref.id].role = role /\ Catalog[ref.id].version = ref.version

\* lookup_tool: a standalone tool, else a tool of the package, else an export
\* of an agent, which only that agent, in that version, may use.
LookupTool(ref, agent) ==
  LET provided == SelectSeq(manifest.tools, LAMBDA t : t.id = ref.id /\ t.version = ref.version)
      exported == ref.id[1] \in {id[2] : id \in {i \in DOMAIN Catalog : Catalog[i].role = "agent"}}
      owner == <<"", ref.id[1]>>
  IN CASE ComponentKnown(ref, "tool") -> [ok |-> TRUE, entry |-> Catalog[ref.id], error |-> ""]
       [] ~ComponentKnown(ref, "tool") /\ Len(provided) > 1 ->
            [ok |-> FALSE, entry |-> None, error |-> "CONFLICTING_TOOL_EXPORT"]
       [] ~ComponentKnown(ref, "tool") /\ Len(provided) = 1 ->
            [ok |-> TRUE, entry |-> provided[1], error |-> ""]
       [] OTHER ->
            IF ~exported \/ ref.id[2] \notin DOMAIN Catalog[owner].exports
            THEN [ok |-> FALSE, entry |-> None, error |-> "unknown_tool"]
            ELSE IF agent # [id |-> owner, version |-> Catalog[owner].version]
            THEN [ok |-> FALSE, entry |-> None, error |-> "NATIVE_TOOL_AGENT_MISMATCH"]
            ELSE IF ref.version # Catalog[owner].version
            THEN [ok |-> FALSE, entry |-> None, error |-> "NATIVE_TOOL_VERSION_MISMATCH"]
            ELSE [ok |-> TRUE, entry |-> Catalog[owner].exports[ref.id[2]], error |-> ""]

RoleConfig(role) == ConfigEnvelope(<<"vnext", "", Catalog[public[role].id].config>>, public.configs[role])
ToolConfig(k) ==
  ConfigEnvelope(<<"vnext", "", LookupTool(public.tools[k].ref, public.agent).entry.config>>,
                 public.tools[k].config)

RoleError(role) ==
  IF ~ComponentKnown(public[role], role) THEN role
  ELSE IF ~RoleConfig(role).ok THEN "component_config" ELSE ""

ToolError(k) ==
  LET lookup == LookupTool(public.tools[k].ref, public.agent)
  IN IF \E j \in 1..(k - 1) : public.tools[j].name = public.tools[k].name THEN "DUPLICATE_TOOL_NAME"
     ELSE IF ~lookup.ok THEN lookup.error
     ELSE IF ~ToolConfig(k).ok THEN "tool_config" ELSE ""

\* The settings a run states besides the components it selects, as they are once
\* the defaults of the contract are filled in; validated with the whole run.
RECURSIVE Conforms(_, _)
Conforms(schema, value) ==
  CASE schema.s = "ref" -> Conforms(resources[schema.document][schema.name], value)
    [] schema.s = "object" /\ value.is = "object" ->
         /\ schema.required \subseteq DOMAIN value.fields
         /\ DOMAIN value.fields \subseteq DOMAIN schema.properties
         /\ \A n \in DOMAIN value.fields : Conforms(schema.properties[n], value.fields[n])
    [] OTHER -> Valid(schema, value)

Settings == ApplyDefaults(resources, resources.core["RunSpec"], public.settings)
SettingsError == IF Conforms(resources.core["RunSpec"], Settings) THEN "" ELSE "RunSpec"

FirstError(errors) ==
  IF \E k \in DOMAIN errors : errors[k] # ""
  THEN errors[Min({k \in DOMAIN errors : errors[k] # ""})] ELSE ""

\* The checks of scoring: enabled is explicit, a disabled scorer takes no config.
ScoringError ==
  LET scoring == public.scoring
  IN IF scoring.enabled = "absent" \/ scoring.extra THEN "scoring"
     ELSE IF scoring.enabled = "false" /\ scoring.given THEN "scoring_config_forbidden"
     ELSE IF scoring.enabled = "false" THEN ""
     ELSE IF ~Selected(public.dataset, "scorer") THEN "scorer"
     ELSE IF ~ConfigEnvelope(manifest.config_schemas["scorer"], scoring.config).ok THEN "scorer_config"
     ELSE ""

\* The checks of expand_run, in their order; "" when the run expands.
RunError ==
  IF public.schema_version \/ public.scorer THEN "forbidden_field"
  ELSE IF ~Selected(public.dataset, "environment") THEN "dataset"
  ELSE IF ~ConfigEnvelope(manifest.config_schemas["environment"], public.environment).ok
  THEN "environment_config"
  ELSE FirstError(<<ScoringError, RoleError("agent"), RoleError("backend"),
                    FirstError([k \in DOMAIN public.tools |-> ToolError(k)]), SettingsError>>)

ExpandRun ==
  /\ step = "prepared"
  /\ IF RunError # "" THEN Raise(RunError)
     ELSE /\ run' = [dataset |-> public.dataset, image |-> public.image, agent |-> public.agent,
                     settings |-> Settings, backend |-> public.backend, enabled |-> public.scoring.enabled = "true",
                     environment |-> ConfigEnvelope(manifest.config_schemas["environment"],
                                                    public.environment).envelope,
                     scorer |-> IF public.scoring.enabled = "true"
                                THEN ConfigEnvelope(manifest.config_schemas["scorer"],
                                                    public.scoring.config).envelope
                                ELSE None,
                     configs |-> [role \in {"agent", "backend"} |-> RoleConfig(role).envelope],
                     tools |-> [k \in DOMAIN public.tools |->
                                  [public.tools[k] EXCEPT !.config = ToolConfig(k).envelope]]]
          /\ step' = "expanded"
          /\ UNCHANGED <<declaration, public, row, files, registry, manifest, wire, plan, delivered, error>>

-----------------------------------------------------------------------------
(* main drops the private data of an unscored episode, validates what it   *)
(* would submit against the bundled schemas and calls fixture_plan.        *)

EpisodeValid ==
  /\ Valid(registry[wire.input.schema_ref], wire.input.data)
  /\ run.enabled => Valid(registry[wire.private.schema_ref], wire.private.data)

ValidateEpisode ==
  /\ step = "expanded"
  /\ IF ~EpisodeValid THEN Raise("EpisodeRequest")
     ELSE /\ step' = "validated"
          /\ UNCHANGED <<declaration, public, row, files, registry, manifest, wire, run, plan, delivered, error>>

\* The image of a container backend: the run's, else the task's, else the package's.
Image == IF run.image # "none" THEN [source |-> "run", image |-> run.image]
         ELSE IF wire.image # "none" THEN [source |-> "task", image |-> wire.image]
         ELSE [source |-> "package", image |-> manifest.image]

Container == Catalog[run.backend.id].consumes_image

PlanError ==
  LET tools == {LookupTool(run.tools[k].ref, run.agent).error : k \in DOMAIN run.tools}
  IN CASE run.environment.schema_ref # manifest.config_schemas["environment"] -> "COMPONENT_CONFIG_SCHEMA_MISMATCH"
       [] wire.input.schema_ref # manifest.task_schema -> "COMPONENT_TASK_SCHEMA_MISMATCH"
       [] OTHER ->
            IF run.enabled /\ run.scorer.schema_ref # manifest.config_schemas["scorer"]
            THEN "COMPONENT_CONFIG_SCHEMA_MISMATCH"
            ELSE IF run.enabled /\ wire.private.schema_ref # manifest.private_schema
            THEN "SCORER_PRIVATE_SCHEMA_MISMATCH"
            ELSE IF tools \ {""} # {} THEN "tool"
            ELSE IF Container /\ Image.image = "none" THEN "MISSING_IMAGE"
            ELSE IF ~Container /\ run.image # "none" THEN "PROCESS_IMAGE_CONFLICT"
            ELSE ""

FixturePlan ==
  /\ step = "validated"
  /\ IF PlanError # "" THEN Raise(PlanError)
     ELSE /\ LET entries == [k \in DOMAIN run.tools |-> LookupTool(run.tools[k].ref, run.agent).entry]
             IN plan' =
                  [input |-> wire.input,
                   private |-> IF run.enabled THEN wire.private ELSE None,
                   environment |-> run.environment, scorer |-> run.scorer, agent |-> run.agent,
                   configs |-> run.configs, model |-> run.settings.fields["model"],
                   tools |-> [k \in DOMAIN entries |->
                                [name |-> run.tools[k].name, ref |-> run.tools[k].ref,
                                 config |-> run.tools[k].config,
                                 scope |-> entries[k].scope, capabilities |-> entries[k].capabilities,
                                 native_agent |-> IF entries[k].native THEN run.agent ELSE None]],
                   required |-> manifest.capabilities
                                \cup (IF manifest.internet THEN {"internet_access.v1"} ELSE {})
                                \cup UNION {entries[k].capabilities : k \in DOMAIN entries},
                   runtime |-> IF Container THEN Image ELSE None]
          /\ step' = "planned"
          /\ UNCHANGED <<declaration, public, row, files, registry, manifest, wire, run, delivered, error>>

-----------------------------------------------------------------------------
(* The hosts that get the plan: EnvironmentHost.prepare and reset, then    *)
(* ScorerHost.score, restore the typed models from their envelopes.        *)

ConfigAccepted(role, envelope) ==
  /\ envelope.schema_ref = SchemaId(declaration, ConfigModel(declaration, role))
  /\ Valid(registry[envelope.schema_ref], envelope.data)

\* task_from_wire, model_from_envelope: the model bound to the package's schema.
Received(role, envelope) ==
  LET m == declaration.models[role]
  IN FromEnvelope(m, SchemaId(declaration, m), envelope)

ResetTask ==
  /\ step = "planned"
  /\ IF ~ConfigAccepted("environment_config", plan.environment)
     THEN Raise("ENVIRONMENT_CONFIG_SCHEMA_MISMATCH")
     ELSE IF Received("input", plan.input) = Raised THEN Raise("task")
     ELSE /\ delivered' = [delivered EXCEPT !.observation =
                             ResetObservation(declaration.dataset, Received("input", plan.input))]
          /\ step' = "reset"
          /\ UNCHANGED <<declaration, public, row, files, registry, manifest, wire, run, plan, error>>

\* @tool's execute and ToolHost._execute: arguments are checked against the
\* tool's schema and restored, the function is called, a typed result is
\* checked and made an observation; only an environment may end the episode.
\* An observation is [is |-> "observation", shown |-> ..., ended |-> ...].
Observed(kind, value, ended) == [is |-> "observation", kind |-> kind, shown |-> value, ended |-> ended]

\* json.dumps: no instance of a model within lists and objects.
RECURSIVE Plain(_)
Plain(value) ==
  CASE value.is = "object" -> \A n \in DOMAIN value.fields : Plain(value.fields[n])
    [] value.is = "list" -> \A k \in DOMAIN value.items : Plain(value.items[k])
    [] OTHER -> value.is \in {"scalar", "null"}

ObservationFromOutput(value) ==
  CASE value.is = "observation" -> value
    [] value.is = "model" -> Observed("structured", Dump(value), FALSE)
    [] Plain(value) -> Observed("text", value, FALSE)
    [] OTHER -> Raised

OutputValid(t, value) ==
  IF t.returns = ObservationType THEN value.is = "observation"
  ELSE Valid(AnnotationSchema(t.returns, {}), IF value.is = "model" THEN Dump(value) ELSE value)

\* What a call comes to: an error, or the result with what the function was given.
ToolResult(t, arguments, output) ==
  LET given == Fill(ToolArguments(t), arguments.fields)
      observation == ObservationFromOutput(output)
      failed(code) == [error |-> code, given |-> given, observation |-> Raised]
  IN IF "context" \in DOMAIN arguments.fields THEN failed("TOOL_CONTEXT_IS_SYSTEM_INJECTED")
     ELSE IF ~Valid(FieldsSchema(ToolArguments(t), {}), arguments) THEN failed("arguments")
     ELSE IF given = Raised THEN failed("restore")
     ELSE IF ~OutputValid(t, output) THEN failed("output")
     ELSE IF observation = Raised THEN failed("conversion")
     ELSE IF observation.ended /\ t.scope # "sandbox" THEN failed("TOOL_HAS_NO_ENVIRONMENT_STATE")
     ELSE [error |-> "", given |-> given, observation |-> observation]

CallPackageTool ==
  /\ step = "reset"
  /\ \E b \in DOMAIN plan.tools, k \in DOMAIN declaration.tools :
       /\ plan.tools[b].ref.id = <<declaration.id, declaration.tools[k].name>>
       /\ \E arguments \in ToolInputs, output \in ToolOutputs :
            delivered' = [delivered EXCEPT !.call =
              [tool |-> k, arguments |-> arguments, output |-> output,
               result |-> ToolResult(declaration.tools[k], arguments, output)]]
  /\ step' = "called"
  /\ UNCHANGED <<declaration, public, row, files, registry, manifest, wire, run, plan, error>>

\* As a bug: fields without a value are left out, as to_wire leaves them out of
\* a dataclass.
HarnessCommand_Variant(id, private) ==
  LET given == {n \in DOMAIN private.fields : private.fields[n] # Null}
  IN [schema_ref |-> id, data |-> Object([n \in given |-> Dump(private.fields[n])])]

\* The private data of a HarnessRequest, which the Worker compares with the
\* plan's before it runs anything (HARNESS_INPUT_MISMATCH).
HarnessCommand(id, private) == Envelope(id, private)

ScoreTask ==
  /\ step \in {"reset", "called"} /\ run.enabled
  /\ IF ~ConfigAccepted("scorer_config", plan.scorer) THEN Raise("SCORER_CONFIG_SCHEMA_MISMATCH")
     ELSE IF Received("private_data", plan.private) = Raised THEN Raise("private_data")
     ELSE /\ LET private == Received("private_data", plan.private)
                 reads == ScorerReads(declaration.dataset, private)
             IN delivered' = [delivered EXCEPT
                  !.scorer = reads,
                  !.command = IF reads.harness THEN HarnessCommand(plan.private.schema_ref, private) ELSE None]
          /\ step' = "scored"
          /\ UNCHANGED <<declaration, public, row, files, registry, manifest, wire, run, plan, error>>

-----------------------------------------------------------------------------
PackageNext ==
  \/ step = "contracts" /\ ContractNext /\ UNCHANGED packageVars
  \/ /\ \/ Declare \/ LoadPackage \/ BuildManifest \/ BundleSchemas \/ PrepareWire \/ ExpandRun
        \/ ValidateEpisode \/ FixturePlan \/ ResetTask \/ CallPackageTool \/ ScoreTask
     /\ UNCHANGED contractVars

PackageSpec == PackageInit /\ [][PackageNext]_buildVars

-----------------------------------------------------------------------------
\* The scalars a value is made of: for a sample, the columns it came from.
RECURSIVE Scalars(_)
Scalars(value) ==
  CASE value.is = "object" -> UNION {Scalars(value.fields[n]) : n \in DOMAIN value.fields}
    [] value.is = "list" -> UNION {Scalars(value.items[k]) : k \in DOMAIN value.items}
    [] value.is = "observation" -> Scalars(value.shown)
    [] value.is = "scalar" -> {value.value}
    [] OTHER -> {}

\* The registry, the generated schema and the model class fill the same
\* defaults into the configuration of the run (schema_registry.py
\* apply_defaults, modeling.py _model_schema and UEnvModel.__init__).
DefaultsAreConsistent ==
  (declaration # None /\ "environment_config" \in DOMAIN declaration.models) =>
    DefaultsAgree(resources, declaration.models["environment_config"], public.environment)

\* Whatever a build that ended has installed is consistent: the dictionary has
\* the fields the schemas have, required where they are, and every reference
\* of a registered schema, a package's too, is to a message that is in the
\* document it names.  (build_contracts.py main, external_refs, and
\* SchemaRegistry.bundled, which reads the copy)
ContractIsCurrent ==
  building = "done" =>
    /\ \A document \in {"core", "extensions"} : \A name \in DOMAIN resources[document] :
         LET schema == resources[document][name]
         IN schema.s = "object" =>
              {<<r.field[1], r.required>> : r \in {q \in dictionary[name].rows : Len(q.field) = 1}}
              = {<<n, n \in schema.required>> : n \in DOMAIN schema.properties}
    /\ \A name \in DOMAIN resources.core : Resolves(resources.core[name])
    /\ \A name \in DOMAIN resources.extensions : Resolves(resources.extensions[name])
    /\ \A id \in DOMAIN registry : Resolves(registry[id])

\* The schemas are consistent with each other, and with what reads them.
SchemasAreConsistent == ContractIsCurrent /\ DefaultsAreConsistent

\* Nothing that was stated has been changed, whatever has been added to it.
RECURSIVE Keeps(_, _)
Keeps(stated, expanded) ==
  IF stated.is # "object" THEN expanded = stated
  ELSE /\ expanded.is = "object" /\ DOMAIN stated.fields \subseteq DOMAIN expanded.fields
       /\ \A n \in DOMAIN stated.fields : Keeps(stated.fields[n], expanded.fields[n])

\* What a run was expanded to is what is planned: once a run has expanded only
\* an invalid sample or the choice of an image can still fail; configurations are
\* complete, and so are the settings of the model, to the last message the
\* contract's references lead to, with everything the run states kept; scoring
\* material is planned only for scored runs, and no column the adapter keeps
\* private reaches the public task; a tool that belongs to an agent is planned
\* for that agent, and the capabilities of every tool are required.
\* (expand_run, lookup_tool, fixture_plan, the adapters' normalize)
PlanFollowsRun ==
  /\ (step = "failed" /\ run # None) => error \in {"EpisodeRequest", "MISSING_IMAGE", "PROCESS_IMAGE_CONFLICT"}
  /\ plan # None =>
       /\ \A envelope \in {plan.environment, plan.configs["agent"]} \cup {plan.tools[k].config : k \in DOMAIN plan.tools} :
            /\ Valid(registry[envelope.schema_ref], envelope.data)
            /\ ApplyDefaults(resources, registry[envelope.schema_ref], envelope.data) = envelope.data
       /\ Keeps(public.settings, run.settings) /\ plan.model = run.settings.fields["model"]
       /\ ApplyDefaults(resources, resources.core["ModelSpec"], plan.model) = plan.model
       /\ Conforms(resources.core["ModelSpec"], plan.model)
       /\ (plan.private # None) <=> public.scoring.enabled = "true"
       /\ Scalars(plan.input.data) \cap (Scalars(wire.private.data) \ {""}) = {}
       /\ \A k \in DOMAIN plan.tools :
            /\ plan.tools[k].capabilities \subseteq plan.required
            /\ plan.tools[k].native_agent # None =>
                 plan.tools[k].ref.id[1] = plan.agent.id[2] /\ plan.tools[k].ref.version = plan.agent.version
       /\ \A j, k \in DOMAIN plan.tools : plan.tools[j].name = plan.tools[k].name => j = k

\* Typed data survives the way from the adapter through the plan to the
\* components, whose hosts restore it: no component refuses what was planned,
\* the agent is shown input columns of the row and nothing private, the scorer
\* finds the column its rule needs, and a harness request carries exactly the
\* private data of the plan, optional fields that were never given included.
\* A tool call that the published schema accepts is restored for the function,
\* with every argument it declares, and a result that its declared type accepts
\* is shown whole.  (model_to_envelope, model_from_envelope, the packages' reset
\* and score, @tool's execute)
MaterialArrives ==
  step \in {"reset", "called", "scored", "failed"} =>
  LET adapter == DatasetPackages[declaration.dataset].adapter
      private == {adapter.private[n] : n \in DOMAIN adapter.private}
      scorer == delivered.scorer
      call == delivered.call
  IN /\ call # None =>
          /\ call.result.error \notin {"restore", "conversion"}
          /\ call.result.error = "" =>
               /\ DOMAIN call.result.given.fields = DOMAIN ToolArguments(declaration.tools[call.tool])
               /\ Scalars(call.arguments) \subseteq Scalars(Dump(call.result.given))
               /\ Scalars(call.result.observation) = Scalars(Dump(call.output))
     /\ step \in {"reset", "called", "scored"} =>
          /\ Received("input", plan.input) # Raised
          /\ Dump(Received("input", plan.input)) = plan.input.data
          /\ \A k \in DOMAIN delivered.observation :
               Scalars(delivered.observation[k].shown) \subseteq (row.columns \ private) \cup {""}
     /\ ~(step = "failed" /\ plan # None)
     /\ step = "scored" =>
          /\ scorer.material # Raised
          /\ Scalars(Dump(scorer.material)) = {adapter.private[IF scorer.harness THEN "evaluation_plan" ELSE "answer"]}
          /\ scorer.harness => delivered.command = plan.private
=============================================================================
