----------------------------- MODULE TypedModels ----------------------------
(***************************************************************************)
(* Typed package models (modeling.py), the JSON Schemas generated from     *)
(* them and the registry's defaults (schema_registry.py), as operators on  *)
(* abstract JSON values.  A scalar is a name; descriptions and numeric     *)
(* bounds are left out, the bound "min_length" is kept as "not empty".     *)
(***************************************************************************)
EXTENDS Naturals, Sequences, FiniteSets, SequencesExt

CONSTANT Models  \* the UEnvModel classes: name |-> field |-> [type, default]

-----------------------------------------------------------------------------
(* JSON values, and instances of models.                                   *)

Null == [is |-> "null"]
Scalar(a) == [is |-> "scalar", value |-> a]
Object(f) == [is |-> "object", fields |-> f]
List(s) == [is |-> "list", items |-> s]
Instance(m, f) == [is |-> "model", model |-> m, fields |-> f]
Raised == [is |-> "raised"]  \* a TypeError instead of a value

NoFields == [n \in {} |-> Null]
EmptyObject == Object(NoFields)

\* Annotations a field may carry.
Str == [t |-> "str"]
NonEmptyStr == [t |-> "non_empty"]
Optional(type) == [t |-> "optional", of |-> type]
Listed(type) == [t |-> "list", of |-> type]
Mapped(type) == [t |-> "dict", of |-> type]
Modelled(m) == [t |-> "model", model |-> m]
External(name) == [t |-> "external", name |-> name]
Ambiguous == [t |-> "union"]

NoDefault == [given |-> FALSE, value |-> Null]
Default(v) == [given |-> TRUE, value |-> v]
Required(type) == [type |-> type, default |-> NoDefault]
Defaulted(type, v) == [type |-> type, default |-> Default(v)]

AnyRaised(values) == \E k \in DOMAIN values : values[k] = Raised

\* UEnvModel.__init__ and _restore: unknown and missing fields are errors, class
\* defaults fill what is absent, nested models are restored.
RECURSIVE Restore(_, _)
RECURSIVE Fill(_, _)
Fill(hints, values) ==
  LET given == [n \in DOMAIN hints |-> IF n \in DOMAIN values THEN values[n] ELSE hints[n].default.value]
      restored == [n \in DOMAIN hints |-> Restore(hints[n].type, given[n])]
  IN IF \/ ~(DOMAIN values \subseteq DOMAIN hints)
        \/ \E n \in DOMAIN hints \ DOMAIN values : ~hints[n].default.given
        \/ AnyRaised(restored)
     THEN Raised ELSE Object(restored)
Restore(type, value) ==
  CASE type.t = "optional" /\ value # Null -> Restore(type.of, value)
    [] type.t = "model" /\ value.is = "object" ->
         LET fields == Fill(Models[type.model], value.fields)
         IN IF fields = Raised THEN Raised ELSE Instance(type.model, fields.fields)
    [] type.t = "list" /\ value.is = "list" ->
         LET items == [k \in DOMAIN value.items |-> Restore(type.of, value.items[k])]
         IN IF AnyRaised(items) THEN Raised ELSE List(items)
    [] type.t = "dict" /\ value.is = "object" ->
         LET items == [k \in DOMAIN value.fields |-> Restore(type.of, value.fields[k])]
         IN IF AnyRaised(items) THEN Raised ELSE Object(items)
    [] OTHER -> value

Construct(m, values) == Restore(Modelled(m), Object(values))

\* _dump: instances become plain objects again.
RECURSIVE Dump(_)
Dump(value) ==
  CASE value.is \in {"model", "object"} -> Object([n \in DOMAIN value.fields |-> Dump(value.fields[n])])
    [] value.is = "list" -> List([k \in DOMAIN value.items |-> Dump(value.items[k])])
    [] OTHER -> value

\* model_to_envelope, model_from_envelope: the data travels with its schema id.
Envelope(id, value) == [schema_ref |-> id, data |-> Dump(value)]
FromEnvelope(m, id, envelope) ==
  IF envelope.schema_ref # id THEN Raised ELSE Construct(m, envelope.data.fields)

-----------------------------------------------------------------------------
(* _annotation_schema and _model_schema; a model may not contain itself.   *)

Schema(kind) == [s |-> kind, default |-> NoDefault]
SchemaOf(kind, child) == [s |-> kind, of |-> child, default |-> NoDefault]
NoSchema == [s |-> "raised", default |-> NoDefault]
Unless(child, schema) == IF child.s = "raised" THEN NoSchema ELSE schema

\* A class that stands for a schema of the contract: __schema_ref__ says where.
ExternalSchema(name) ==
  [s |-> "ref", document |-> IF name = "EvaluationPlan" THEN "extensions" ELSE "core",
   name |-> name, default |-> NoDefault]

RECURSIVE AnnotationSchema(_, _)
RECURSIVE FieldsSchema(_, _)
AnnotationSchema(type, ancestors) ==
  CASE type.t = "str" -> Schema("string")
    [] type.t = "non_empty" -> Schema("non_empty")
    [] type.t = "external" -> ExternalSchema(type.name)
    [] type.t = "model" -> IF type.model \in ancestors THEN NoSchema
                           ELSE FieldsSchema(Models[type.model], ancestors \cup {type.model})
    [] type.t = "union" -> NoSchema
    [] OTHER ->
         LET child == AnnotationSchema(type.of, ancestors)
         IN Unless(child, SchemaOf(CASE type.t = "optional" -> "anyOf" [] type.t = "list" -> "array"
                                     [] type.t = "dict" -> "map", child))
FieldsSchema(hints, ancestors) ==
  LET properties ==
        [n \in DOMAIN hints |->
           [AnnotationSchema(hints[n].type, ancestors) EXCEPT
              !.default = IF hints[n].default.given THEN Default(Dump(hints[n].default.value)) ELSE NoDefault]]
  IN IF \E n \in DOMAIN properties : properties[n].s = "raised" THEN NoSchema
     ELSE [s |-> "object", properties |-> properties, default |-> NoDefault,
           required |-> {n \in DOMAIN hints : ~hints[n].default.given}]

\* model_json_schema for a model of a package.
ModelJsonSchema(m) == AnnotationSchema(Modelled(m), {})

\* What the JSON Schema validator accepts; of a message of the contract that is
\* referred to, any object.
RECURSIVE Valid(_, _)
Valid(schema, value) ==
  CASE schema.s = "string" -> value.is = "scalar"
    [] schema.s = "non_empty" -> value.is = "scalar" /\ value # Scalar("")
    [] schema.s = "any" -> TRUE
    [] schema.s = "anyOf" -> value = Null \/ Valid(schema.of, value)
    [] schema.s = "array" -> value.is = "list" /\ \A k \in DOMAIN value.items : Valid(schema.of, value.items[k])
    [] schema.s = "map" -> value.is = "object" /\ \A k \in DOMAIN value.fields : Valid(schema.of, value.fields[k])
    [] schema.s = "object" ->
         /\ value.is = "object"
         /\ schema.required \subseteq DOMAIN value.fields
         /\ DOMAIN value.fields \subseteq DOMAIN schema.properties
         /\ \A n \in DOMAIN value.fields : Valid(schema.properties[n], value.fields[n])
    [] OTHER -> value.is = "object"

-----------------------------------------------------------------------------
(* SchemaRegistry.apply_defaults: declared defaults are filled in, through *)
(* references into the contract's documents, objects and lists but not     *)
(* through anyOf or additionalProperties.                                  *)

\* As a bug: an explicit null is taken for an absent value.
RECURSIVE ApplyDefaults_Variant(_, _, _)
ApplyDefaults_Variant(documents, schema, value) ==
  CASE schema.s = "ref" ->
         ApplyDefaults_Variant(documents, documents[schema.document][schema.name], value)
    [] schema.s = "object" /\ value.is = "object" ->
         LET filled == {n \in DOMAIN schema.properties : schema.properties[n].default.given
                                                        /\ (n \in DOMAIN value.fields => value.fields[n] = Null)}
         IN Object([n \in DOMAIN value.fields \cup filled |->
                      LET given == IF n \in filled THEN schema.properties[n].default.value ELSE value.fields[n]
                      IN IF n \in DOMAIN schema.properties
                         THEN ApplyDefaults_Variant(documents, schema.properties[n], given) ELSE given])
    [] schema.s = "array" /\ value.is = "list" ->
         List([k \in DOMAIN value.items |-> ApplyDefaults_Variant(documents, schema.of, value.items[k])])
    [] OTHER -> value

RECURSIVE ApplyDefaults(_, _, _)
ApplyDefaults(documents, schema, value) ==
  CASE schema.s = "ref" -> ApplyDefaults(documents, documents[schema.document][schema.name], value)
    [] schema.s = "object" /\ value.is = "object" ->
         LET filled == {n \in DOMAIN schema.properties \ DOMAIN value.fields :
                          schema.properties[n].default.given}
         IN Object([n \in DOMAIN value.fields \cup filled |->
                      LET given == IF n \in filled THEN schema.properties[n].default.value ELSE value.fields[n]
                      IN IF n \in DOMAIN schema.properties
                         THEN ApplyDefaults(documents, schema.properties[n], given) ELSE given])
    [] schema.s = "array" /\ value.is = "list" ->
         List([k \in DOMAIN value.items |-> ApplyDefaults(documents, schema.of, value.items[k])])
    [] OTHER -> value

-----------------------------------------------------------------------------
\* The three places that fill defaults agree.  Data the schema accepts is
\* accepted by the model and, with the registry's defaults filled in, by the
\* schema again; filling twice changes nothing; and the component restores the
\* same instance with and without the registry's defaults.
DefaultsAgree(documents, m, value) ==
  LET schema == ModelJsonSchema(m)
      filled == ApplyDefaults(documents, schema, value)
  IN (schema.s # "raised" /\ Valid(schema, value)) =>
       /\ Valid(schema, filled)
       /\ ApplyDefaults(documents, schema, filled) = filled
       /\ Construct(m, value.fields) # Raised
       /\ Construct(m, filled.fields) = Construct(m, value.fields)
       /\ Valid(schema, Dump(Construct(m, value.fields)))
=============================================================================
