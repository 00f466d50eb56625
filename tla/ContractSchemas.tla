--------------------------- MODULE ContractSchemas --------------------------
(***************************************************************************)
(* What the contract says: the JSON Schema of a proto message              *)
(* (proto_contracts.py), with its references turned to the documents       *)
(* build_contracts.py splits it into, and the rows of the field            *)
(* dictionary.  Descriptions are left out.                                 *)
(*                                                                         *)
(* The recursive operators follow the code; the module is only             *)
(* model-checked.                                                          *)
(***************************************************************************)
EXTENDS TypedModels, ContractBuild

-----------------------------------------------------------------------------
(* load_contracts.                                                         *)

Reference(document, name) == [s |-> "ref", document |-> document, name |-> name, default |-> NoDefault]

\* A field's own schema: a scalar, a Struct, whose annotation may name its
\* properties, any Value, or a reference to a message within the same document;
\* repeated fields are arrays.
FieldSchema(field) ==
  LET item == CASE field.type = "scalar" -> Schema("string")
                [] field.type = "struct" ->
                     IF DOMAIN field.properties = {} THEN Schema("struct")
                     ELSE [s |-> "object", properties |-> field.properties,
                           required |-> DOMAIN field.properties, default |-> NoDefault]
                [] field.type = "value" -> Schema("any")
                [] OTHER -> Reference("local", field.type)
  IN [IF field.repeated THEN SchemaOf("array", item) ELSE item EXCEPT !.default = field.default]

\* A message without fields may instead be a union of others.
MessageSchema(message) ==
  IF DOMAIN message.fields = {} /\ message.union # {}
  THEN [s |-> "oneOf", of |-> {Reference("local", name) : name \in message.union}, default |-> NoDefault]
  ELSE [s |-> "object", properties |-> [n \in DOMAIN message.fields |-> FieldSchema(message.fields[n])],
        required |-> {n \in DOMAIN message.fields : message.fields[n].required}, default |-> NoDefault]

-----------------------------------------------------------------------------
(* build_contracts.py, main.                                               *)

\* Each document is split off, so a reference names the document that now
\* holds the message.  As a bug: it is taken to stay in the core.
ExternalReference_Variant(name, configs) == Reference("core", name)

ExternalReference(name, configs) ==
  Reference(IF name \in configs THEN "extensions" ELSE "core", name)

\* external_refs: only the reference itself changes, its default stays.
RECURSIVE ExternalRefs(_, _)
ExternalRefs(schema, configs) ==
  CASE schema.s = "ref" -> [ExternalReference(schema.name, configs) EXCEPT !.default = schema.default]
    [] schema.s = "array" -> [schema EXCEPT !.of = ExternalRefs(@, configs)]
    [] schema.s = "oneOf" -> [schema EXCEPT !.of = {ExternalRefs(s, configs) : s \in @}]
    [] schema.s = "object" ->
         [schema EXCEPT !.properties = [n \in DOMAIN @ |-> ExternalRefs(@[n], configs)]]
    [] OTHER -> schema

SplitSchema(messages, name) == ExternalRefs(MessageSchema(messages[name]), Configs(messages))

\* field_rows: one row per field, and below it the rows of an annotated object,
\* or of an array of them.
RECURSIVE FieldRows(_, _)
FieldRows(schema, prefix) ==
  UNION {LET value == schema.properties[n]
             item == IF value.s = "array" THEN value.of ELSE value
         IN {[field |-> Append(prefix, n), array |-> value.s = "array",
              type |-> IF item.s = "ref" THEN item.name ELSE item.s,
              required |-> n \in schema.required, default |-> value.default]}
            \cup IF item.s = "object" THEN FieldRows(item, Append(prefix, n)) ELSE {}
         : n \in DOMAIN schema.properties}

\* The dictionary: the members of a union, else the rows of the message.
Dictionary(messages) ==
  [name \in DOMAIN messages |->
     LET schema == MessageSchema(messages[name])
     IN IF schema.s = "oneOf" THEN [union |-> {r.name : r \in schema.of}, rows |-> {}]
        ELSE [union |-> {}, rows |-> FieldRows(schema, <<>>)]]

-----------------------------------------------------------------------------
\* The messages a schema refers to, with the document each is expected in.
RECURSIVE References(_)
References(schema) ==
  CASE schema.s = "ref" -> {<<schema.document, schema.name>>}
    [] schema.s = "oneOf" -> UNION {References(s) : s \in schema.of}
    [] schema.s \in {"array", "map", "anyOf"} -> References(schema.of)
    [] schema.s = "object" -> UNION {References(schema.properties[n]) : n \in DOMAIN schema.properties}
    [] OTHER -> {}

Resolves(schema) ==
  \A r \in References(schema) :
    r[1] \in {"core", "extensions"} /\ r[2] \in DOMAIN resources[r[1]]
=============================================================================
