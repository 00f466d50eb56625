---------------------------- MODULE ContractBuild ---------------------------
(***************************************************************************)
(* The contract as files: proto_contracts.py compiles the proto package to *)
(* Python bindings, copies those to the SDK and reads the messages and     *)
(* their annotations; build_contracts.py writes the core schema and one    *)
(* file per extension message under contracts/, copies both to the         *)
(* resources the SDK is installed with and writes the field dictionary.  A *)
(* build may be killed between any two steps, and the next one may read an *)
(* edited package.  Each message stands for the proto file that holds it.  *)
(* What a message's schema says is left to ContractSchemas.                *)
(***************************************************************************)
CONSTANTS
  Protos,                 \* the proto packages a build may find: message |-> its declaration
  PublishedSchema(_, _),  \* the schema a build publishes for one message of a package
  FieldDictionary(_)      \* the field dictionary of a package

ASSUME ProtosAssumption ==
  \A messages \in Protos : messages = [name \in DOMAIN messages |-> messages[name]]

VARIABLES
  proto,      \* the package the build reads
  building,   \* the step of the build that is next
  bindings,   \* the generated Python bindings and their copies in the SDK
  contracts,  \* contracts/: the definitions of the core schema, the extension files
  resources,  \* their copies in the SDK
  dictionary  \* the field dictionary: message |-> its rows

contractVars == <<proto, building, bindings, contracts, resources, dictionary>>

\* Files written over those that are there; no file is removed.
Over(files, there) ==
  [name \in DOMAIN files \cup DOMAIN there |->
     IF name \in DOMAIN files THEN files[name] ELSE there[name]]

-----------------------------------------------------------------------------
(* build_contracts.py, main.                                               *)

\* The messages that become extensions.
Configs(messages) == {name \in DOMAIN messages : messages[name].extension}

Document(messages, names) == [name \in names |-> PublishedSchema(messages, name)]

\* What a build is to leave in either directory.
Published(messages) ==
  [core |-> Document(messages, DOMAIN messages \ Configs(messages)),
   extensions |-> Document(messages, Configs(messages))]

ContractInit ==
  /\ proto \in Protos /\ building = "done"
  /\ bindings = [generated |-> proto, sdk |-> proto]
  /\ contracts = Published(proto) /\ resources = contracts
  /\ dictionary = FieldDictionary(proto)

\* The compiler writes the bindings of the files it finds, and removes none.
CompileProtos ==
  /\ building \in {"done", "killed"}
  /\ proto' \in Protos /\ building' = "bindings"
  /\ bindings' = [bindings EXCEPT !.generated = Over(proto', @)]
  /\ UNCHANGED <<contracts, resources, dictionary>>

\* As a bug: a binding that is there already is not copied again.
BindingCopied_Variant(name) == name \in DOMAIN bindings.sdk

BindingCopied(name) == name \in DOMAIN bindings.sdk
                       /\ bindings.sdk[name] = bindings.generated[name]

CopyBinding(name) ==
  /\ building = "bindings"
  /\ name \in DOMAIN bindings.generated /\ ~BindingCopied(name)
  /\ bindings' = [bindings EXCEPT !.sdk = Over([n \in {name} |-> bindings.generated[n]], @)]
  /\ UNCHANGED <<proto, building, contracts, resources, dictionary>>

\* load_contracts returns: the contract has been read, main starts.
StartBuild ==
  /\ building = "bindings" /\ \A name \in DOMAIN bindings.generated : BindingCopied(name)
  /\ building' = "clear"
  /\ UNCHANGED <<proto, bindings, contracts, resources, dictionary>>

ClearExtensions ==
  /\ building = "clear"
  /\ contracts' = [contracts EXCEPT !.extensions = Document(proto, {})]
  /\ building' = "extensions"
  /\ UNCHANGED <<proto, bindings, resources, dictionary>>

WriteExtension(name) ==
  /\ building = "extensions"
  /\ name \in Configs(proto) \ DOMAIN contracts.extensions
  /\ contracts' = [contracts EXCEPT !.extensions = Over(Document(proto, {name}), @)]
  /\ UNCHANGED <<proto, building, bindings, resources, dictionary>>

\* The loop has popped every extension from the core before it is written.
WriteCore ==
  /\ building = "extensions" /\ DOMAIN contracts.extensions = Configs(proto)
  /\ contracts' = [contracts EXCEPT !.core = Published(proto).core]
  /\ building' = "copy_core"
  /\ UNCHANGED <<proto, bindings, resources, dictionary>>

CopyCore ==
  /\ building = "copy_core"
  /\ resources' = [resources EXCEPT !.core = contracts.core]
  /\ building' = "copy_extensions"
  /\ UNCHANGED <<proto, bindings, contracts, dictionary>>

Copied(name) == name \in DOMAIN resources.extensions
                /\ resources.extensions[name] = contracts.extensions[name]

\* copytree, file by file; what is there already is overwritten, not removed.
CopyExtension(name) ==
  /\ building = "copy_extensions"
  /\ name \in DOMAIN contracts.extensions /\ ~Copied(name)
  /\ resources' = [resources EXCEPT !.extensions = Over([n \in {name} |-> contracts.extensions[n]], @)]
  /\ UNCHANGED <<proto, building, bindings, contracts, dictionary>>

\* As a bug: only what this build has written is copied, and nothing removed.
DropStale_Variant ==
  /\ building = "copy_extensions" /\ \A name \in DOMAIN contracts.extensions : Copied(name)
  /\ building' = "dictionary"
  /\ UNCHANGED <<proto, bindings, contracts, resources, dictionary>>

DropStale ==
  /\ building = "copy_extensions" /\ \A name \in DOMAIN contracts.extensions : Copied(name)
  /\ resources' = [resources EXCEPT !.extensions = [name \in DOMAIN @ \cap DOMAIN contracts.extensions |-> @[name]]]
  /\ building' = "dictionary"
  /\ UNCHANGED <<proto, bindings, contracts, dictionary>>

WriteDictionary ==
  /\ building = "dictionary"
  /\ dictionary' = FieldDictionary(proto)
  /\ building' = "done"
  /\ UNCHANGED <<proto, bindings, contracts, resources>>

Killed ==
  /\ building \notin {"done", "killed"}
  /\ building' = "killed"
  /\ UNCHANGED <<proto, bindings, contracts, resources, dictionary>>

ContractNext ==
  \/ CompileProtos \/ StartBuild \/ ClearExtensions \/ WriteCore \/ CopyCore \/ DropStale
  \/ WriteDictionary \/ Killed
  \/ \E messages \in Protos : \E name \in DOMAIN messages :
       CopyBinding(name) \/ WriteExtension(name) \/ CopyExtension(name)

ContractSpec == ContractInit /\ [][ContractNext]_contractVars

-----------------------------------------------------------------------------
\* A contract build that ends leaves exactly its own contract in both places and
\* the dictionary with its fields, whatever earlier builds were killed at and
\* whatever package they read.  Bindings are only written over: every message's
\* is current, and the SDK has exactly what was generated, the bindings of
\* messages that are gone among them.
\* (proto_contracts.py load_contracts, build_contracts.py main)
BuildIsComplete ==
  building = "done" =>
    /\ contracts = Published(proto) /\ resources = contracts
    /\ \A name \in DOMAIN proto : name \in DOMAIN bindings.sdk /\ bindings.sdk[name] = proto[name]
    /\ bindings.sdk = bindings.generated
    /\ dictionary = FieldDictionary(proto)
=============================================================================
