----------------------------- MODULE BuildProofs ----------------------------
(***************************************************************************)
(* What ContractBuild promises, for every set of proto packages and        *)
(* whatever their schemas and dictionaries are.  The invariant says, for   *)
(* each step of the build, which of the files are this package's already;  *)
(* a build that is killed leaves nothing to rely on.                       *)
(***************************************************************************)
EXTENDS ContractBuild, TLAPS

Steps == {"bindings", "clear", "extensions", "copy_core", "copy_extensions", "dictionary", "done", "killed"}

\* A set of files is a function from names to contents.
Files(files) == files = [name \in DOMAIN files |-> files[name]]

BuildShape ==
  /\ building \in Steps
  /\ bindings = [generated |-> bindings.generated, sdk |-> bindings.sdk]
  /\ contracts = [core |-> contracts.core, extensions |-> contracts.extensions]
  /\ resources = [core |-> resources.core, extensions |-> resources.extensions]
  /\ Files(resources.extensions) /\ Files(bindings.generated) /\ Files(bindings.sdk)

\* The compiler has written every binding of the package, the copy follows; it
\* has no binding that was not generated at some time.
BindingsFollow ==
  /\ DOMAIN bindings.sdk \subseteq DOMAIN bindings.generated
  /\ building # "killed" =>
       \A name \in DOMAIN proto :
         name \in DOMAIN bindings.generated /\ bindings.generated[name] = proto[name]
  /\ building \notin {"bindings", "killed"} => bindings.sdk = bindings.generated

\* From the cleared directory on, every extension file is this package's.
ContractsFollow ==
  /\ building = "extensions" =>
       /\ contracts.extensions = Document(proto, DOMAIN contracts.extensions)
       /\ DOMAIN contracts.extensions \subseteq Configs(proto)
  /\ building \in {"copy_core", "copy_extensions", "dictionary", "done"} => contracts = Published(proto)

ResourcesFollow ==
  /\ building = "copy_extensions" => resources.core = contracts.core
  /\ building \in {"dictionary", "done"} => resources = contracts
  /\ building = "done" => dictionary = FieldDictionary(proto)

BuildInv == BuildShape /\ BindingsFollow /\ ContractsFollow /\ ResourcesFollow
-----------------------------------------------------------------------------
\* Files written over others are files.
LEMMA OverFiles ==
  ASSUME NEW files, NEW there
  PROVE  Files(Over(files, there))
BY DEF Over, Files

LEMMA BuildStart ==
  ASSUME ContractInit
  PROVE  BuildInv
<1>1. Files(proto)
  BY ProtosAssumption DEF ContractInit, Files
<1> QED  BY <1>1 DEF ContractInit, BuildInv, BuildShape, BindingsFollow, ContractsFollow,
    ResourcesFollow, Steps, Files, Published, Document

\* The compiler writes over what is there: its own bindings are all current.
LEMMA CompilePreserves ==
  ASSUME BuildInv, CompileProtos
  PROVE  BuildInv'
<1> DEFINE written == Over(proto', bindings.generated)
<1>1. /\ building' = "bindings" /\ UNCHANGED <<contracts, resources, dictionary>>
      /\ bindings'.generated = written /\ bindings'.sdk = bindings.sdk
      /\ bindings' = [generated |-> written, sdk |-> bindings.sdk]
  BY DEF CompileProtos, BuildInv, BuildShape
<1>2. /\ \A name \in DOMAIN proto' : name \in DOMAIN written /\ written[name] = proto'[name]
      /\ DOMAIN bindings.generated \subseteq DOMAIN written
  BY DEF Over
<1>3. BuildShape'
  <2>1. Files(written)
    BY OverFiles
  <2> QED  BY <1>1, <2>1 DEF BuildInv, BuildShape, Steps, Files
<1>4. BindingsFollow'
  BY <1>1, <1>2 DEF BuildInv, BindingsFollow
<1> QED  BY <1>1, <1>3, <1>4 DEF BuildInv, ContractsFollow, ResourcesFollow

LEMMA CopyBindingPreserves ==
  ASSUME BuildInv, NEW name, CopyBinding(name)
  PROVE  BuildInv'
<1> DEFINE written == Over([n \in {name} |-> bindings.generated[n]], bindings.sdk)
<1>1. /\ building = "bindings" /\ UNCHANGED <<proto, building, contracts, resources, dictionary>>
      /\ bindings'.generated = bindings.generated
      /\ bindings' = [generated |-> bindings.generated, sdk |-> written] /\ bindings'.sdk = written
  BY DEF CopyBinding, BuildInv, BuildShape
<1>2. Files(written)
  BY OverFiles
<1>3. DOMAIN written \subseteq DOMAIN bindings.generated
  BY DEF Over, CopyBinding, BuildInv, BindingsFollow
<1>4. BuildShape'
  BY <1>1, <1>2 DEF BuildInv, BuildShape, Files
<1>5. BindingsFollow'
  BY <1>1, <1>3 DEF BuildInv, BindingsFollow
<1> QED  BY <1>1, <1>4, <1>5 DEF BuildInv, ContractsFollow, ResourcesFollow

\* Every binding is copied, and the copy has no other: it is what was generated.
LEMMA StartPreserves ==
  ASSUME BuildInv, StartBuild
  PROVE  BuildInv'
<1>1. /\ building = "bindings" /\ building' = "clear"
      /\ UNCHANGED <<proto, bindings, contracts, resources, dictionary>>
      /\ \A name \in DOMAIN bindings.generated :
           name \in DOMAIN bindings.sdk /\ bindings.sdk[name] = bindings.generated[name]
  BY DEF StartBuild, BindingCopied
<1>2. bindings.sdk = bindings.generated
  BY <1>1 DEF BuildInv, BuildShape, Files, BindingsFollow
<1>3. BindingsFollow'
  BY <1>1, <1>2 DEF BuildInv, BindingsFollow
<1> QED  BY <1>1, <1>3 DEF BuildInv, BuildShape, Steps, Files, ContractsFollow, ResourcesFollow

LEMMA ClearPreserves ==
  ASSUME BuildInv, ClearExtensions
  PROVE  BuildInv'
<1>1. /\ building = "clear" /\ building' = "extensions"
      /\ UNCHANGED <<proto, bindings, resources, dictionary>>
      /\ contracts' = [core |-> contracts.core, extensions |-> Document(proto, {})]
  BY DEF ClearExtensions, BuildInv, BuildShape
<1>2. contracts'.extensions = Document(proto, {}) /\ contracts'.core = contracts.core
  BY <1>1
<1>3. DOMAIN contracts'.extensions = {}
  BY <1>2 DEF Document
<1>4. ContractsFollow'
  BY <1>1, <1>2, <1>3 DEF ContractsFollow
<1> QED  BY <1>1, <1>2, <1>4 DEF BuildInv, BuildShape, Steps, Files, BindingsFollow,
    ResourcesFollow

\* One more file of this package, next to the ones that are.
LEMMA WriteExtensionPreserves ==
  ASSUME BuildInv, NEW name, WriteExtension(name)
  PROVE  BuildInv'
<1> DEFINE there == contracts.extensions
           written == Over(Document(proto, {name}), there)
<1>1. /\ building = "extensions" /\ UNCHANGED <<proto, building, bindings, resources, dictionary>>
      /\ name \in Configs(proto)
      /\ contracts' = [core |-> contracts.core, extensions |-> written]
  BY DEF WriteExtension, BuildInv, BuildShape
<1>2. contracts'.extensions = written /\ contracts'.core = contracts.core
  BY <1>1
<1>3. there = Document(proto, DOMAIN there) /\ DOMAIN there \subseteq Configs(proto)
  BY <1>1 DEF BuildInv, ContractsFollow
<1>4. written = Document(proto, DOMAIN there \cup {name})
  <2>1. \A n \in DOMAIN there : there[n] = PublishedSchema(proto, n)
    BY <1>3 DEF Document
  <2> QED  BY <2>1 DEF Over, Document
<1>5. DOMAIN written = DOMAIN there \cup {name}
  BY <1>4 DEF Document
<1>6. ContractsFollow'
  BY <1>1, <1>2, <1>3, <1>4, <1>5 DEF ContractsFollow
<1> QED  BY <1>1, <1>2, <1>6 DEF BuildInv, BuildShape, Files, BindingsFollow, ResourcesFollow

LEMMA WriteCorePreserves ==
  ASSUME BuildInv, WriteCore
  PROVE  BuildInv'
<1>1. /\ building = "extensions" /\ building' = "copy_core"
      /\ UNCHANGED <<proto, bindings, resources, dictionary>>
      /\ contracts' = [core |-> Published(proto).core, extensions |-> contracts.extensions]
      /\ contracts.extensions = Document(proto, Configs(proto))
  BY DEF WriteCore, BuildInv, BuildShape, ContractsFollow
<1>2. contracts' = Published(proto)
  BY <1>1 DEF Published
<1>3. BuildShape'
  BY <1>1, <1>2 DEF BuildInv, BuildShape, Steps, Files, Published
<1> QED  BY <1>1, <1>2, <1>3 DEF BuildInv, BindingsFollow, ContractsFollow, ResourcesFollow

LEMMA CopyCorePreserves ==
  ASSUME BuildInv, CopyCore
  PROVE  BuildInv'
<1>1. /\ building = "copy_core" /\ building' = "copy_extensions"
      /\ UNCHANGED <<proto, bindings, contracts, dictionary>>
      /\ resources' = [core |-> contracts.core, extensions |-> resources.extensions]
  BY DEF CopyCore, BuildInv, BuildShape
<1>2. resources'.core = contracts.core /\ resources'.extensions = resources.extensions
  BY <1>1
<1> QED  BY <1>1, <1>2 DEF BuildInv, BuildShape, Steps, Files, BindingsFollow, ContractsFollow,
    ResourcesFollow

LEMMA CopyExtensionPreserves ==
  ASSUME BuildInv, NEW name, CopyExtension(name)
  PROVE  BuildInv'
<1> DEFINE written == Over([n \in {name} |-> contracts.extensions[n]], resources.extensions)
<1>1. /\ building = "copy_extensions" /\ UNCHANGED <<proto, building, bindings, contracts, dictionary>>
      /\ resources' = [core |-> resources.core, extensions |-> written]
  BY DEF CopyExtension, BuildInv, BuildShape
<1>2. resources'.core = resources.core /\ resources'.extensions = written
  BY <1>1
<1>3. Files(written)
  BY OverFiles
<1>4. BuildShape'
  BY <1>1, <1>2, <1>3 DEF BuildInv, BuildShape, Files
<1> QED  BY <1>1, <1>2, <1>4 DEF BuildInv, BindingsFollow, ContractsFollow, ResourcesFollow

\* Every file is copied and the others are dropped: the copy is the contract.
LEMMA DropPreserves ==
  ASSUME BuildInv, DropStale
  PROVE  BuildInv'
<1> DEFINE there == resources.extensions
           wanted == contracts.extensions
           kept == [name \in DOMAIN there \cap DOMAIN wanted |-> there[name]]
<1>1. /\ building = "copy_extensions" /\ building' = "dictionary"
      /\ UNCHANGED <<proto, bindings, contracts, dictionary>>
      /\ resources' = [core |-> resources.core, extensions |-> kept]
      /\ \A name \in DOMAIN wanted : name \in DOMAIN there /\ there[name] = wanted[name]
  BY DEF DropStale, Copied, BuildInv, BuildShape
<1>2. /\ contracts = Published(proto) /\ resources.core = contracts.core
      /\ contracts = [core |-> contracts.core, extensions |-> wanted]
  BY <1>1 DEF BuildInv, BuildShape, ContractsFollow, ResourcesFollow
<1>3. wanted = Document(proto, Configs(proto))
  BY <1>2 DEF Published
<1>4. wanted = [name \in DOMAIN wanted |-> wanted[name]]
  BY <1>3 DEF Document
<1>5. kept = wanted
  BY <1>1, <1>4
<1>6. resources' = contracts
  BY <1>1, <1>2, <1>5
<1>7. BuildShape'
  BY <1>1, <1>2, <1>4, <1>6 DEF BuildInv, BuildShape, Steps, Files
<1> QED  BY <1>1, <1>2, <1>6, <1>7 DEF BuildInv, BindingsFollow, ContractsFollow,
    ResourcesFollow

LEMMA BuildStepPreserves ==
  ASSUME BuildInv, ContractNext
  PROVE  BuildInv'
<1>1. CASE WriteDictionary
  BY <1>1 DEF WriteDictionary, BuildInv, BuildShape, Steps, Files, BindingsFollow,
      ContractsFollow,
              ResourcesFollow
<1>2. CASE Killed
  BY <1>2 DEF Killed, BuildInv, BuildShape, Steps, Files, BindingsFollow, ContractsFollow,
      ResourcesFollow
<1> QED
  BY <1>1, <1>2, CompilePreserves, CopyBindingPreserves, StartPreserves, ClearPreserves,
     WriteExtensionPreserves, WriteCorePreserves, CopyCorePreserves, CopyExtensionPreserves,
     DropPreserves
  DEF ContractNext

-----------------------------------------------------------------------------
\* The inductive invariant of the build: at each step the files written so far
\* are this package's, although a killed build, of another package perhaps,
\* may have left any others.  (load_contracts, main)
THEOREM BuildInvariant == ContractSpec => []BuildInv
<1>1. ContractInit => BuildInv
  BY BuildStart
<1>2. BuildInv /\ [ContractNext]_contractVars => BuildInv'
  <2>1. CASE UNCHANGED contractVars
    BY <2>1 DEF contractVars, BuildInv, BuildShape, Files, BindingsFollow, ContractsFollow,
        ResourcesFollow
  <2> QED  BY <2>1, BuildStepPreserves
<1> QED  BY <1>1, <1>2, PTL DEF ContractSpec

\* A build that ends leaves exactly the contract of the package it read, in
\* contracts/, in the SDK and in the dictionary, and in the SDK exactly what has
\* been generated: its bindings, and those of messages that are gone.
\* (load_contracts, main)
THEOREM BuildIsCompleteHolds == ContractSpec => []BuildIsComplete
<1>1. BuildInv => BuildIsComplete
  BY DEF BuildInv, BindingsFollow, ContractsFollow, ResourcesFollow, BuildIsComplete
<1> QED  BY <1>1, BuildInvariant, PTL
=============================================================================
