-------------------------- MODULE MCPlanAndAttempt --------------------------
(* Instances of Packages and of EpisodeSupervisor: what happens before an   *)
(* episode is submitted, and one attempt that follows one which has made a  *)
(* call already.  The two share no state, so only one of them moves.        *)
EXTENDS MCPackages, EpisodeSupervisor

VARIABLE part  \* what moves: "plan" or "attempt"

MCConsumed == [generations |-> 1, tools |-> 0, tokens |-> 1]

\* Where an attempt runs nothing is built.
NothingBuilt ==
  /\ building = "killed" /\ step = "contracts"
  /\ proto = <<>> /\ bindings = <<>> /\ contracts = <<>> /\ resources = <<>> /\ dictionary = <<>>
  /\ declaration = None /\ public = None /\ row = None /\ files = {} /\ registry = <<>> /\ manifest = None
  /\ wire = None /\ run = None /\ plan = None /\ delivered = None /\ error = ""

MCInit ==
  /\ Init
  /\ \/ part = "plan" /\ PackageInit /\ scored
     \/ part = "attempt" /\ NothingBuilt

MCNext ==
  \/ part = "plan" /\ PackageNext /\ UNCHANGED <<vars, part>>
  \/ part = "attempt" /\ Next /\ UNCHANGED <<buildVars, part>>

\* Bound: hosts whose close fails.
FewFailedCloses == Cardinality({h \in Hosts : closed[h] = "failed"}) <= 2

MCSpec == MCInit /\ [][MCNext]_<<vars, buildVars, part>>
=============================================================================
