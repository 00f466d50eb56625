---------------------------- MODULE MCEnvironment ----------------------------
(* The instance of EnvironmentHost for TLC.                                 *)
EXTENDS EnvironmentHost

CONSTANTS t1, h1

Binding(name, native) == [name |-> name, implementation |-> 1,
                          native |-> native, config_matches |-> TRUE]
MCCall == {[name |-> "a", implementation |-> 1, id |-> i] : i \in 1 .. 2}
MCTable == {{}, {Binding("a", "no"), Binding("b", "no")}, {Binding("a", "own")}}
=============================================================================
