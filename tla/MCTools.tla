------------------------------ MODULE MCTools -------------------------------
(* Instances of ToolHost for TLC: a table that prepare refuses and one of   *)
(* two tools that it installs.                                             *)
EXTENDS ToolHost

CONSTANTS t1, t2, h1, h2

Binding(name, native) == [name |-> name, implementation |-> 1,
                          native |-> native, config_matches |-> TRUE]
MCCall == {[name |-> "a", implementation |-> 1, id |-> i] : i \in 1 .. 2}
MCTable == {{Binding("a", "no"), Binding("b", "own")},
            {Binding("a", "no"), Binding("b", "foreign")}}
=============================================================================
