------------------------------- MODULE MCAgent ------------------------------
(* An instance of AgentHost for TLC: two calls of one Python tool, the     *)
(* arguments of the first of which OpenHands may rewrite to those of the   *)
(* second, and one call of the native finish tool.                         *)
EXTENDS AgentHost

CONSTANTS c1, c2, c3

MCToolOf == [c \in CallId |-> IF c = c3 THEN "finish" ELSE "edit"]
MCArgumentsOf ==
  [c \in CallId |-> CASE c = c1 -> "padded" [] c = c2 -> "plain" [] OTHER -> "text"]
MCPassedAs ==
  [c \in CallId |-> CASE c = c1 -> {"padded", "plain"} [] c = c2 -> {"plain"}
                      [] OTHER -> {"text", "other"}]
=============================================================================
