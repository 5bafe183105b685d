--------------------------- MODULE MCPolicyStore ----------------------------
(* Two workers that start, at once or one after the other, on an empty     *)
(* database or on one an earlier start has filled, and two requests: one of*)
(* each endpoint about a rule of the YAML file, and a file that takes the  *)
(* rules in the other order and names one of them twice.                   *)
EXTENDS PolicyStore

CONSTANTS r1, r2

Yaml == <<r1, r2>>

Asked ==
  { [kind |-> "create", rules |-> <<r1>>, enabled |-> "off"],
    [kind |-> "update", rules |-> <<r1>>, enabled |-> "keep"],
    [kind |-> "toggle", rules |-> <<r1>>, enabled |-> "off"],
    [kind |-> "delete", rules |-> <<r1>>, enabled |-> "keep"],
    [kind |-> "import", rules |-> <<r2, r1, r2>>, enabled |-> "on"] }
=============================================================================
