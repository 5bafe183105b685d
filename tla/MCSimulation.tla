---------------------------- MODULE MCSimulation ----------------------------
(* The five scenarios of the code, and rule files of at most two of eleven *)
(* rules, besides the default file.  Numbers are in halves: 200 is a 100,  *)
(* 5 is a 2.5.                                                             *)
EXTENDS Simulation, TLC

IntTexts == (10 :> <<"5">>) @@ (200 :> <<"100">>) @@ (1000 :> <<"500">>)
FloatTexts == (10 :> <<"5", ".0">>) @@ (5 :> <<"2.5">>) @@ (200 :> <<"100", ".0">>)
Ranks == (".0" :> 0) @@ ("100" :> 1) @@ ("2.5" :> 2) @@ ("5" :> 3) @@ ("500" :> 4)
           @@ ("@company" :> 5) @@ ("anna" :> 6) @@ ("salary" :> 7) @@ ("False" :> 8)
           @@ ("True" :> 9) @@ ("None" :> 10)
Domain == <<"@company">>

Deletes(v) == [tool |-> "database", action |-> "delete", fields |-> "count" :> v]
Mail(to) == [tool |-> "email", action |-> "send", fields |-> "recipient" :> to]

TheScenarios == <<
  Deletes(Int2(1000)), Deletes(Int2(10)),
  WithExternal(Mail(Text(<<"anna">>)), TRUE),
  WithExternal(Mail(Text(<<"anna", "@company">>)), FALSE),
  [tool |-> "file", action |-> "read", fields |-> "path" :> Text(<<"salary">>)]>>

Asked == {TheScenarios[i] : i \in DOMAIN TheScenarios} \union
  {Deletes(v) : v \in {Int2(200), Float2(10), Float2(5), Text(<<"500">>), Bool(TRUE), None}}
  \union {Mail(v) : v \in {Int2(10), None, Text(<<>>)}}
  \union {[tool |-> "email", action |-> "send", fields |-> <<>>]}

If(id, like, combinator, conditions, d) ==
  [id |-> id, tool |-> like.tool, action |-> like.action, combinator |-> combinator,
   conditions |-> conditions, decision |-> d]
Field(f, op, v) == [field |-> f, operator |-> op, value |-> v]

OnDelete(id, conditions, d) == If(id, TheScenarios[1], "AND", conditions, d)
OnMail(id, conditions, d) == If(id, TheScenarios[3], "AND", conditions, d)
OnRead(id, conditions, d) == If(id, TheScenarios[5], "AND", conditions, d)

LargeDelete == OnDelete("large", <<Field("count", ">", Int2(200))>>, "block")
External == OnMail("external", <<Field("external", "==", Bool(TRUE))>>, "require_hitl")
Confidential == OnRead("read", <<Field("path", "contains", Text(<<"salary">>))>>, "log_and_allow")

Rules == {
  LargeDelete, External, Confidential,
  OnDelete("few", <<Field("count", "<=", Float2(10)), Field("count", "!=", Int2(200))>>,
           "log_and_allow"),
  OnDelete("fraction", <<Field("count", "==", Float2(5))>>, "unheard_of"),
  OnDelete("text", <<Field("count", ">=", Text(<<"100">>))>>, "require_hitl"),
  OnDelete("all", <<>>, "block"),
  If("either", TheScenarios[1], "OR",
     <<Field("table", "==", Text(<<"salary">>)), Field("count", "<", Int2(200))>>, "block"),
  OnMail("typo", <<Field("recipient", "=<", Text(<<"anna">>))>>, "block"),
  OnMail("kinds", <<Field("recipient", "startswith", Text(<<"anna">>)),
                    Field("recipient", ">", Int2(10))>>, "allow"),
  OnMail("inside", <<Field("recipient", "endswith", Text(Domain))>>, "log_and_allow")}

Files == {<<>>, <<LargeDelete, External, Confidential>>} \union {<<r>> : r \in Rules}
           \union {<<r, s>> : r \in Rules, s \in Rules}

Class(name, action, valid, builds, decorated) ==
  [name |-> name, actions |-> {action}, valid |-> valid, builds |-> builds,
   decorated |-> decorated]
File(classes) == [loads |-> TRUE, classes |-> classes]
Good(name, action) == Class(name, action, TRUE, TRUE, FALSE)

BuiltIn == <<File(<<Good("database", "delete")>>), File(<<Good("email", "send")>>),
             File(<<Good("file", "read")>>)>>

\* The tools of the repository; a plugin that takes the place of one; files that do not
\* load, a class that is invalid before one that is not, constructors that raise.
Directories == {
  BuiltIn \o <<File(<<Good("log", "write")>>)>>,
  BuiltIn \o <<File(<<Class("email", "list", TRUE, TRUE, TRUE)>>)>>,
  <<File(<<Class("file", "read", FALSE, TRUE, TRUE), Good("file", "read")>>),
    [loads |-> FALSE, classes |-> <<Class("log", "write", TRUE, TRUE, TRUE)>>],
    File(<<Class("log", "write", TRUE, FALSE, TRUE), Good("log", "list")>>),
    BuiltIn[1]>>,
  BuiltIn \o <<File(<<Class("log", "write", TRUE, FALSE, FALSE)>>)>>}
=============================================================================
