-------------------------- MODULE PolicyEvaluator ---------------------------
(***************************************************************************)
(* The evaluation of requests against the rules of the YAML file: compare  *)
(* of app/core/operators.py, PolicyEvaluator and Guardrail.                *)
(*                                                                         *)
(* A value is a number (an int, a float or a bool, which Python takes for  *)
(* one), a text or None.  Numbers are counted in halves, so that some are  *)
(* not integers.  A text is a sequence of words; IntText and FloatText say *)
(* how Python writes the numbers.                                          *)
(***************************************************************************)
EXTENDS Integers, Sequences

CONSTANTS
  IntText,          \* function from the ints, in halves, to texts
  FloatText,        \* function from the floats, in halves, to texts
  Rank,             \* function from words to numbers: their alphabetical order
  InternalDomain,   \* INTERNAL_DOMAIN, a text
  NoRule            \* matched_rule when no rule matches

-----------------------------------------------------------------------------
\* Values.

Int2(n) == [kind |-> "int", num |-> n, text |-> <<>>]
Float2(n) == [kind |-> "float", num |-> n, text |-> <<>>]
Bool(b) == [kind |-> "bool", num |-> IF b THEN 2 ELSE 0, text |-> <<>>]
Text(s) == [kind |-> "text", num |-> 0, text |-> s]
None == [kind |-> "none", num |-> 0, text |-> <<>>]

\* The values of a rule file and of a request, as far as their texts are known.
Value ==
  {Int2(n) : n \in DOMAIN IntText} \union {Float2(n) : n \in DOMAIN FloatText}
    \union {Bool(b) : b \in BOOLEAN}
    \union [kind : {"text"}, num : {0}, text : Seq(DOMAIN Rank)]
    \union {None}

\* Two numbers are not written alike, and an int not as a float is.
ASSUME WritingAssumption ==
  /\ DOMAIN IntText \subseteq Int /\ DOMAIN FloatText \subseteq Int
  /\ \A m, n \in DOMAIN IntText : IntText[m] = IntText[n] => m = n
  /\ \A m, n \in DOMAIN FloatText : FloatText[m] = FloatText[n] => m = n
  /\ \A m \in DOMAIN IntText, n \in DOMAIN FloatText : IntText[m] # FloatText[n]

IsNumber(v) == v.kind \in {"int", "float", "bool"}

\* str(v)
Str(v) ==
  CASE v.kind = "text" -> v.text
    [] v.kind = "int" -> IntText[v.num]
    [] v.kind = "float" -> FloatText[v.num]
    [] v.kind = "bool" -> IF v.num = 0 THEN <<"False">> ELSE <<"True">>
    [] v.kind = "none" -> <<"None">>

Reads(writing, s) == \E n \in DOMAIN writing : writing[n] = s
Parsed(writing, s) == CHOOSE n \in DOMAIN writing : writing[n] = s

\* type(number)(v) for a v that is no number: int() and float() read a text, bool() asks
\* whether it is empty.  What cannot be read is left as it is.
Cast(type, v) ==
  CASE type = "bool" -> Bool(v.kind = "text" /\ v.text # <<>>)
    [] type = "int" /\ v.kind = "text" /\ Reads(IntText, v.text) ->
         Int2(Parsed(IntText, v.text))
    [] type = "float" /\ v.kind = "text" /\ Reads(IntText, v.text) ->
         Float2(Parsed(IntText, v.text))
    [] type = "float" /\ v.kind = "text" /\ Reads(FloatText, v.text) ->
         Float2(Parsed(FloatText, v.text))
    [] OTHER -> v

AsKindOf(v, other) == IF IsNumber(other) /\ ~IsNumber(v) THEN Cast(other.kind, v) ELSE v

\* Mutated form: only what the request says is converted.
Coerced_request(request_value, rule_value) ==
  <<AsKindOf(request_value, rule_value), rule_value>>

\* Of a number and something else, the something else is made a number of that type.
Coerced(request_value, rule_value) ==
  <<AsKindOf(request_value, rule_value), AsKindOf(rule_value, request_value)>>

Starts(s, t) == Len(t) <= Len(s) /\ SubSeq(s, 1, Len(t)) = t
Ends(s, t) == Len(t) <= Len(s) /\ SubSeq(s, Len(s) - Len(t) + 1, Len(s)) = t
Contains(s, t) == \E i \in 0 .. Len(s) : Starts(SubSeq(s, i + 1, Len(s)), t)

\* Alphabetical order.
TextLess(s, t) ==
  \/ Starts(t, s) /\ s # t
  \/ \E i \in 1 .. Len(s) : /\ i <= Len(t)
                            /\ SubSeq(s, 1, i - 1) = SubSeq(t, 1, i - 1)
                            /\ Rank[s[i]] < Rank[t[i]]

Comparable(x, y) == (IsNumber(x) /\ IsNumber(y)) \/ (x.kind = "text" /\ y.kind = "text")

Less(x, y) == IF IsNumber(x) THEN x.num < y.num ELSE TextLess(x.text, y.text)

\* Python's ==, which finds True equal to 1 and nothing equal to a value of another type.
Equal(x, y) == IF IsNumber(x) /\ IsNumber(y) THEN x.num = y.num ELSE x = y

Answer(b) == IF b THEN "yes" ELSE "no"

\* An unknown operator raises ValueError, an order between unlike values TypeError.
compare(request_value, operator, rule_value) ==
  LET x == Coerced(request_value, rule_value)[1]
      y == Coerced(request_value, rule_value)[2]
  IN
  CASE operator = "==" -> Answer(Equal(x, y))
    [] operator = "!=" -> Answer(~Equal(x, y))
    [] operator = "contains" -> Answer(Contains(Str(x), Str(y)))
    [] operator = "startswith" -> Answer(Starts(Str(x), Str(y)))
    [] operator = "endswith" -> Answer(Ends(Str(x), Str(y)))
    [] operator = ">" /\ Comparable(x, y) -> Answer(Less(y, x))
    [] operator = "<" /\ Comparable(x, y) -> Answer(Less(x, y))
    [] operator = ">=" /\ Comparable(x, y) -> Answer(~Less(x, y))
    [] operator = "<=" /\ Comparable(x, y) -> Answer(~Less(y, x))
    [] OTHER -> "raises"

-----------------------------------------------------------------------------
\* Conditions, rules, files.  A request has a tool, an action and fields, a function
\* from names to values.

IsRequest(r) == r \in [tool : STRING, action : STRING, fields : [DOMAIN r.fields -> Value]]

Condition == [field : STRING, operator : STRING, value : Value]

evaluate_condition(fields, c) ==
  IF c.field \in DOMAIN fields THEN compare(fields[c.field], c.operator, c.value) ELSE "no"

\* All conditions are evaluated before any() or all() looks at them.
evaluate_conditions(fields, conditions, combinator) ==
  LET results == {evaluate_condition(fields, conditions[i]) : i \in DOMAIN conditions} IN
  CASE conditions = <<>> -> "yes"
    [] "raises" \in results -> "raises"
    [] combinator = "OR" -> Answer("yes" \in results)
    [] OTHER -> Answer("no" \notin results)

evaluate_rule(rule, request) ==
  IF rule.tool # request.tool \/ rule.action # request.action
    THEN "no"
    ELSE evaluate_conditions(request.fields, rule.conditions, rule.combinator)

WithExternal(request, b) ==
  [request EXCEPT !.fields = [f \in DOMAIN @ \union {"external"} |->
     IF f = "external" THEN Bool(b) ELSE @[f]]]

IsMail(request) == /\ request.tool = "email" /\ request.action = "send"
                   /\ "recipient" \in DOMAIN request.fields

\* recipient.lower() of a number other than zero.
Unreadable(request) ==
  IsMail(request) /\ IsNumber(request.fields["recipient"])
                  /\ request.fields["recipient"].num # 0

\* Mutated form: a client's own word on whether a mail is external is taken.
Enriched_trusting(request) ==
  IF IsMail(request) /\ "external" \notin DOMAIN request.fields
    THEN WithExternal(request, LET to == request.fields["recipient"] IN
           to.text # <<>> /\ ~Ends(to.text, InternalDomain))
    ELSE request

\* Where a mail goes decides whether it is external, whatever the client says.
Enriched(request) ==
  IF IsMail(request)
    THEN WithExternal(request, LET to == request.fields["recipient"] IN
           to.text # <<>> /\ ~Ends(to.text, InternalDomain))
    ELSE request

Verdict(decision, rule) == [decision |-> decision, matched_rule |-> rule]

\* POST /policies/preview: a rule is tried on a request as it is given.
preview_rule(rule, request) ==
  CASE evaluate_rule(rule, request) = "yes" -> Verdict(rule.decision, rule.id)
    [] evaluate_rule(rule, request) = "no" -> Verdict("N/A", NoRule)
    [] OTHER -> Verdict("raises", rule.id)

\* Guardrail.evaluate: the loop over the rules in the order of the file.
evaluate(rules, request) ==
  LET rq == Enriched(request)
      from[i \in 1 .. Len(rules) + 1] ==
        IF i > Len(rules) THEN Verdict("allow", NoRule)
        ELSE CASE evaluate_rule(rules[i], rq) = "yes" ->
                    Verdict(rules[i].decision, rules[i].id)
               [] evaluate_rule(rules[i], rq) = "raises" -> Verdict("raises", rules[i].id)
               [] OTHER -> from[i + 1]
  IN IF Unreadable(request) THEN Verdict("raises", NoRule) ELSE from[1]
=============================================================================
