----------------------------- MODULE Simulation -----------------------------
(***************************************************************************)
(* GET /simulate: Simulation.run of app/simulator/simulation.py, which     *)
(* evaluates and executes a list of scenarios, and the dry run of /execute.*)
(* Both use the tools that discovery found and the rule file, which is read*)
(* anew for every request and may change while a simulation is under way.  *)
(*                                                                         *)
(* Two simulations share the rule file and the audit log only; one is      *)
(* modelled, with its own audit entries.                                   *)
(***************************************************************************)
EXTENDS PolicyEvaluator, ToolRegistry

CONSTANTS
  RuleFiles,        \* what the rule file may hold: sequences of rules
  Torn,             \* a rule file that is half written and no longer YAML
  Scenarios,        \* the list of run
  Requests,         \* what clients may ask for, the scenarios among it
  MaxEdits,         \* bound on the changes of the rule file
  NoRun             \* no row in simulation_runs

\* What a rule may decide; "unheard_of" stands for what is none of VALID_DECISIONS.
Outcomes == {"block", "require_hitl", "log_and_allow", "allow", "unheard_of"}

Rule == [id : STRING, tool : STRING, action : STRING, combinator : STRING,
         conditions : Seq(Condition), decision : Outcomes]

ASSUME RulesAssumption == RuleFiles \subseteq Seq(Rule) /\ Torn \notin RuleFiles
ASSUME RequestsAssumption == \A r \in Requests : IsRequest(r)
ASSUME ScenariosAssumption == Scenarios \in Seq(Requests) \ {<<>>}

VARIABLES
  policyFile,       \* the rule file
  edits,            \* how often it was changed
  spc,              \* where the simulation is
  at,               \* the scenario under way
  verdict,          \* its verdict
  tally,            \* blocked, hitl, allowed, logged
  audits,           \* audit entries of each decision
  toolRuns,         \* calls of a plugin's execute
  saved             \* the row in simulation_runs

fileVars == <<policyFile, edits>>
runVars == <<spc, at, verdict, tally, audits, toolRuns, saved>>
vars == <<registryVars, fileVars, runVars>>

Init ==
  /\ RegistryInit
  /\ policyFile \in RuleFiles
  /\ edits = 0
  /\ spc = "idle"
  /\ at = 1
  /\ verdict = Verdict("allow", NoRule)
  /\ tally = [d \in Outcomes \ {"unheard_of"} |-> 0]
  /\ audits = [d \in Outcomes |-> 0]
  /\ toolRuns = 0
  /\ saved = NoRun

-----------------------------------------------------------------------------
\* The deployment writes a new rule file over the old one, which is not one step.
BeginEdit ==
  /\ policyFile # Torn /\ edits < MaxEdits
  /\ policyFile' = Torn /\ edits' = edits + 1
  /\ UNCHANGED <<registryVars, runVars>>

EndEdit ==
  /\ policyFile = Torn
  /\ policyFile' \in RuleFiles
  /\ UNCHANGED <<registryVars, edits, runVars>>

-----------------------------------------------------------------------------
\* Simulation.run.  What raises ends it with status 500 and no row.

Fail == spc' = "failed"

\* The application only serves requests once discovery is complete.
Begin ==
  /\ discovery = "complete" /\ spc = "idle"
  /\ spc' = "evaluate"
  /\ UNCHANGED <<registryVars, fileVars, at, verdict, tally, audits, toolRuns, saved>>

\* PolicyLoader.load_rules raises.
Unloadable == policyFile = Torn

Evaluate ==
  LET v == IF Unloadable THEN Verdict("raises", NoRule)
                                ELSE evaluate(policyFile, Scenarios[at])
  IN
  /\ spc = "evaluate"
  /\ IF v.decision = "raises" THEN Fail /\ UNCHANGED verdict
                              ELSE spc' = "audit" /\ verdict' = v
  /\ UNCHANGED <<registryVars, fileVars, at, tally, audits, toolRuns, saved>>

\* Mutated form: a failure to audit is passed over.
Audit_swallowed ==
  /\ spc = "audit"
  /\ spc' = "act"
  /\ \/ audits' = [audits EXCEPT ![verdict.decision] = @ + 1]
     \/ UNCHANGED audits
  /\ UNCHANGED <<registryVars, fileVars, at, verdict, tally, toolRuns, saved>>

\* audit.log writes its entry, or raises with or without it.
Audit ==
  /\ spc = "audit"
  /\ \/ audits' = [audits EXCEPT ![verdict.decision] = @ + 1] /\ spc' = "act"
     \/ audits' = [audits EXCEPT ![verdict.decision] = @ + 1] /\ Fail
     \/ UNCHANGED audits /\ Fail
  /\ UNCHANGED <<registryVars, fileVars, at, verdict, tally, toolRuns, saved>>

\* results.append, and the next scenario, or the end of the loop.
NextScenario ==
  IF at < Len(Scenarios) THEN at' = at + 1 /\ spc' = "evaluate"
                         ELSE spc' = "persist" /\ UNCHANGED at

\* The chain of ifs: a decision it does not know counts as allowed, and is executed.
Counted(d) == IF d \in DOMAIN tally THEN d ELSE "allow"

Count == tally' = [tally EXCEPT ![Counted(verdict.decision)] = @ + 1]

Withhold ==
  /\ spc = "act" /\ verdict.decision \in {"block", "require_hitl"}
  /\ Count
  /\ NextScenario
  /\ UNCHANGED <<registryVars, fileVars, verdict, audits, toolRuns, saved>>

\* ToolExecutor: an unknown tool, or an action it does not have, is an error to return.
Supported(request) ==
  /\ registry[request.tool] # NoPlugin
  /\ request.action \in registry[request.tool].actions

Execute ==
  /\ spc = "act" /\ verdict.decision \notin {"block", "require_hitl"}
  /\ Count
  /\ IF Supported(Scenarios[at])
       THEN toolRuns' = toolRuns + 1 /\ spc' = "tool" /\ UNCHANGED at
       ELSE NextScenario /\ UNCHANGED toolRuns
  /\ UNCHANGED <<registryVars, fileVars, verdict, audits, saved>>

ToolEnds ==
  /\ spc = "tool"
  /\ NextScenario \/ (Fail /\ UNCHANGED at)
  /\ UNCHANGED <<registryVars, fileVars, verdict, tally, audits, toolRuns, saved>>

Row == [total |-> at, summary |-> tally]

\* _persist_run: without a session_factory, in a worker whose start-up failed, it returns
\* at once; a commit that fails may have been made.
Persist ==
  /\ spc = "persist"
  /\ saved' \in {NoRun, Row}
  /\ spc' = "answered" \/ Fail
  /\ UNCHANGED <<registryVars, fileVars, at, verdict, tally, audits, toolRuns>>

-----------------------------------------------------------------------------
\* A dry run of /execute: _handle_dry_run and ToolExecutor.simulate.
Preview(v, request) ==
  [would_execute |-> v.decision \in {"allow", "log_and_allow"},
   would_block |-> v.decision = "block",
   would_require_hitl |-> v.decision = "require_hitl",
   tool_valid |-> Supported(request)]

-----------------------------------------------------------------------------

\* Either may happen at any time, but for the tools a worker only looks at start-up.
Next ==
  \/ RegistryNext /\ UNCHANGED <<fileVars, runVars>>
  \/ BeginEdit \/ EndEdit
  \/ Begin \/ Evaluate \/ Audit \/ Withhold \/ Execute \/ ToolEnds \/ Persist

Spec == Init /\ [][Next]_vars

-----------------------------------------------------------------------------
\* Properties.

\* What an analyst who previews the rules one by one is shown is what will be decided: by
\* the first rule whose preview matches, or else to allow, provided that a mail is given
\* to the preview with external as Guardrail sets it.  And whatever the client says about
\* a mail with a recipient being external changes nothing.  (Every file is met before
\* the simulation begins.)
FirstMatchDecides ==
  spc = "idle" /\ policyFile # Torn =>
    \A request \in Requests :
      LET v == evaluate(policyFile, request)
          shown(j) == preview_rule(policyFile[j], Enriched(request))
          matching == {j \in DOMAIN policyFile : shown(j).decision # "N/A"}
      IN
      /\ ~Unreadable(request) =>
           v = IF matching = {} THEN Verdict("allow", NoRule)
               ELSE shown(CHOOSE j \in matching : \A k \in matching : j <= k)
      /\ IsMail(request) =>
           \A b \in BOOLEAN : evaluate(policyFile, WithExternal(request, b)) = v

Orders == {">", "<", ">=", "<=", "==", "!="}

\* A threshold may be written as a number or as its text in the rule file: an order on a
\* number comes out the same.  But the text of a float is not read for an int: they are
\* unequal, even 5 and "5.0", and to order them raises.
NumbersAsText ==
  spc = "idle" /\ policyFile # Torn =>
    \A j \in DOMAIN policyFile, request \in Requests :
      \A k \in DOMAIN policyFile[j].conditions :
        LET c == policyFile[j].conditions[k]
            given == request.fields
            asText == compare(given[c.field], c.operator, Text(Str(c.value)))
        IN
        /\ c.operator \in Orders /\ c.value.kind \in {"int", "float"}
        /\ c.field \in DOMAIN given /\ given[c.field].kind \in {"int", "float"}
        => asText = IF given[c.field].kind = "int" /\ c.value.kind = "float"
                      THEN CASE c.operator = "==" -> "no"
                             [] c.operator = "!=" -> "yes"
                             [] OTHER -> "raises"
                      ELSE compare(given[c.field], c.operator, c.value)

\* What a simulation reports is what it did: the row it saves counts each scenario once,
\* under the decision that is in the audit log, with as many calls of a tool as it says
\* at most; no tool is called without an audit entry, or against what a dry run says.
SimulationTrue ==
  LET counted == tally["allow"] + tally["log_and_allow"] IN
  /\ toolRuns <= audits["allow"] + audits["log_and_allow"] + audits["unheard_of"]
  /\ spc = "tool" /\ verdict.decision # "unheard_of" =>
       Preview(verdict, Scenarios[at]).would_execute /\ Preview(verdict, Scenarios[at]).tool_valid
  /\ saved # NoRun =>
       /\ saved.total = Len(Scenarios)
       /\ \A d \in {"block", "require_hitl", "log_and_allow"} : saved.summary[d] = audits[d]
       /\ saved.summary["allow"] = audits["allow"] + audits["unheard_of"]
       /\ toolRuns <= counted
=============================================================================
