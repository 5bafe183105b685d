-------------------------- MODULE ExecutePipeline ---------------------------
(***************************************************************************)
(* POST /execute: the handler execute of app/api/routes.py with its helpers*)
(* _request_hitl_approval and _try_persist, run by a thread pool in each of*)
(* several worker processes that may crash and be started again.           *)
(*                                                                         *)
(* The policy's decision is an input here.  audit.log is one step that     *)
(* writes one row and returns, or raises with or without the row: that is  *)
(* what AuditLedger promises of it.                                        *)
(***************************************************************************)
EXTENDS Store

CONSTANT Workers    \* uvicorn worker processes

VARIABLES
  xpc,              \* where each execution is
  worker,           \* the worker that serves it
  decision,         \* the policy's decision
  status,           \* execution_status
  audited,          \* where its audit entry is
  metrics,          \* execution_status in runtime_metrics, "none" without a row
  gauge,            \* active_executions of each worker
  wired             \* whether on_startup wired the database into a worker

execVars == <<xpc, worker, decision, status, audited, metrics, gauge, wired>>

\* "unheard_of" stands for what the rule file may say besides: nothing checks it.
Decisions == {"allow", "log_and_allow", "block", "require_hitl", "unheard_of"}
Statuses == HistoryStatus \ {"none"}

\* Between active_executions.inc() and .dec().
Active == {"entered", "audited", "running", "acted", "persisted", "measured"}

\* Ways a request ends: with a result, with a preview (dry run), with status 500, or
\* without an answer because its worker died.
Ended == {"answered", "previewed", "raised", "crashed"}

ExecInit ==
  /\ xpc = [e \in Execs |-> "idle"]
  /\ worker \in [Execs -> Workers]
  /\ decision = [e \in Execs |-> "none"]
  /\ status = [e \in Execs |-> "none"]
  /\ audited = [e \in Execs |-> "none"]
  /\ metrics = [e \in Execs |-> "none"]
  /\ gauge = [w \in Workers |-> 0]
  /\ wired \in [Workers -> BOOLEAN]

Move(e, label) == xpc' = [xpc EXCEPT ![e] = label]

Accept(e) ==
  /\ xpc[e] = "idle"
  /\ Move(e, "received")
  /\ UNCHANGED <<storeVars, worker, decision, status, audited, metrics, gauge, wired>>

\* guardrail.evaluate, which may raise, and the return of a dry run; any other request
\* counts as active from here on.
Evaluate(e) ==
  /\ xpc[e] = "received"
  /\ \/ /\ \E label \in {"raised", "previewed"} : Move(e, label)
        /\ UNCHANGED <<decision, gauge>>
     \/ /\ \E d \in Decisions : decision' = [decision EXCEPT ![e] = d]
        /\ gauge' = [gauge EXCEPT ![worker[e]] = @ + 1]
        /\ Move(e, "entered")
  /\ UNCHANGED <<storeVars, worker, status, audited, metrics, wired>>

\* PostgresAuditLogger, or FileAuditLogger where on_startup failed.
Sink(e) == IF wired[worker[e]] THEN "chain" ELSE "file"

\* Mutated form: the history row is written first, with the status to be expected.
Audit_recording(e) ==
  /\ xpc[e] = "entered"
  /\ audited' = [audited EXCEPT ![e] = Sink(e)]
  /\ history' = [history EXCEPT ![e] =
       CASE decision[e] = "block" -> "blocked"
         [] decision[e] = "require_hitl" -> "waiting_for_human"
         [] OTHER -> "executed"]
  /\ Move(e, "audited")
  /\ UNCHANGED <<tickets, toolRuns, clock, worker, decision, status, metrics, gauge, wired>>

Audit(e) ==
  /\ xpc[e] = "entered"
  /\ audited' = [audited EXCEPT ![e] = Sink(e)]
  /\ Move(e, "audited")
  /\ UNCHANGED <<storeVars, worker, decision, status, metrics, gauge, wired>>

\* The finally clause.
Leave(e, label) ==
  /\ gauge' = [gauge EXCEPT ![worker[e]] = @ - 1]
  /\ Move(e, label)

\* Mutated form: a failure to audit is logged and passed over.
AuditRaises_ignored(e) ==
  /\ xpc[e] = "entered"
  /\ Move(e, "audited")
  /\ UNCHANGED <<storeVars, worker, decision, status, audited, metrics, gauge, wired>>

\* The row may be there all the same, if only the commit's answer was lost.
AuditRaises(e) ==
  /\ xpc[e] = "entered"
  /\ \E sink \in {"none", Sink(e)} : audited' = [audited EXCEPT ![e] = sink]
  /\ Leave(e, "raised")
  /\ UNCHANGED <<storeVars, worker, decision, status, metrics, wired>>

Act(e, s) ==
  /\ status' = [status EXCEPT ![e] = s]
  /\ Move(e, "acted")

Block(e) ==
  /\ xpc[e] = "audited"
  /\ decision[e] = "block"
  /\ Act(e, "blocked")
  /\ UNCHANGED <<storeVars, worker, decision, audited, metrics, gauge, wired>>

\* Mutated form: request_approval waits for the verdict.
SubmitTicket_waiting(e) ==
  /\ xpc[e] = "audited"
  /\ decision[e] = "require_hitl"
  /\ \/ tickets[e].status = "none" /\ tickets' = [tickets EXCEPT ![e] = NewTicket]
     \/ tickets[e].status \in Resolved /\ UNCHANGED tickets
  /\ IF tickets[e].status = "none"
       THEN UNCHANGED <<status, xpc>>
       ELSE Act(e, "waiting_for_human")
  /\ UNCHANGED <<history, toolRuns, clock, worker, decision, audited, metrics, gauge, wired>>

\* _request_hitl_approval swallows what goes wrong: the database fails, with or
\* without having committed, or the queue is the MockApprovalQueue, whose
\* request_approval does not take expires_at.
SubmitTicket(e) ==
  /\ xpc[e] = "audited"
  /\ decision[e] = "require_hitl"
  /\ \/ wired[worker[e]] /\ tickets' = [tickets EXCEPT ![e] = NewTicket]
     \/ UNCHANGED tickets
  /\ Act(e, "waiting_for_human")
  /\ UNCHANGED <<history, toolRuns, clock, worker, decision, audited, metrics, gauge, wired>>

\* Mutated form: everything but "block" is let through.
RunTool_unheld(e) ==
  /\ xpc[e] = "audited"
  /\ decision[e] # "block"
  /\ toolRuns' = [toolRuns EXCEPT ![e] = @ + 1]
  /\ Move(e, "running")
  /\ UNCHANGED <<tickets, history, clock, worker, decision, status, audited, metrics, gauge, wired>>

\* executor.execute is entered ...
RunTool(e) ==
  /\ xpc[e] = "audited"
  /\ decision[e] \notin {"block", "require_hitl"}
  /\ toolRuns' = [toolRuns EXCEPT ![e] = @ + 1]
  /\ Move(e, "running")
  /\ UNCHANGED <<tickets, history, clock, worker, decision, status, audited, metrics, gauge, wired>>

\* Mutated form: the tool's own status for the execution's.
ToolReturns_raw(e) ==
  /\ xpc[e] = "running"
  /\ \E result \in {"error", "success"} : Act(e, result)
  /\ UNCHANGED <<storeVars, worker, decision, audited, metrics, gauge, wired>>

\* ... and returns, with status "error" or another, or raises.
ToolReturns(e) ==
  /\ xpc[e] = "running"
  /\ \/ Act(e, "failed")
     \/ Act(e, IF decision[e] = "log_and_allow" THEN "executed_with_logging" ELSE "executed")
  /\ UNCHANGED <<storeVars, worker, decision, audited, metrics, gauge, wired>>

\* Mutated form: active_executions.dec() on the way out of the try clause only.
ToolRaises_counted(e) ==
  /\ xpc[e] = "running"
  /\ Move(e, "raised")
  /\ UNCHANGED <<storeVars, worker, decision, status, audited, metrics, gauge, wired>>

ToolRaises(e) ==
  /\ xpc[e] = "running"
  /\ Leave(e, "raised")
  /\ UNCHANGED <<storeVars, worker, decision, status, audited, metrics, wired>>

\* _try_persist passes over a failure, whether or not the row was committed.
PersistHistory(e) ==
  /\ xpc[e] = "acted"
  /\ history' \in {history, [history EXCEPT ![e] = status[e]]}
  /\ Move(e, "persisted")
  /\ UNCHANGED <<tickets, toolRuns, clock, worker, decision, status, audited, metrics, gauge, wired>>

PersistMetric(e) ==
  /\ xpc[e] = "persisted"
  /\ metrics' \in {metrics, [metrics EXCEPT ![e] = status[e]]}
  /\ Move(e, "measured")
  /\ UNCHANGED <<storeVars, worker, decision, status, audited, gauge, wired>>

Reply(e) ==
  /\ xpc[e] = "measured"
  /\ Leave(e, "answered")
  /\ UNCHANGED <<storeVars, worker, decision, status, audited, metrics, wired>>

\* A worker dies with all it was doing; the one started in its place has a gauge of
\* its own and wires the database or fails to.
Crash(w) ==
  /\ xpc' = [e \in Execs |-> IF worker[e] = w /\ xpc[e] \in Active \union {"received"}
                               THEN "crashed" ELSE xpc[e]]
  /\ gauge' = [gauge EXCEPT ![w] = 0]
  /\ \E b \in BOOLEAN : wired' = [wired EXCEPT ![w] = b]
  /\ UNCHANGED <<storeVars, worker, decision, status, audited, metrics>>

ExecStep(e) ==
  \/ Evaluate(e)
  \/ Audit(e)
  \/ Block(e)
  \/ SubmitTicket(e)
  \/ RunTool(e)
  \/ ToolReturns(e)
  \/ PersistHistory(e)
  \/ PersistMetric(e)
  \/ Reply(e)

ExecNext ==
  \/ \E e \in Execs : Accept(e) \/ ExecStep(e) \/ AuditRaises(e) \/ ToolRaises(e)
  \/ \E w \in Workers : Crash(w)

\* A thread that serves a request goes on; log and the tool return or raise.
ExecFairness == \A e \in Execs : WF_<<storeVars, execVars>>(ExecStep(e))

-----------------------------------------------------------------------------

ExecTypeOK ==
  /\ xpc \in [Execs -> {"idle", "received"} \union Active \union Ended]
  /\ worker \in [Execs -> Workers]
  /\ decision \in [Execs -> Decisions \union {"none"}]
  /\ status \in [Execs -> HistoryStatus]
  /\ audited \in [Execs -> {"none", "chain", "file"}]
  /\ metrics \in [Execs -> HistoryStatus]
  /\ gauge \in [Workers -> 0 .. Cardinality(Execs)]
  /\ wired \in [Workers -> BOOLEAN]

\* Nothing happens that is not in the audit log first: no tool is entered, at once
\* or after any approval, no ticket submitted, no history or metric written for an
\* execution whose audit entry is missing, wherever audit.log failed or the worker
\* died.
AuditedFirst ==
  \A e \in Execs :
    audited[e] = "none" =>
      toolRuns[e] = 0 /\ tickets[e] = NoTicket /\ history[e] = "none" /\ metrics[e] = "none"

\* What history and metrics say of an execution was done and decided: a run tool
\* for executed and failed, none for blocked, a hold for waiting_for_human.
HistoryTrue ==
  \A e \in Execs : \A s \in {history[e], metrics[e]} :
    /\ s \in {"executed", "executed_with_logging", "failed"} => toolRuns[e] > 0
    /\ s = "executed_with_logging" => decision[e] = "log_and_allow"
    /\ s = "blocked" => decision[e] = "block" /\ toolRuns[e] = 0
    /\ s = "waiting_for_human" => decision[e] = "require_hitl"

\* active_executions of a worker is the number of executions in it, through errors
\* and crashes.
GaugeCounts ==
  \A w \in Workers :
    gauge[w] = Cardinality({e \in Execs : worker[e] = w /\ xpc[e] \in Active})

\* Every request is answered, unless its worker dies, and without waiting for a
\* reviewer: a held action's request ends with its ticket still pending.
ExecAnswered == \A e \in Execs : xpc[e] = "received" ~> xpc[e] \in Ended
=============================================================================
