--------------------------- MODULE ActionRecords ----------------------------
(***************************************************************************)
(* What POST /execute and POST /ai/chat write in the database, statement by*)
(* statement and connection by connection: the audit entry, the ticket, the*)
(* history row and the metric.  (ExecutePipeline has the rest of /execute; *)
(* here its tool is one step with the audit entry before it.)              *)
(***************************************************************************)
EXTENDS ConnectionPool, Sequences

CONSTANT Outcomes   \* what may come of an execution: its decision, status, and whether
                    \* a rule matched

\* "unheard_of" stands for what the rule file may say besides: nothing checks it.
Decisions == {"block", "allow", "log_and_allow", "require_hitl", "unheard_of"}

Outcome == [decision : Decisions, status : STRING, ruled : BOOLEAN]

ASSUME OutcomesAssumption == Outcomes \subseteq Outcome

VARIABLES
  outcome,          \* of each execution
  audits,           \* decisions in audit_logs, in the order of their ids
  tickets,          \* rows of hitl_requests: created before (0) or since (1)
  metrics           \* rows of runtime_metrics, in the order they were committed

recordVars == <<outcome, audits, tickets, metrics>>

Unknown == [decision |-> "none", status |-> "none", ruled |-> FALSE]

Metric(o, q) == [timestamp |-> stamp[q], committed |-> clock, decision |-> o.decision,
                 status |-> o.status, ruled |-> o.ruled]

RecordsInit(rows) ==
  /\ outcome = [q \in Requests |-> Unknown]
  /\ audits = [i \in DOMAIN rows |-> rows[i].decision]
  /\ tickets = [i \in 1 .. Cardinality({j \in DOMAIN rows : rows[j].decision = "require_hitl"})
                 |-> 0]
  /\ metrics = [i \in DOMAIN rows |->
                  [timestamp |-> 0, committed |-> 0, decision |-> rows[i].decision,
                   status |-> rows[i].status, ruled |-> rows[i].ruled]]

\* The agent answers with a tool call, with words, or not at all.
AskAgent(q) ==
  /\ pc[q] = "agent"
  /\ Proceed(q, "audit") \/ Over(q, "done") \/ Over(q, "failed")
  /\ UNCHANGED recordVars

\* audit.log in a session of its own, with the lock or after it did not come, and the
\* tool; an exception of the tool is the request's, but of a chat it becomes an answer.
Audit(q) ==
  /\ pc[q] \in {"audit", "read_last"} /\ Connected(q)
  /\ \E o \in Outcomes :
       /\ outcome' = [outcome EXCEPT ![q] = o]
       /\ audits' = Append(audits, o.decision)
       /\ \/ Committed(q, IF o.decision = "require_hitl" THEN "ticket" ELSE "history")
          \/ /\ o.decision \notin {"block", "require_hitl"}
             /\ Over(q, IF kind[q] = "chat" THEN "done" ELSE "failed")
  /\ UNCHANGED <<tickets, metrics>>

\* The ticket is committed in a session of its own as well.
SubmitTicket(q) ==
  /\ pc[q] = "ticket" /\ Connected(q)
  /\ tickets' = Append(tickets, 1)
  /\ Committed(q, "history")
  /\ UNCHANGED <<outcome, audits, metrics>>

RecordHistory(q) ==
  /\ pc[q] = "history" /\ Connected(q)
  /\ Committed(q, "metric")
  /\ UNCHANGED recordVars

RecordMetric(q) ==
  /\ pc[q] = "metric" /\ Connected(q)
  /\ metrics' = Append(metrics, Metric(outcome[q], q))
  /\ Committed(q, "recorded")
  /\ UNCHANGED <<outcome, audits, tickets>>

\* A chat has the agent explain the result; whether it can is of no consequence.
Recorded(q) ==
  /\ pc[q] = "recorded"
  /\ outcome' = [outcome EXCEPT ![q] = Unknown]
  /\ Over(q, "done")
  /\ UNCHANGED <<audits, tickets, metrics>>

RecordStep(q) ==
  AskAgent(q) \/ Audit(q) \/ SubmitTicket(q) \/ RecordHistory(q) \/ RecordMetric(q) \/ Recorded(q)
=============================================================================
