--------------------------- MODULE MetricReports ----------------------------
(***************************************************************************)
(* The endpoints under /monitoring and /analytics: what they count in      *)
(* runtime_metrics and hitl_requests, each query a statement of its own at *)
(* READ COMMITTED, and the reports kept in analytics_reports.              *)
(*                                                                         *)
(* A query that groups rows or adds up cases of them is known here by how  *)
(* many rows it is about; its groups, averages and percentages are left    *)
(* out, and so are LIMITs, which the tables here do not reach.             *)
(***************************************************************************)
EXTENDS ActionRecords

CONSTANTS
  Starts,           \* the times since which rows may be asked for: of all, or new ones
  NoStart,          \* "all": no such time
  NoReport          \* no row of analytics_reports

ASSUME StartsAssumption == Starts \subseteq {0, 1} /\ NoStart \notin Starts

VARIABLES
  since,            \* the time each request asks for
  counts,           \* the results of its queries so far
  target,           \* the report it found
  reports           \* rows of analytics_reports, in the order of their ids

reportVars == <<since, counts, target, reports>>

ReportsInit ==
  /\ since = [q \in Requests |-> NoStart]
  /\ counts = [q \in Requests |-> <<>>]
  /\ target = [q \in Requests |-> NoReport]
  /\ reports = <<>>

-----------------------------------------------------------------------------
\* The queries of each endpoint, in order.  "loose" is func.count() with no column.

Rows(where) == [table |-> "runtime_metrics", where |-> where]
Tickets == [table |-> "hitl_requests", where |-> "all"]

\* Mutated form: the total is counted after its parts.
summary_total_last ==
  <<Rows("block"), Rows("allow"), Rows("log_and_allow"), Rows("require_hitl"),
    Rows("executed"), Rows("failed"), Rows("all")>>

summary ==
  <<Rows("all"), Rows("block"), Rows("allow"), Rows("log_and_allow"), Rows("require_hitl"),
    Rows("executed"), Rows("failed")>>

recent_activity == <<Rows("all")>>
timeline == <<Rows("all")>>
top_violations == <<Rows("ruled_block")>>

policy_effectiveness == <<Rows("ruled")>>
most_triggered_rules == <<Rows("ruled")>>
most_dangerous_tools == <<Rows("all")>>
blocked_requests == <<Rows("loose"), Rows("block"), Rows("all")>>
hitl_statistics == <<Tickets, Tickets>>
avg_response_time == <<Rows("all"), Rows("all")>>
risk_distribution == <<Rows("all")>>

_build_report_data ==
  risk_distribution \o policy_effectiveness \o most_triggered_rules
    \o most_dangerous_tools \o blocked_requests \o hitl_statistics \o avg_response_time

\* (And the number of rules that are enabled, in PolicyStore's table.)
dashboard == summary \o recent_activity

Monitoring == {"metrics", "dashboard", "timeline", "violations"}
\* Those that always ask for a limited time.
Limited == {"dashboard", "timeline", "report", "stored_report"}
Analytics == {"effectiveness", "triggered", "dangerous", "blocked", "hitl", "response", "risk"}

Queries(k) ==
  CASE k = "metrics" -> summary
    [] k = "dashboard" -> dashboard
    [] k = "timeline" -> timeline
    [] k = "violations" -> top_violations
    [] k = "effectiveness" -> policy_effectiveness
    [] k = "triggered" -> most_triggered_rules
    [] k = "dangerous" -> most_dangerous_tools
    [] k = "blocked" -> blocked_requests
    [] k = "hitl" -> hitl_statistics
    [] k = "response" -> avg_response_time
    [] k = "risk" -> risk_distribution
    [] k = "report" -> _build_report_data
    [] OTHER -> <<>>

Holds(row, where) ==
  CASE where \in {"all", "loose"} -> TRUE
    [] where = "ruled" -> row.ruled
    [] where = "ruled_block" -> row.ruled /\ row.decision = "block"
    [] where \in {"executed", "failed"} -> row.status = where
    [] OTHER -> row.decision = where

Counted(query, start) ==
  IF query.table = "hitl_requests"
    THEN Cardinality({i \in DOMAIN tickets : start = NoStart \/ tickets[i] >= start})
    ELSE Cardinality({i \in DOMAIN metrics :
         /\ start = NoStart \/ metrics[i].timestamp >= start
         /\ Holds(metrics[i], query.where)})

\* SELECT count(*) with neither a filter nor a column has no FROM, and yields 1.
Result(query, start) ==
  IF query.where = "loose" /\ start = NoStart THEN 1 ELSE Counted(query, start)

-----------------------------------------------------------------------------
\* The handlers.

\* The next query.  summary does not go on when there is nothing to count.
Count(q) ==
  LET queries == Queries(kind[q])
      answered == Append(counts[q], Result(queries[Len(counts[q]) + 1], since[q]))
      nothing == kind[q] \in {"metrics", "dashboard"} /\ answered = <<0>>
  IN
  /\ pc[q] \in {"count", "summary"} /\ Connected(q)
  /\ counts' = [counts EXCEPT ![q] = answered]
  /\ CASE Len(answered) < Len(queries) /\ ~nothing -> Proceed(q, pc[q])
       [] kind[q] = "report" -> Proceed(q, "find_report")
       [] OTHER -> Proceed(q, "answer")
  /\ UNCHANGED <<since, target, reports>>

\* find_report: of the reports of its period, the one generated last.
Newest(start) ==
  LET those == {i \in DOMAIN reports : reports[i].since = start} IN
  IF those = {} THEN NoReport
  ELSE CHOOSE i \in those : \A j \in those : reports[j].generated_at <= reports[i].generated_at

FindReport(q) ==
  /\ pc[q] = "find_report" /\ Connected(q)
  /\ target' = [target EXCEPT ![q] = Newest(since[q])]
  /\ Proceed(q, IF kind[q] = "report" THEN "upsert" ELSE "answer")
  /\ UNCHANGED <<since, counts, reports>>

\* Mutated form: the report is dated by the time it is stored.
Report_late(q) == [since |-> since[q], generated_at |-> clock, total |-> counts[q][1]]

\* func.now() is the time the transaction began.
Report(q) == [since |-> since[q], generated_at |-> stamp[q], total |-> counts[q][1]]

\* upsert_report and the commit: the report found is overwritten, whoever has since
\* overwritten it too; two that find none both insert one.
Upsert(q) ==
  /\ pc[q] = "upsert" /\ Connected(q)
  /\ reports' = IF target[q] = NoReport THEN Append(reports, Report(q))
                ELSE [reports EXCEPT ![target[q]] = Report(q)]
  /\ Committed(q, "serialize")
  /\ UNCHANGED <<since, counts, target>>

\* The commit has expired the row, which _serialize_report loads again.
Serialize(q) ==
  /\ pc[q] = "serialize" /\ Connected(q)
  /\ Proceed(q, "answer")
  /\ UNCHANGED reportVars

Forget(q) ==
  /\ since' = [since EXCEPT ![q] = NoStart]
  /\ counts' = [counts EXCEPT ![q] = <<>>]
  /\ target' = [target EXCEPT ![q] = NoReport]
  /\ UNCHANGED reports

Answer(q) ==
  /\ pc[q] = "answer"
  /\ Over(q, "done")
  /\ Forget(q)

ReportStep(q) == Count(q) \/ FindReport(q) \/ Upsert(q) \/ Serialize(q) \/ Answer(q)
=============================================================================
