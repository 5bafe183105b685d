----------------------------- MODULE BackOffice -----------------------------
(***************************************************************************)
(* The endpoints that record, report, page and explain, as they share the  *)
(* connection pool of one worker process and the tables.                   *)
(***************************************************************************)
EXTENDS MetricReports, AuditPages, StoredContent

CONSTANTS
  Asked,            \* endpoints that may be asked for together: functions on Requests
  Earlier           \* outcomes of the executions there have been

Endpoints == Monitoring \union Analytics \union
  {"execute", "chat", "report", "stored_report", "retrieve", "explain", "pages"}

ASSUME AskedAssumption == Asked \subseteq [Requests -> Endpoints]
ASSUME EarlierAssumption == Earlier \in Seq(Outcome)

allVars == <<poolVars, recordVars, reportVars, pageVars, contentVars>>

Init ==
  /\ PoolInit(Asked)
  /\ RecordsInit(Earlier)
  /\ ReportsInit
  /\ PagesInit
  /\ ContentInit

-----------------------------------------------------------------------------
\* Whether a token is presented is up to the client where it is optional.
Anonymous == {"execute", "explain"}

\* What each endpoint does once its user is known.
FirstStep(k) ==
  CASE k = "execute" -> "audit"
    [] k \in Monitoring -> "summary"
    [] k \in Analytics \union {"report"} -> "count"
    [] k = "stored_report" -> "find_report"
    [] k = "retrieve" -> "find"
    [] k = "explain" -> "generate"
    [] k = "pages" -> "search"

\* A request comes, with its parameters.  /ai/chat has no user.
Accept(q) ==
  /\ pc[q] = "idle"
  /\ LET k == kind[q] IN
       /\ \/ k = "chat" /\ Goto(q, "agent")
          \/ k \in Anonymous /\ Goto(q, FirstStep(k))
          \/ k # "chat" /\ Goto(q, "auth")
       /\ IF k \in Monitoring \union Analytics \union Limited
            THEN \E t \in IF k \in Limited THEN Starts ELSE Starts \union {NoStart} :
                   since' = [since EXCEPT ![q] = t]
            ELSE UNCHANGED since
       /\ IF k = "pages"
            THEN \E d \in {Everything, "block"} : filter' = [filter EXCEPT ![q] = d]
            ELSE UNCHANGED filter
       /\ IF k \in {"retrieve", "explain"}
            THEN \E s \in Sources : /\ source' = [source EXCEPT ![q] = s]
                                    /\ floor' = [floor EXCEPT ![q] = settled[s]]
            ELSE UNCHANGED <<source, floor>>
  /\ UNCHANGED <<kind, held, stamp, clock, recordVars, counts, target, reports, page, there, seen,
                 contents, served, settled>>

\* get_current_user reads the user in the session of get_db_optional, or refuses.
Authenticate(q) ==
  /\ pc[q] = "auth" /\ Connected(q)
  /\ \/ Proceed(q, FirstStep(kind[q])) /\ UNCHANGED <<since, counts, target, reports>>
     \/ Over(q, "refused") /\ Forget(q)
  /\ UNCHANGED <<recordVars, pageVars, contentVars>>

Wait(q) ==
  \/ Connect(q) /\ UNCHANGED <<recordVars, reportVars, pageVars, contentVars>>
  \/ TimesOut(q) /\ UNCHANGED <<recordVars, reportVars, pageVars, contentVars>>

Step(q) ==
  \/ Accept(q) \/ Authenticate(q) \/ Wait(q)
  \/ RecordStep(q) /\ UNCHANGED <<reportVars, pageVars, contentVars>>
  \/ ReportStep(q) /\ UNCHANGED <<recordVars, pageVars, contentVars>>
  \/ PageStep(q) /\ UNCHANGED <<recordVars, reportVars, contentVars>>
  \/ ContentStep(q) /\ UNCHANGED <<recordVars, reportVars, pageVars>>

Next == \E q \in Requests : Step(q)

Spec == Init /\ [][Next]_allVars

\* A request that has come is served by a thread that goes on as long as it can.
FairSpec == Spec /\ \A q \in Requests : WF_allVars(pc[q] # "idle" /\ Step(q))

-----------------------------------------------------------------------------
\* Properties.

\* Nobody waits for ever: requests that hold a connection of a pool that has no more, and
\* need another, get it or give up (QueuePool's timeout), and have none when they end.
RequestsEnd ==
  <>[](\A q \in Requests : pc[q] \in Ended \union {"idle"} /\ held[q] = {})

\* The counts of one answer come from one statement after the other while rows are
\* added: what is counted twice has not become less, nothing is more than there is now,
\* and the total of a summary is at most what its decisions, and the rows of a decision
\* it does not know, add up to.
CountsBracketed ==
  \A q \in Requests :
    LET queries == Queries(kind[q])
        done == DOMAIN counts[q]
    IN
    /\ \A i \in done : queries[i].where # "loose" =>
         counts[q][i] <= Counted(queries[i], since[q])
    /\ \A i \in done, j \in done : i < j /\ queries[i] = queries[j] =>
         counts[q][i] <= counts[q][j]
    /\ kind[q] = "metrics" /\ pc[q] = "answer" /\ Len(counts[q]) > 1 =>
         LET of(where) == counts[q][CHOOSE i \in done : queries[i] = Rows(where)] IN
         of("all") <= of("block") + of("allow") + of("log_and_allow") + of("require_hitl")
                        + Counted(Rows("unheard_of"), since[q])

\* A report has counted every metric of its period that was committed before the time
\* the report says it was generated at.
StampCovered ==
  \A r \in DOMAIN reports :
    reports[r].total >=
      Cardinality({i \in DOMAIN metrics : /\ metrics[i].timestamp >= reports[r].since
                                          /\ metrics[i].committed <= reports[r].generated_at})

\* A retrieval serves content that is at least as new as any that was served for the same
\* source before the retrieval began.
NeverOlder ==
  \A q \in Requests :
    pc[q] = "hand_out" => served[q] # NoContent /\ served[q].created_at >= floor[q]

\* A client that reads page after page has seen every entry there was when it began, no
\* matter how many came in between.
PagesMissNothing ==
  \A q \in Requests : pc[q] = "read" => there[q] \subseteq seen[q]
=============================================================================
