-------------------------- MODULE BackOfficeProofs --------------------------
(***************************************************************************)
(* Proofs about BackOffice for any requests, pool and tables, in layers:   *)
(* where a request of each endpoint may be and the time its transaction    *)
(* has (PathInv); what executions record (RecordsInv); and on these what   *)
(* is counted and reported, paged, and kept, each of which only knows that *)
(* the tables grow at their end while a request is at work.                *)
(***************************************************************************)
EXTENDS BackOffice, FunctionTheorems, FiniteSetTheorems, SequenceTheorems, TLAPS

USE OutcomesAssumption, StartsAssumption, PageSizeAssumption, NoContentAssumption,
    AskedAssumption, EarlierAssumption

\* Where a request to an endpoint may be.
Recording == {"audit", "read_last", "ticket", "history", "metric", "recorded"}

Path(k) ==
  {"idle"} \union Ended \union
  CASE k = "execute" -> Recording \union {"auth"}
    [] k = "chat" -> Recording \union {"agent"}
    [] k \in Monitoring -> {"auth", "summary", "answer"}
    [] k \in Analytics -> {"auth", "count", "answer"}
    [] k = "report" -> {"auth", "count", "find_report", "upsert", "serialize", "answer"}
    [] k = "stored_report" -> {"auth", "find_report", "answer"}
    [] k = "retrieve" -> {"auth", "find", "lookup", "generate", "persist", "reread", "hand_out"}
    [] k = "explain" -> {"auth", "generate", "keep", "kept"}
    [] k = "pages" -> {"auth", "search", "read"}

Labels ==
  {"idle", "auth", "agent", "summary", "answer", "count", "find_report", "upsert",
   "serialize", "find", "lookup", "generate", "persist", "reread", "hand_out", "keep", "kept",
   "search", "read"} \union Recording \union Ended

\* A request is where its endpoint may be, and its transaction began in the past.
PathInv ==
  /\ kind \in [Requests -> Endpoints]
  /\ pc \in [Requests -> Labels]
  /\ \A q \in Requests : pc[q] \in Path(kind[q])
  /\ held \in [Requests -> SUBSET Sessions]
  /\ clock \in Nat
  /\ stamp \in [Requests -> Nat] /\ \A q \in Requests : stamp[q] < clock

-----------------------------------------------------------------------------
\* Paths are made of labels.
LEMMA PathLabels ==
  ASSUME NEW k \in Endpoints
  PROVE  Path(k) \subseteq Labels
  BY DEF Path, Labels, Recording, Endpoints, Monitoring, Analytics

\* The request that goes on is where its endpoint may be.
LEMMA GotoKeepsPath ==
  ASSUME PathInv, NEW q \in Requests, NEW label \in Path(kind[q]), Goto(q, label),
         kind' = kind
  PROVE  pc' \in [Requests -> Labels] /\ \A p \in Requests : pc'[p] \in Path(kind'[p])
  <1>1. label \in Labels
    BY PathLabels DEF PathInv
  <1>2. QED
    BY <1>1 DEF PathInv, Goto

\* The pool's part of a step keeps to the path if it goes where the endpoint may be.
LEMMA MoveKeepsPath ==
  ASSUME PathInv, NEW q \in Requests, NEW label \in Path(kind[q]),
         Proceed(q, label) \/ Committed(q, label) \/ Over(q, label)
  PROVE  PathInv'
  <1>1. kind' = kind /\ Goto(q, label)
    BY DEF Proceed, Committed, Over
  <1>2. pc' \in [Requests -> Labels] /\ \A p \in Requests : pc'[p] \in Path(kind'[p])
    BY <1>1, GotoKeepsPath
  <1>3. /\ held' \in [Requests -> SUBSET Sessions] /\ clock' \in Nat
        /\ stamp' \in [Requests -> Nat] /\ \A p \in Requests : stamp'[p] < clock'
    BY DEF PathInv, Proceed, Committed, Over
  <1>4. QED
    BY <1>1, <1>2, <1>3 DEF PathInv

\* A transaction that begins has the time of day, and no other has that time.
LEMMA ConnectKeepsPath ==
  ASSUME PathInv, NEW q \in Requests, Connect(q)
  PROVE  PathInv'
  <1>1. held' \in [Requests -> SUBSET Sessions]
    BY DEF PathInv, Connect, Sessions, SessionAt
  <1>2. /\ clock' \in Nat /\ stamp' \in [Requests -> Nat]
        /\ \A p \in Requests : stamp'[p] < clock'
    <2>1. CASE UNCHANGED <<stamp, clock>>
      BY <2>1 DEF PathInv
    <2>2. CASE stamp' = [stamp EXCEPT ![q] = clock] /\ clock' = clock + 1
      <3>1. clock \in Nat /\ stamp \in [Requests -> Nat] /\ \A p \in Requests : stamp[p] < clock
        BY DEF PathInv
      <3>2. \A p \in Requests : stamp'[p] = IF p = q THEN clock ELSE stamp[p]
        BY <2>2, <3>1
      <3>3. QED
        BY <2>2, <3>1, <3>2
    <2>3. QED
      BY <2>1, <2>2 DEF Connect
  <1>3. kind' = kind /\ pc' = pc
    BY DEF Connect
  <1>4. QED
    BY <1>1, <1>2, <1>3 DEF PathInv

\* Every step keeps to the path.
LEMMA PathStep ==
  ASSUME PathInv, NEW q \in Requests, Step(q)
  PROVE  PathInv'
  <1>1. pc[q] \in Path(kind[q]) /\ Ended \subseteq Path(kind[q]) /\ kind[q] \in Endpoints
    BY DEF PathInv, Path
  <1> USE DEF Ended
  <1>2. CASE Accept(q)
    <2>1. \E label \in Path(kind[q]) : Goto(q, label)
      BY <1>1, <1>2 DEF Accept, Path, Recording, Anonymous, FirstStep, Monitoring, Analytics,
        Endpoints
    <2>2. UNCHANGED <<kind, held, stamp, clock>>
      BY <1>2 DEF Accept
    <2>3. QED
      BY <2>1, <2>2, GotoKeepsPath DEF PathInv
  <1>3. CASE Authenticate(q)
    BY <1>1, <1>3, MoveKeepsPath DEF Authenticate, Path, FirstStep, Monitoring, Analytics,
      Recording, Endpoints
  <1>4. CASE Wait(q)
    BY <1>1, <1>4, MoveKeepsPath, ConnectKeepsPath DEF Wait, TimesOut, Raised, Path, Recording,
      Monitoring, Analytics, Endpoints, Waits
  <1>5. CASE RecordStep(q)
    BY <1>1, <1>5, MoveKeepsPath DEF RecordStep, AskAgent, Audit, SubmitTicket, RecordHistory,
      RecordMetric, Recorded, Path, Recording, Monitoring, Analytics, Endpoints
  <1>6. CASE ReportStep(q)
    BY <1>1, <1>6, MoveKeepsPath DEF ReportStep, Count, FindReport, Upsert, Serialize, Answer,
      Path, Recording, Monitoring, Analytics, Endpoints
  <1>7. CASE PageStep(q)
    BY <1>1, <1>7, MoveKeepsPath DEF PageStep, Search, ReadAll, Path, Recording, Monitoring,
      Analytics, Endpoints
  <1>8. CASE ContentStep(q)
    BY <1>1, <1>8, MoveKeepsPath DEF ContentStep, Find, Lookup, Generate, Persist, Reread,
      HandOut, Path, Recording, Monitoring, Analytics, Endpoints, chat
  <1>9. QED
    BY <1>2, <1>3, <1>4, <1>5, <1>6, <1>7, <1>8 DEF Step

\* A request is where its endpoint may be.
THEOREM PathAlways == Spec => []PathInv
  <1>1. Init => PathInv
    <2> SUFFICES ASSUME Init PROVE PathInv
      OBVIOUS
    <2>1. kind \in [Requests -> Endpoints]
      BY DEF Init, PoolInit
    <2>2. "idle" \in Labels /\ \A k : "idle" \in Path(k)
      BY DEF Path, Labels
    <2>3. QED
      BY <2>1, <2>2 DEF Init, PoolInit, PathInv
  <1>2. PathInv /\ [Next]_allVars => PathInv'
    <2> SUFFICES ASSUME PathInv, [Next]_allVars PROVE PathInv'
      OBVIOUS
    <2>1. CASE UNCHANGED allVars
      BY <2>1 DEF allVars, poolVars, PathInv
    <2>2. QED
      BY <2>1, PathStep DEF Next
  <1>3. QED
    BY <1>1, <1>2, PTL DEF Spec

-----------------------------------------------------------------------------
\* What executions record.

MetricRow == [timestamp : Nat, committed : Nat, decision : Decisions, status : STRING,
              ruled : BOOLEAN]

\* The tables hold such rows, and an execution that is still to be recorded has an outcome.
RecordsInv ==
  /\ outcome \in [Requests -> Outcome \union {Unknown}]
  /\ \A q \in Requests : pc[q] \in {"ticket", "history", "metric"} => outcome[q] \in Outcome
  /\ audits \in Seq(Decisions)
  /\ tickets \in Seq(Nat)
  /\ metrics \in Seq(MetricRow)

\* A request moves only itself.
LEMMA OthersWait ==
  ASSUME PathInv, NEW q \in Requests, Step(q)
  PROVE  /\ kind' = kind
         /\ \A p \in Requests \ {q} : pc'[p] = pc[p] /\ held'[p] = held[p] /\ stamp'[p] = stamp[p]
         /\ clock' \in Nat /\ clock' >= clock
  <1>1. ASSUME NEW label, Proceed(q, label) \/ Committed(q, label) \/ Over(q, label)
        PROVE  /\ kind' = kind /\ clock' = clock
               /\ \A p \in Requests \ {q} :
                    pc'[p] = pc[p] /\ held'[p] = held[p] /\ stamp'[p] = stamp[p]
    BY <1>1 DEF PathInv, Proceed, Committed, Over, Goto
  <1>2. CASE Accept(q)
    BY <1>2 DEF Accept, PathInv, Goto
  <1>3. CASE Connect(q)
    BY <1>3 DEF Connect, PathInv
  <1>4. CASE Authenticate(q) \/ TimesOut(q)
    BY <1>1, <1>4 DEF Authenticate, TimesOut, Raised, PathInv
  <1>5. CASE RecordStep(q)
    BY <1>1, <1>5 DEF RecordStep, AskAgent, Audit, SubmitTicket, RecordHistory, RecordMetric,
      Recorded, PathInv
  <1>6. CASE ReportStep(q) \/ PageStep(q)
    BY <1>1, <1>6 DEF ReportStep, Count, FindReport, Upsert, Serialize, Answer, PageStep,
      Search, ReadAll, PathInv
  <1>7. CASE ContentStep(q)
    BY <1>1, <1>7 DEF ContentStep, Find, Lookup, Generate, Persist, Reread, HandOut, PathInv
  <1>8. QED
    BY <1>2, <1>3, <1>4, <1>5, <1>6, <1>7 DEF Step, Wait

\* Where a request of which the outcome is to be recorded comes from.
LEMMA RecordsMove ==
  ASSUME PathInv, NEW q \in Requests, Step(q)
  PROVE  /\ RecordStep(q) \/ UNCHANGED recordVars
         /\ pc'[q] \in {"ticket", "history", "metric"} =>
              Audit(q) \/ (pc[q] \in {"ticket", "history", "metric"} /\ outcome' = outcome)
  <1> USE DEF PathInv, Goto, Proceed, Committed, Over, recordVars
  <1>1. CASE Accept(q) \/ Authenticate(q)
    <2>1. UNCHANGED recordVars
      BY <1>1 DEF Accept, Authenticate
    <2>2. \/ pc'[q] \in {"agent", "auth", "refused"}
          \/ kind[q] \in Endpoints \ {"chat"} /\ pc'[q] = FirstStep(kind[q])
      <3>1. kind[q] \in Endpoints /\ pc[q] \in Path(kind[q])
        OBVIOUS
      <3>2. CASE Accept(q)
        BY <3>1, <3>2 DEF Accept, Anonymous
      <3>3. CASE Authenticate(q)
        <4>1. pc[q] = "auth" /\ "auth" \notin Path("chat")
          BY <3>3 DEF Authenticate, Path, Recording, Ended, Monitoring, Analytics
        <4>2. QED
          BY <3>1, <3>3, <4>1 DEF Authenticate
      <3>4. QED
        BY <1>1, <3>2, <3>3
    <2>3. \A k \in Endpoints \ {"chat"} : FirstStep(k) \notin {"ticket", "history", "metric"}
      BY DEF FirstStep, Endpoints, Monitoring, Analytics
    <2>4. QED
      BY <2>1, <2>2, <2>3
  <1>2. CASE Wait(q)
    BY <1>2 DEF Wait, Connect, TimesOut, Raised
  <1>3. CASE RecordStep(q)
    BY <1>3 DEF RecordStep, AskAgent, SubmitTicket, RecordHistory, RecordMetric, Recorded
  <1>4. CASE ReportStep(q) /\ UNCHANGED <<recordVars, pageVars, contentVars>>
    BY <1>4 DEF ReportStep, Count, FindReport, Upsert, Serialize, Answer
  <1>5. CASE PageStep(q) /\ UNCHANGED <<recordVars, reportVars, contentVars>>
    BY <1>5 DEF PageStep, Search, ReadAll
  <1>6. CASE ContentStep(q) /\ UNCHANGED <<recordVars, reportVars, pageVars>>
    BY <1>6 DEF ContentStep, Find, Lookup, Generate, Persist, Reread, HandOut
  <1>7. QED
    BY <1>1, <1>2, <1>3, <1>4, <1>5, <1>6 DEF Step

\* Each execution keeps the tables and its outcome as they should be.
LEMMA RecordsStep ==
  ASSUME PathInv, RecordsInv, NEW q \in Requests, Step(q)
  PROVE  RecordsInv'
  <1>1. /\ outcome' \in [Requests -> Outcome \union {Unknown}]
        /\ \A p \in Requests \ {q} : outcome'[p] = outcome[p]
        /\ Audit(q) => outcome'[q] \in Outcome
    <2>1. CASE UNCHANGED recordVars
      BY <2>1 DEF RecordsInv, recordVars, Audit
    <2>2. CASE RecordStep(q)
      BY <2>2 DEF RecordStep, AskAgent, Audit, SubmitTicket, RecordHistory, RecordMetric,
        Recorded, RecordsInv, recordVars
    <2>3. QED
      BY <2>1, <2>2, RecordsMove
  <1>2. \A p \in Requests : pc'[p] \in {"ticket", "history", "metric"} => outcome'[p] \in Outcome
    BY <1>1, OthersWait, RecordsMove DEF RecordsInv
  <1>3. audits' \in Seq(Decisions) /\ tickets' \in Seq(Nat) /\ metrics' \in Seq(MetricRow)
    <2>1. CASE UNCHANGED <<audits, tickets, metrics>>
      BY <2>1 DEF RecordsInv
    <2>2. CASE Audit(q)
      <3>1. PICK o \in Outcomes : audits' = Append(audits, o.decision)
        BY <2>2 DEF Audit
      <3>2. o.decision \in Decisions
        BY DEF Outcome
      <3>3. QED
        BY <2>2, <3>1, <3>2, AppendProperties DEF Audit, RecordsInv
    <2>3. CASE SubmitTicket(q)
      BY <2>3, AppendProperties DEF SubmitTicket, RecordsInv
    <2>4. CASE RecordMetric(q)
      <3>1. outcome[q] \in Outcome /\ stamp[q] \in Nat /\ clock \in Nat
        BY <2>4 DEF RecordMetric, RecordsInv, PathInv
      <3>2. Metric(outcome[q], q) \in MetricRow
        BY <3>1 DEF Metric, MetricRow, Outcome
      <3>3. QED
        BY <2>4, <3>2, AppendProperties DEF RecordMetric, RecordsInv
    <2>5. QED
      BY <2>1, <2>2, <2>3, <2>4, RecordsMove DEF RecordStep, AskAgent, RecordHistory, Recorded,
        recordVars
  <1>4. QED
    BY <1>1, <1>2, <1>3 DEF RecordsInv

\* The tables hold what executions record, and every execution has an outcome to record.
THEOREM RecordsAlways == Spec => []RecordsInv
  <1>1. Init => RecordsInv
    <2> SUFFICES ASSUME Init PROVE RecordsInv
      OBVIOUS
    <2>1. /\ Len(Earlier) \in Nat /\ DOMAIN Earlier = 1 .. Len(Earlier)
          /\ \A i \in 1 .. Len(Earlier) : Earlier[i] \in Outcome
      BY LenProperties, ElementOfSeq
    <2>2. audits \in Seq(Decisions)
      <3>1. audits = [i \in 1 .. Len(Earlier) |-> Earlier[i].decision]
        BY <2>1 DEF Init, RecordsInit
      <3>2. \A i \in 1 .. Len(Earlier) : Earlier[i].decision \in Decisions
        BY <2>1 DEF Outcome
      <3>3. QED
        BY <2>1, <3>1, <3>2
    <2>3. tickets \in Seq(Nat)
      <3> DEFINE held_back == {j \in DOMAIN Earlier : Earlier[j].decision = "require_hitl"}
      <3>1. Cardinality(held_back) \in Nat
        <4>1. IsFiniteSet(1 .. Len(Earlier)) /\ held_back \in SUBSET (1 .. Len(Earlier))
          BY <2>1, FS_Interval
        <4>2. IsFiniteSet(held_back)
          BY <4>1, FS_Subset
        <4>3. QED
          BY <4>2, FS_CardinalityType
      <3>2. tickets = [i \in 1 .. Cardinality(held_back) |-> 0]
        BY DEF Init, RecordsInit
      <3>3. QED
        BY <3>1, <3>2
    <2>4. metrics \in Seq(MetricRow)
      <3> DEFINE row(i) == [timestamp |-> 0, committed |-> 0, decision |-> Earlier[i].decision,
                            status |-> Earlier[i].status, ruled |-> Earlier[i].ruled]
      <3>1. \A i \in 1 .. Len(Earlier) : row(i) \in MetricRow
        BY <2>1 DEF Outcome, MetricRow
      <3>2. metrics = [i \in 1 .. Len(Earlier) |-> row(i)]
        BY <2>1 DEF Init, RecordsInit
      <3> HIDE DEF row
      <3>3. QED
        BY <2>1, <3>1, <3>2
    <2>5. QED
      BY <2>2, <2>3, <2>4 DEF Init, PoolInit, RecordsInit, RecordsInv
  <1>2. PathInv /\ RecordsInv /\ [Next]_allVars => RecordsInv'
    <2> SUFFICES ASSUME PathInv, RecordsInv, [Next]_allVars PROVE RecordsInv'
      OBVIOUS
    <2>1. CASE UNCHANGED allVars
      BY <2>1 DEF allVars, poolVars, recordVars, RecordsInv
    <2>2. QED
      BY <2>1, RecordsStep DEF Next
  <1>3. QED
    BY <1>1, <1>2, PathAlways, PTL DEF Spec

-----------------------------------------------------------------------------
\* The tables grow at their end.

\* Every row there was is there still, as it was; a metric there was not is committed now.
Grown ==
  /\ \A i \in DOMAIN audits : i \in DOMAIN audits' /\ audits'[i] = audits[i]
  /\ \A i \in DOMAIN tickets : i \in DOMAIN tickets' /\ tickets'[i] = tickets[i]
  /\ \A i \in DOMAIN metrics : i \in DOMAIN metrics' /\ metrics'[i] = metrics[i]
  /\ \A i \in DOMAIN metrics' \ DOMAIN metrics : metrics'[i].committed = clock

\* What is appended to a sequence comes after what is there.
LEMMA AppendGrows ==
  ASSUME NEW S, NEW s \in Seq(S), NEW e \in S
  PROVE  /\ \A i \in DOMAIN s : i \in DOMAIN Append(s, e) /\ Append(s, e)[i] = s[i]
         /\ \A i \in DOMAIN Append(s, e) \ DOMAIN s : i = Len(s) + 1 /\ Append(s, e)[i] = e
  <1>1. /\ Append(s, e) \in Seq(S) /\ Len(s) \in Nat /\ Len(Append(s, e)) = Len(s) + 1
        /\ DOMAIN s = 1 .. Len(s)
    BY AppendProperties, LenProperties
  <1>2. DOMAIN Append(s, e) = 1 .. Len(s) + 1
    BY <1>1, LenProperties
  <1>3. QED
    BY <1>1, <1>2, AppendProperties

\* No step takes a row away.
LEMMA TablesGrow ==
  ASSUME PathInv, RecordsInv, NEW q \in Requests, Step(q)
  PROVE  Grown
  <1>1. CASE UNCHANGED <<audits, tickets, metrics>>
    BY <1>1 DEF Grown
  <1>2. CASE Audit(q)
    <2>1. PICK o \in Outcomes : audits' = Append(audits, o.decision)
      BY <1>2 DEF Audit
    <2>2. o.decision \in Decisions
      BY DEF Outcome
    <2>3. QED
      BY <1>2, <2>1, <2>2, AppendGrows DEF Audit, RecordsInv, Grown
  <1>3. CASE SubmitTicket(q)
    BY <1>3, AppendGrows DEF SubmitTicket, RecordsInv, Grown
  <1>4. CASE RecordMetric(q)
    <2>1. outcome[q] \in Outcome /\ stamp[q] \in Nat /\ clock \in Nat
      BY <1>4 DEF RecordMetric, RecordsInv, PathInv
    <2>2. Metric(outcome[q], q) \in MetricRow /\ Metric(outcome[q], q).committed = clock
      BY <2>1 DEF Metric, MetricRow, Outcome
    <2>3. QED
      BY <1>4, <2>2, AppendGrows DEF RecordMetric, RecordsInv, Grown
  <1>5. QED
    BY <1>1, <1>2, <1>3, <1>4, RecordsMove DEF RecordStep, AskAgent, RecordHistory, Recorded,
      recordVars

\* A table's rows can be counted.
LEMMA RowsFinite ==
  ASSUME NEW S, NEW s \in Seq(S), NEW rows \in SUBSET DOMAIN s
  PROVE  IsFiniteSet(rows) /\ Cardinality(rows) \in Nat
  <1>1. DOMAIN s = 1 .. Len(s) /\ Len(s) \in Nat
    BY LenProperties
  <1>2. IsFiniteSet(DOMAIN s)
    BY <1>1, FS_Interval
  <1>3. IsFiniteSet(rows)
    BY <1>2, FS_Subset
  <1>4. QED
    BY <1>3, FS_CardinalityType

\* More rows count for more.
LEMMA MoreRows ==
  ASSUME NEW S, NEW s \in Seq(S), NEW rows \in SUBSET DOMAIN s, NEW some \in SUBSET rows
  PROVE  Cardinality(some) <= Cardinality(rows)
  BY RowsFinite, FS_Subset

\* A query that is made again counts no less.
LEMMA CountedGrows ==
  ASSUME RecordsInv, RecordsInv', Grown, NEW query, NEW start
  PROVE  /\ Counted(query, start) \in Nat /\ Result(query, start) \in Nat
         /\ Counted(query, start) <= Counted(query, start)'
         /\ Result(query, start) <= Result(query, start)'
  <1>1. CASE query.table = "hitl_requests"
    <2> DEFINE rows == {i \in DOMAIN tickets : start = NoStart \/ tickets[i] >= start}
    <2>1. rows \in SUBSET DOMAIN tickets /\ rows' \in SUBSET DOMAIN tickets'
          /\ rows \in SUBSET rows'
      BY DEF Grown
    <2>2. Cardinality(rows) <= Cardinality(rows') /\ Cardinality(rows) \in Nat
      BY <2>1, MoreRows, RowsFinite DEF RecordsInv
    <2>3. Counted(query, start) = Cardinality(rows) /\ Counted(query, start)' = Cardinality(rows')
      BY <1>1 DEF Counted
    <2> HIDE DEF rows
    <2>4. QED
      BY <2>2, <2>3 DEF Result
  <1>2. CASE query.table # "hitl_requests"
    <2> DEFINE rows == {i \in DOMAIN metrics : /\ start = NoStart \/ metrics[i].timestamp >= start
                                             /\ Holds(metrics[i], query.where)}
    <2>1. rows \in SUBSET DOMAIN metrics /\ rows' \in SUBSET DOMAIN metrics'
          /\ rows \in SUBSET rows'
      BY DEF Grown
    <2>2. Cardinality(rows) <= Cardinality(rows') /\ Cardinality(rows) \in Nat
      BY <2>1, MoreRows, RowsFinite DEF RecordsInv
    <2>3. Counted(query, start) = Cardinality(rows) /\ Counted(query, start)' = Cardinality(rows')
      BY <1>2 DEF Counted
    <2> HIDE DEF rows
    <2>4. QED
      BY <2>2, <2>3 DEF Result
  <1>3. QED
    BY <1>1, <1>2

-----------------------------------------------------------------------------
\* What is counted, and reported.

ReportRow == [since : Starts \union {NoStart}, generated_at : Nat, total : Nat]

\* A total has in it every metric of its period that was committed by a time.
Covered(start, time, total) ==
  total >= Cardinality({i \in DOMAIN metrics : /\ metrics[i].timestamp >= start
                                              /\ metrics[i].committed <= time})

Counting == {"count", "summary", "find_report", "upsert", "serialize", "answer"}

\* A report in the making has counted what there was when its transaction began, in which
\* it still is; one that is stored was made in a transaction that began in the past.
ReportInv ==
  /\ since \in [Requests -> Starts \union {NoStart}]
  /\ counts \in [Requests -> Seq(Nat)]
  /\ reports \in Seq(ReportRow)
  /\ \A q \in Requests :
       /\ counts[q] # <<>> => pc[q] \in Counting \union Ended
       /\ pc[q] \in {"find_report", "upsert"} /\ kind[q] = "report" => counts[q] # <<>>
       /\ /\ kind[q] = "report" /\ pc[q] \in {"count", "find_report", "upsert"}
          /\ counts[q] # <<>>
          => "own" \in held[q] /\ Covered(since[q], stamp[q], counts[q][1])
  /\ \A r \in DOMAIN reports : reports[r].generated_at < clock
  /\ StampCovered

\* Only the request that counts changes its counts, and it begins with none.
LEMMA CountsMove ==
  ASSUME PathInv, RecordsInv, ReportInv, NEW q \in Requests, Step(q)
  PROVE  /\ \A p \in Requests \ {q} : counts'[p] = counts[p] /\ since'[p] = since[p]
         /\ since' \in [Requests -> Starts \union {NoStart}]
         /\ counts' \in [Requests -> Seq(Nat)]
         /\ Count(q) \/ counts'[q] = <<>> \/ (counts'[q] = counts[q] /\ since'[q] = since[q])
         /\ reports' = reports \/ Upsert(q)
  <1> USE DEF ReportInv
  <1>1. CASE UNCHANGED <<since, counts, reports>>
    BY <1>1
  <1>2. CASE Accept(q)
    <2>1. pc[q] = "idle" /\ UNCHANGED <<counts, reports>>
      BY <1>2 DEF Accept
    <2>2. counts[q] = <<>>
      BY <2>1 DEF Counting, Ended
    <2>3. \/ since' = since
          \/ \E t \in Starts \union {NoStart} : since' = [since EXCEPT ![q] = t]
      BY <1>2 DEF Accept
    <2>4. QED
      BY <2>1, <2>2, <2>3
  <1>3. CASE Count(q)
    <2>1. UNCHANGED <<since, reports>>
      BY <1>3 DEF Count
    <2>2. PICK query : counts' = [counts EXCEPT ![q] = Append(counts[q], Result(query, since[q]))]
      BY <1>3 DEF Count
    <2>3. Result(query, since[q]) \in Nat
      <3>1. CASE query.table = "hitl_requests"
        BY <3>1, RowsFinite DEF RecordsInv, Result, Counted
      <3>2. CASE query.table # "hitl_requests"
        BY <3>2, RowsFinite DEF RecordsInv, Result, Counted
      <3>3. QED
        BY <3>1, <3>2
    <2>4. Append(counts[q], Result(query, since[q])) \in Seq(Nat)
      BY <2>3, AppendProperties
    <2>5. QED
      BY <1>3, <2>1, <2>2, <2>4
  <1>4. CASE Forget(q)
    BY <1>4 DEF Forget
  <1>5. CASE Upsert(q)
    BY <1>5 DEF Upsert
  <1>6. QED
    BY <1>1, <1>2, <1>3, <1>4, <1>5 DEF Step, Authenticate, Wait, ReportStep, FindReport,
      Serialize, Answer, reportVars

\* Metrics that come later are not of the time before.
LEMMA CoveredStays ==
  ASSUME Grown, NEW start, NEW time \in Nat, NEW total, clock \in Nat, time < clock,
         Covered(start, time, total)
  PROVE  Covered(start, time, total)'
  <1> DEFINE those == {i \in DOMAIN metrics : /\ metrics[i].timestamp >= start
                                             /\ metrics[i].committed <= time}
  <1>1. \A i \in DOMAIN metrics' \ DOMAIN metrics : ~(metrics'[i].committed <= time)
    BY DEF Grown
  <1>2. those' = those
    BY <1>1 DEF Grown
  <1> HIDE DEF those
  <1>3. QED
    BY <1>2 DEF Covered, those

\* The first query of a report is about all metrics of its period.
LEMMA ReportCountsAll == Queries("report")[1] = Rows("all")
  <1>1. Queries("report") = _build_report_data
    BY DEF Queries, Monitoring, Analytics
  <1>2. _build_report_data[1] = Rows("all")
    BY DEF _build_report_data, risk_distribution, policy_effectiveness, most_triggered_rules,
      most_dangerous_tools, blocked_requests, hitl_statistics, avg_response_time
  <1>3. QED
    BY <1>1, <1>2

\* What counts all metrics of a period counts those of it that were committed by a time.
LEMMA AllCovers ==
  ASSUME RecordsInv, NEW start, NEW time
  PROVE  Covered(start, time, Result(Rows("all"), start))
  <1> DEFINE all == {i \in DOMAIN metrics : /\ start = NoStart \/ metrics[i].timestamp >= start
                                           /\ Holds(metrics[i], "all")}
             those == {i \in DOMAIN metrics : /\ metrics[i].timestamp >= start
                                             /\ metrics[i].committed <= time}
  <1>1. \A i \in DOMAIN metrics : Holds(metrics[i], "all")
    BY DEF Holds
  <1>2. those \in SUBSET all /\ all \in SUBSET DOMAIN metrics
    BY <1>1
  <1>3. Cardinality(those) <= Cardinality(all) /\ Cardinality(all) \in Nat
        /\ Cardinality(those) \in Nat
    <2>1. those \in SUBSET DOMAIN metrics
      OBVIOUS
    <2>2. QED
      BY <1>2, <2>1, MoreRows, RowsFinite DEF RecordsInv
  <1>4. Result(Rows("all"), start) = Cardinality(all)
    BY DEF Result, Counted, Rows
  <1> HIDE DEF all, those
  <1>5. QED
    BY <1>3, <1>4 DEF Covered, those

\* Where a request that has counted goes, and that a report keeps its connection.
LEMMA ReportMoves ==
  ASSUME PathInv, ReportInv, NEW q \in Requests, Step(q), counts'[q] # <<>>
  PROVE  /\ pc'[q] \in Counting \union Ended
         /\ /\ kind[q] = "report" /\ pc'[q] \in {"count", "find_report", "upsert"} /\ ~Count(q)
            => /\ pc[q] \in {"count", "find_report", "upsert"}
               /\ ("own" \in held[q] => held'[q] = held[q] /\ stamp'[q] = stamp[q])
         /\ Count(q) => /\ "own" \in held[q] \/ kind[q] # "report"
                       /\ held' = held /\ stamp' = stamp
  <1> USE DEF PathInv, ReportInv, Goto, Proceed, Committed, Over, Counting
  <1>1. CASE Accept(q)
    BY <1>1 DEF Accept, Ended
  <1>2. CASE Authenticate(q)
    BY <1>2 DEF Authenticate, Forget, Ended
  <1>3. CASE Connect(q) /\ UNCHANGED reportVars
    <2>1. Waits(q) /\ ~Count(q)
      BY <1>3 DEF Connect, Count, Waits, Connected
    <2>2. QED
      BY <1>3, <2>1 DEF Connect, Waits, SessionAt, OwnLabels, Ended, reportVars
  <1>4. CASE TimesOut(q) /\ UNCHANGED reportVars
    <2>1. pc[q] \in Counting \union Ended /\ ~Count(q)
      BY <1>4 DEF TimesOut, Count, Waits, Connected, reportVars
    <2>2. Over(q, "failed")
      BY <1>4, <2>1 DEF TimesOut, Raised, Waits, Ended, OwnLabels, AuthLabels
    <2>3. QED
      BY <2>1, <2>2 DEF Ended
  <1>5. CASE RecordStep(q) /\ UNCHANGED reportVars
    BY <1>5 DEF RecordStep, AskAgent, Audit, SubmitTicket, RecordHistory, RecordMetric,
      Recorded, reportVars, Ended
  <1>6. CASE ReportStep(q)
    BY <1>6 DEF ReportStep, Count, FindReport, Upsert, Serialize, Answer, Connected, SessionAt,
      OwnLabels, Ended, Path, Monitoring, Analytics
  <1>7. CASE PageStep(q) /\ UNCHANGED reportVars
    BY <1>7 DEF PageStep, Search, ReadAll, Ended, reportVars
  <1>8. CASE ContentStep(q) /\ UNCHANGED reportVars
    BY <1>8 DEF ContentStep, Find, Lookup, Generate, Persist, Reread, HandOut, Ended, reportVars
  <1>9. QED
    BY <1>1, <1>2, <1>3, <1>4, <1>5, <1>6, <1>7, <1>8 DEF Step, Wait, reportVars

\* What a report in the making has counted covers the time its transaction began.
LEMMA MakingStep ==
  ASSUME PathInv, RecordsInv, ReportInv, NEW q \in Requests, Step(q), NEW p \in Requests,
         kind'[p] = "report", pc'[p] \in {"count", "find_report", "upsert"}, counts'[p] # <<>>
  PROVE  "own" \in held'[p] /\ Covered(since[p], stamp[p], counts[p][1])'
  <1>1. kind' = kind /\ Grown
    BY OthersWait, TablesGrow
  <1>2. ASSUME pc[p] \in {"count", "find_report", "upsert"}, counts[p] # <<>>,
               UNCHANGED <<held[p], stamp[p], since[p]>>, counts'[p][1] = counts[p][1]
        PROVE  "own" \in held'[p] /\ Covered(since[p], stamp[p], counts[p][1])'
    <2>1. "own" \in held[p] /\ Covered(since[p], stamp[p], counts[p][1])
      BY <1>1, <1>2 DEF ReportInv
    <2>2. stamp[p] \in Nat /\ stamp[p] < clock /\ clock \in Nat
      BY DEF PathInv
    <2>3. Covered(since[p], stamp[p], counts[p][1])'
      BY <1>1, <1>2, <2>1, <2>2, CoveredStays
    <2>4. QED
      BY <1>2, <2>1, <2>3
  <1>3. CASE p # q
    BY <1>2, <1>3, OthersWait, CountsMove
  <1>4. CASE p = q /\ ~Count(q)
    <2>1. counts'[q] = counts[q] /\ since'[q] = since[q]
      BY <1>4, CountsMove
    <2>2. /\ pc[q] \in {"count", "find_report", "upsert"}
          /\ "own" \in held[q] => held'[q] = held[q] /\ stamp'[q] = stamp[q]
      BY <1>1, <1>4, ReportMoves
    <2>3. "own" \in held[q]
      BY <1>1, <1>4, <2>1, <2>2 DEF ReportInv
    <2>4. QED
      BY <1>2, <1>4, <2>1, <2>2, <2>3
  <1>5. CASE p = q /\ Count(q)
    <2> DEFINE result == Result(Queries(kind[q])[Len(counts[q]) + 1], since[q])
    <2>1. /\ held' = held /\ stamp' = stamp /\ "own" \in held[q]
          /\ UNCHANGED since /\ counts' = [counts EXCEPT ![q] = Append(counts[q], result)]
          /\ UNCHANGED recordVars
      <3>1. held' = held /\ stamp' = stamp /\ "own" \in held[q]
        BY <1>1, <1>5, ReportMoves
      <3>2. UNCHANGED recordVars
        BY <1>5, RecordsMove DEF Count, RecordStep, AskAgent, Audit, SubmitTicket, RecordHistory,
          RecordMetric, Recorded
      <3>3. QED
        BY <1>5, <3>1, <3>2 DEF Count
    <2>2. result \in Nat /\ counts[q] \in Seq(Nat) /\ counts'[q] = Append(counts[q], result)
      <3>1. RecordsInv' /\ Grown
        BY RecordsStep, TablesGrow
      <3>2. QED
        BY <2>1, <3>1, CountedGrows DEF ReportInv
    <2>3. CASE counts[q] = <<>>
      <3>1. counts'[q][1] = Result(Rows("all"), since[q])
        BY <1>1, <1>5, <2>2, <2>3, ReportCountsAll, EmptySeq, AppendProperties
      <3>2. Covered(since[q], stamp[q], Result(Rows("all"), since[q]))
        BY AllCovers
      <3>3. QED
        BY <1>5, <2>1, <3>1, <3>2 DEF Covered, recordVars
    <2>4. CASE counts[q] # <<>>
      <3>1. pc[q] \in {"count", "summary"} /\ pc[q] \in Path("report")
        BY <1>1, <1>5 DEF Count, PathInv
      <3>2. pc[q] = "count"
        BY <3>1 DEF Path, Ended, Monitoring, Analytics
      <3>3. counts'[q][1] = counts[q][1]
        BY <2>2, <2>4, EmptySeq, AppendProperties
      <3>4. QED
        BY <1>2, <1>5, <2>1, <2>4, <3>2, <3>3
    <2>5. QED
      BY <2>3, <2>4
  <1>6. QED
    BY <1>3, <1>4, <1>5

\* What is stored as a report is one that covers its time.
LEMMA StoredReports ==
  ASSUME PathInv, RecordsInv, ReportInv, NEW q \in Requests, Step(q)
  PROVE  /\ reports' \in Seq(ReportRow)
         /\ \A r \in DOMAIN reports' : reports'[r].generated_at < clock'
         /\ StampCovered'
  <1> DEFINE Good(row) ==
        /\ row \in ReportRow /\ row.generated_at < clock
        /\ Covered(row.since, row.generated_at, row.total)
  <1>1. \A r \in DOMAIN reports : Good(reports[r])
    BY ElementOfSeq, LenProperties DEF ReportInv, StampCovered, Covered
  <1>2. /\ reports' \in Seq(ReportRow)
        /\ \A r \in DOMAIN reports' : Good(reports'[r])
    <2>1. CASE reports' = reports
      BY <1>1, <2>1 DEF ReportInv
    <2>2. CASE Upsert(q)
      <3>1. kind[q] = "report" /\ pc[q] = "upsert"
        BY <2>2 DEF Upsert, PathInv, Path, Endpoints, Recording, Monitoring, Analytics, Ended
      <3>2. Good(Report(q))
        <4>1. /\ Covered(since[q], stamp[q], counts[q][1]) /\ counts[q] # <<>>
              /\ since[q] \in Starts \union {NoStart} /\ counts[q] \in Seq(Nat)
              /\ stamp[q] \in Nat /\ stamp[q] < clock
          BY <3>1 DEF ReportInv, PathInv
        <4>2. counts[q][1] \in Nat
          BY <4>1, EmptySeq, ElementOfSeq, LenProperties
        <4>3. QED
          BY <4>1, <4>2 DEF Report, ReportRow
      <3> HIDE DEF Good
      <3>3. Report(q) \in ReportRow /\ reports \in Seq(ReportRow)
        BY <3>2 DEF Good, ReportInv
      <3>4. CASE reports' = Append(reports, Report(q))
        BY <1>1, <3>2, <3>3, <3>4, AppendProperties, AppendGrows
      <3>5. CASE reports' = [reports EXCEPT ![target[q]] = Report(q)]
        <4>1. CASE target[q] \in 1 .. Len(reports)
          BY <1>1, <3>2, <3>3, <3>5, <4>1, ExceptSeq, LenProperties
        <4>2. CASE target[q] \notin 1 .. Len(reports)
          <5>1. reports \in [1 .. Len(reports) -> ReportRow]
            BY <3>3, LenProperties
          <5>2. [reports EXCEPT ![target[q]] = Report(q)] = reports
            BY <4>2, <5>1
          <5>3. QED
            BY <1>1, <3>3, <3>5, <5>2
        <4>3. QED
          BY <4>1, <4>2
      <3>6. QED
        BY <2>2, <3>4, <3>5 DEF Upsert
    <2>3. QED
      BY <2>1, <2>2, CountsMove
  <1>3. Grown /\ clock \in Nat /\ clock' \in Nat /\ clock' >= clock
    BY TablesGrow, OthersWait DEF PathInv
  <1>4. ASSUME NEW r \in DOMAIN reports'
        PROVE  /\ reports'[r].generated_at < clock'
               /\ Covered(reports[r].since, reports[r].generated_at, reports[r].total)'
    <2>1. Good(reports'[r])
      BY <1>2
    <2>2. reports'[r].generated_at \in Nat
      BY <2>1 DEF ReportRow
    <2>3. QED
      BY <1>3, <2>1, <2>2, CoveredStays
  <1>5. StampCovered'
    BY <1>4 DEF StampCovered, Covered
  <1>6. QED
    BY <1>2, <1>4, <1>5

\* A report that is looked for or stored has counted.
LEMMA ReportHasCounted ==
  ASSUME PathInv, RecordsInv, ReportInv, NEW q \in Requests, Step(q), kind'[q] = "report",
         pc'[q] \in {"find_report", "upsert"}
  PROVE  counts'[q] # <<>>
  <1> USE DEF Goto, Proceed, Committed, Over
  <1>1. kind[q] = "report" /\ kind' = kind
    BY OthersWait
  <1>2. pc[q] \in Path("report") /\ pc \in [Requests -> Labels] /\ counts \in [Requests -> Seq(Nat)]
    BY <1>1 DEF PathInv, ReportInv
  <1>3. CASE Count(q)
    <2>1. PICK result : counts' = [counts EXCEPT ![q] = Append(counts[q], result)]
      BY <1>3 DEF Count
    <2>2. Len(Append(counts[q], result)) = Len(counts[q]) + 1 /\ Len(counts[q]) \in Nat
      BY <1>2
    <2>3. Len(Append(counts[q], result)) # 0
      BY <2>2
    <2>4. ASSUME Append(counts[q], result) = <<>> PROVE Len(Append(counts[q], result)) = 0
      BY <2>4
    <2>5. Append(counts[q], result) # <<>>
      BY <2>3, <2>4
    <2>6. QED
      BY <1>2, <2>1, <2>5
  <1>4. CASE pc[q] \in {"find_report", "upsert"} /\ counts' = counts
    BY <1>1, <1>4 DEF ReportInv
  <1>5. CASE Accept(q) \/ Authenticate(q)
    BY <1>1, <1>2, <1>5 DEF Accept, Authenticate, FirstStep, Monitoring, Analytics
  <1>6. CASE Wait(q)
    BY <1>1, <1>2, <1>4, <1>6 DEF Wait, Connect, TimesOut, Raised, reportVars
  <1>7. CASE RecordStep(q)
    BY <1>1, <1>2, <1>7 DEF RecordStep, AskAgent, Audit, SubmitTicket, RecordHistory,
      RecordMetric, Recorded
  <1>8. CASE ReportStep(q)
    BY <1>1, <1>2, <1>3, <1>4, <1>8 DEF ReportStep, FindReport, Upsert, Serialize, Answer
  <1>9. CASE PageStep(q) \/ ContentStep(q)
    BY <1>1, <1>2, <1>9 DEF PageStep, Search, ReadAll, ContentStep, Find, Lookup, Generate,
      Persist, Reread, HandOut
  <1>10. QED
    BY <1>5, <1>6, <1>7, <1>8, <1>9 DEF Step

\* Every step keeps reports, stored or in the making, true to their time.
LEMMA ReportsStep ==
  ASSUME PathInv, RecordsInv, ReportInv, NEW q \in Requests, Step(q)
  PROVE  ReportInv'
  <1>1. /\ since' \in [Requests -> Starts \union {NoStart}]
        /\ counts' \in [Requests -> Seq(Nat)]
    BY CountsMove
  <1>2. /\ reports' \in Seq(ReportRow)
        /\ \A r \in DOMAIN reports' : reports'[r].generated_at < clock'
        /\ StampCovered'
    BY StoredReports
  <1>3. ASSUME NEW p \in Requests
        PROVE  /\ counts'[p] # <<>> => pc'[p] \in Counting \union Ended
               /\ pc'[p] \in {"find_report", "upsert"} /\ kind'[p] = "report" => counts'[p] # <<>>
    <2>1. CASE p # q
      BY <2>1, OthersWait, CountsMove DEF ReportInv
    <2>2. CASE p = q
      BY <2>2, ReportMoves, ReportHasCounted
    <2>3. QED
      BY <2>1, <2>2
  <1>4. \A p \in Requests :
          /\ kind'[p] = "report" /\ pc'[p] \in {"count", "find_report", "upsert"}
          /\ counts'[p] # <<>>
          => "own" \in held'[p] /\ Covered(since[p], stamp[p], counts[p][1])'
    BY MakingStep
  <1>5. QED
    BY <1>1, <1>2, <1>3, <1>4 DEF ReportInv

\* Reports are true to their time.
THEOREM ReportsAlways == Spec => []ReportInv
  <1>1. Init => ReportInv
    <2> SUFFICES ASSUME Init PROVE ReportInv
      OBVIOUS
    <2>1. since \in [Requests -> Starts \union {NoStart}] /\ counts \in [Requests -> Seq(Nat)]
      BY EmptySeq DEF Init, ReportsInit
    <2>2. reports \in Seq(ReportRow) /\ DOMAIN reports = {}
      BY EmptySeq DEF Init, ReportsInit
    <2>3. \A q \in Requests : counts[q] = <<>> /\ pc[q] = "idle"
      BY DEF Init, ReportsInit, PoolInit
    <2>4. QED
      BY <2>1, <2>2, <2>3 DEF ReportInv, StampCovered
  <1>2. PathInv /\ RecordsInv /\ ReportInv /\ [Next]_allVars => ReportInv'
    <2> SUFFICES ASSUME PathInv, RecordsInv, ReportInv, [Next]_allVars PROVE ReportInv'
      OBVIOUS
    <2>1. CASE UNCHANGED allVars
      BY <2>1 DEF allVars, poolVars, recordVars, reportVars, ReportInv, Covered, StampCovered
    <2>2. QED
      BY <2>1, ReportsStep DEF Next
  <1>3. QED
    BY <1>1, <1>2, PathAlways, RecordsAlways, PTL DEF Spec

\* A stored report has counted every metric of its period that was committed before the
\* time the report gives as its own.
THEOREM StampsAreCovered == Spec => []StampCovered
  <1>1. ReportInv => StampCovered
    BY DEF ReportInv
  <1>2. QED
    BY <1>1, ReportsAlways, PTL

-----------------------------------------------------------------------------
\* What is kept, and served.

Kept(s) == {i \in DOMAIN contents : contents[i].source = s}

AsksFor == {"find", "lookup", "generate", "persist", "reread", "hand_out", "keep", "kept"}

\* Of what is kept about a source some is newest; what was ever served is kept, so that the
\* newest is at least as new; and a request knows no later time than what was served.
ContentInv ==
  /\ source \in [Requests -> Sources \union {NoSource}]
  /\ contents \in Seq(Content)
  /\ served \in [Requests -> Content \union {NoContent}]
  /\ settled \in [Sources -> Nat]
  /\ floor \in [Requests -> Nat]
  /\ \A s \in Sources :
       /\ Kept(s) # {} => \E i \in Kept(s) : \A j \in Kept(s) :
                            contents[j].created_at <= contents[i].created_at
       /\ settled[s] > 0 => \E i \in Kept(s) : contents[i].created_at >= settled[s]
  /\ \A q \in Requests :
       /\ pc[q] \in AsksFor \/ (pc[q] = "auth" /\ kind[q] \in {"retrieve", "explain"})
            => source[q] \in Sources
       /\ source[q] \in Sources => floor[q] <= settled[source[q]]
       /\ served[q] # NoContent => \E i \in Kept(source[q]) : contents[i] = served[q]
       /\ pc[q] = "reread" => Kept(source[q]) # {}
       /\ pc[q] = "idle" => served[q] = NoContent
  /\ NeverOlder

\* What is found is the newest that is kept, if anything is.
LEMMA FoundIsNewest ==
  ASSUME ContentInv, NEW s \in Sources, Kept(s) # {}
  PROVE  /\ find_by_source(s) \in Content
         /\ \E i \in Kept(s) : /\ find_by_source(s) = contents[i]
                               /\ \A j \in Kept(s) : contents[j].created_at <= contents[i].created_at
  <1> DEFINE newest == CHOOSE i \in Kept(s) : \A j \in Kept(s) :
                         contents[j].created_at <= contents[i].created_at
  <1>1. \E i \in Kept(s) : \A j \in Kept(s) : contents[j].created_at <= contents[i].created_at
    BY DEF ContentInv
  <1>2. newest \in Kept(s) /\ \A j \in Kept(s) : contents[j].created_at <= contents[newest].created_at
    BY <1>1
  <1>3. find_by_source(s) = contents[newest]
    BY DEF find_by_source, Kept
  <1> HIDE DEF newest
  <1>4. contents[newest] \in Content
    BY <1>2, ElementOfSeq, LenProperties DEF ContentInv, Kept
  <1>5. QED
    BY <1>2, <1>3, <1>4

\* It is at least as new as what was served before the request came.
LEMMA FoundIsNewEnough ==
  ASSUME ContentInv, NEW q \in Requests, source[q] \in Sources, Kept(source[q]) # {}
  PROVE  /\ find_by_source(source[q]) \in Content
         /\ find_by_source(source[q]).created_at >= floor[q]
         /\ \E i \in Kept(source[q]) : contents[i] = find_by_source(source[q])
  <1> DEFINE s == source[q]
  <1>1. PICK i \in Kept(s) :
          /\ find_by_source(s) = contents[i] /\ find_by_source(s) \in Content
          /\ \A j \in Kept(s) : contents[j].created_at <= contents[i].created_at
    BY FoundIsNewest
  <1>2. floor[q] \in Nat /\ settled[s] \in Nat /\ floor[q] <= settled[s]
    BY DEF ContentInv
  <1>3. contents[i].created_at \in Nat
    BY <1>1 DEF Content
  <1>4. contents[i].created_at >= settled[s]
    <2>1. CASE settled[s] = 0
      BY <1>3, <2>1
    <2>2. CASE settled[s] > 0
      <3>1. PICK j \in Kept(s) : contents[j].created_at >= settled[s]
        BY <2>2 DEF ContentInv
      <3>2. contents[j].created_at \in Nat
        <4>1. contents[j] \in Content
          BY ElementOfSeq, LenProperties DEF ContentInv, Kept
        <4>2. QED
          BY <4>1 DEF Content
      <3>3. QED
        BY <1>1, <1>2, <1>3, <3>1, <3>2
    <2>3. QED
      BY <1>2, <2>1, <2>2
  <1>5. QED
    BY <1>1, <1>2, <1>3, <1>4

\* What is found when nothing is kept.
LEMMA NothingFound ==
  ASSUME NEW s, Kept(s) = {}
  PROVE  find_by_source(s) = NoContent
  BY DEF find_by_source, Kept

\* A request is somewhere on a path of content only by a step of its endpoint.
LEMMA ContentMoves ==
  ASSUME PathInv, NEW q \in Requests, Step(q)
  PROVE  \/ ContentStep(q)
         \/ /\ UNCHANGED contentVars
            /\ pc'[q] \in AsksFor => pc[q] \in AsksFor \/ (pc[q] = "auth" /\ kind[q] \in {"retrieve", "explain"})
            /\ pc'[q] = "auth" => pc[q] = "auth" \/ kind[q] \notin {"retrieve", "explain"}
            /\ pc'[q] \in {"reread", "hand_out"} => pc'[q] = pc[q]
         \/ /\ Accept(q) /\ kind[q] \in {"retrieve", "explain"}
            /\ pc'[q] \notin {"reread", "hand_out"}
         \/ /\ Accept(q) /\ kind[q] \notin {"retrieve", "explain"} /\ UNCHANGED contentVars
            /\ pc'[q] \notin AsksFor
  <1> USE DEF PathInv, Goto, Proceed, Committed, Over, AsksFor
  <1>0. kind[q] \in Endpoints /\ pc[q] \in Path(kind[q])
    OBVIOUS
  <1>1. CASE Accept(q)
    <2>1. CASE kind[q] \in {"retrieve", "explain"}
      BY <1>1, <2>1 DEF Accept, FirstStep, Monitoring, Analytics
    <2>2. CASE kind[q] \notin {"retrieve", "explain"}
      <3>1. UNCHANGED contentVars
        BY <1>1, <2>2 DEF Accept, contentVars
      <3>2. pc'[q] \in {"agent", "auth"} \/ (kind[q] = "execute" /\ pc'[q] = FirstStep("execute"))
        BY <1>1, <2>2 DEF Accept, Anonymous
      <3>3. FirstStep("execute") = "audit"
        BY DEF FirstStep, Monitoring, Analytics
      <3>4. QED
        BY <1>1, <2>2, <3>1, <3>2, <3>3
    <2>3. QED
      BY <2>1, <2>2
  <1>2. CASE Authenticate(q)
    <2>1. pc[q] = "auth" /\ "auth" \notin Path("chat") /\ UNCHANGED contentVars
      BY <1>2 DEF Authenticate, Path, Recording, Ended, Monitoring, Analytics
    <2>2. pc'[q] = "refused" \/ (kind[q] \in Endpoints \ {"chat"} /\ pc'[q] = FirstStep(kind[q]))
      BY <1>0, <1>2, <2>1 DEF Authenticate
    <2>3. \A k \in Endpoints \ {"chat", "retrieve", "explain"} :
            FirstStep(k) \in {"audit", "summary", "count", "find_report", "search"}
      BY DEF FirstStep, Endpoints, Monitoring, Analytics
    <2>4. FirstStep("retrieve") = "find" /\ FirstStep("explain") = "generate"
      BY DEF FirstStep, Monitoring, Analytics
    <2>5. QED
      BY <2>1, <2>2, <2>3, <2>4
  <1>3. CASE Wait(q)
    BY <1>3 DEF Wait, Connect, TimesOut, Raised
  <1>4. CASE RecordStep(q) /\ UNCHANGED <<reportVars, pageVars, contentVars>>
    BY <1>4 DEF RecordStep, AskAgent, Audit, SubmitTicket, RecordHistory, RecordMetric, Recorded
  <1>5. CASE ReportStep(q) /\ UNCHANGED <<recordVars, pageVars, contentVars>>
    BY <1>5 DEF ReportStep, Count, FindReport, Upsert, Serialize, Answer
  <1>6. CASE PageStep(q) /\ UNCHANGED <<recordVars, reportVars, contentVars>>
    <2>1. pc[q] \in {"search", "read"}
      BY <1>6 DEF PageStep, Search, ReadAll
    <2>2. kind[q] = "pages"
      BY <1>0, <2>1 DEF Path, Recording, Ended, Monitoring, Analytics, Endpoints
    <2>3. QED
      BY <1>6, <2>2 DEF PageStep, Search, ReadAll
  <1>7. QED
    BY <1>1, <1>2, <1>3, <1>4, <1>5, <1>6 DEF Step

\* A step of content keeps what is kept in order, and serves what is new enough.
LEMMA ContentStepKeeps ==
  ASSUME PathInv, ContentInv, NEW q \in Requests, ContentStep(q)
  PROVE  ContentInv'
  <1>0. /\ q \in Requests /\ pc \in [Requests -> Labels] /\ kind \in [Requests -> Endpoints]
        /\ pc[q] \in AsksFor /\ source[q] \in Sources /\ kind' = kind
    BY DEF ContentStep, Find, Lookup, Generate, Persist, Reread, HandOut, PathInv, ContentInv,
      AsksFor, Proceed, Committed, Over
  <1> USE DEF Goto, Proceed, Committed, Over
  <1>1. ASSUME UNCHANGED contentVars, pc'[q] \in AsksFor \union Ended, pc'[q] # "reread",
               pc'[q] # "hand_out", Goto(q, pc'[q])
        PROVE  ContentInv'
    <2>1. /\ UNCHANGED <<source, contents, served, settled, floor>>
          /\ \A s : Kept(s)' = Kept(s)
      BY <1>1 DEF contentVars, Kept
    <2>2. \A p \in Requests \ {q} : pc'[p] = pc[p]
      BY <1>0, <1>1
    <2>3. pc'[q] # "auth"
      BY <1>1 DEF AsksFor, Ended
    <2>4. NeverOlder'
      BY <1>1, <2>1, <2>2 DEF ContentInv, NeverOlder
    <2>5. \A p \in Requests :
            /\ pc'[p] \in AsksFor \/ (pc'[p] = "auth" /\ kind'[p] \in {"retrieve", "explain"})
                 => source'[p] \in Sources
            /\ source'[p] \in Sources => floor'[p] <= settled'[source'[p]]
            /\ served'[p] # NoContent => \E i \in Kept(source[p])' : contents'[i] = served'[p]
            /\ pc'[p] = "reread" => Kept(source[p])' # {}
            /\ pc'[p] = "idle" => served'[p] = NoContent
      <3>1. \A p \in Requests :
              pc'[p] = pc[p] \/ (p = q /\ pc'[p] \notin {"auth", "reread", "idle"})
        BY <1>1, <2>2, <2>3 DEF AsksFor, Ended
      <3>2. \A p \in Requests : source'[p] = source[p] /\ Kept(source[p])' = Kept(source[p])
        BY <2>1 DEF Kept
      <3>3. QED
        BY <1>0, <2>1, <3>1, <3>2 DEF ContentInv
    <2>6. \A s \in Sources :
            /\ Kept(s)' # {} => \E i \in Kept(s)' : \A j \in Kept(s)' :
                                  contents'[j].created_at <= contents'[i].created_at
            /\ settled'[s] > 0 => \E i \in Kept(s)' : contents'[i].created_at >= settled'[s]
      BY <2>1 DEF ContentInv
    <2>7. /\ source' \in [Requests -> Sources \union {NoSource}]
          /\ contents' \in Seq(Content) /\ settled' \in [Sources -> Nat]
          /\ served' \in [Requests -> Content \union {NoContent}] /\ floor' \in [Requests -> Nat]
      BY <2>1 DEF ContentInv
    <2>8. QED
      BY <2>4, <2>5, <2>6, <2>7 DEF ContentInv
  <1>2. ASSUME Serve(q), UNCHANGED <<source, contents, settled, floor>>,
               \/ Kept(source[q]) # {} /\ Goto(q, "hand_out")
               \/ Kept(source[q]) = {} /\ Goto(q, "lookup")
        PROVE  ContentInv'
    <2>1. /\ served' \in [Requests -> Content \union {NoContent}]
          /\ \A p \in Requests \ {q} : served'[p] = served[p] /\ pc'[p] = pc[p]
          /\ served'[q] = find_by_source(source[q])
      BY <1>0, <1>2, FoundIsNewEnough, NothingFound DEF Serve, ContentInv
    <2>5. /\ UNCHANGED <<source, contents, settled, floor>> /\ \A s : Kept(s)' = Kept(s)
          /\ kind' = kind /\ source[q] \in Sources
      BY <1>0, <1>2 DEF Kept
    <2>2. CASE Kept(source[q]) # {}
      <3>0. /\ find_by_source(source[q]) \in Content
            /\ find_by_source(source[q]).created_at >= floor[q]
            /\ \E i \in Kept(source[q]) : contents[i] = find_by_source(source[q])
        BY <1>0, <2>2, FoundIsNewEnough
      <3>1. /\ served'[q] \in Content /\ served'[q].created_at >= floor[q]
            /\ \E i \in Kept(source[q]) : contents[i] = served'[q]
        BY <2>1, <3>0
      <3>2. pc'[q] = "hand_out" /\ served'[q] # NoContent
        BY <1>0, <1>2, <2>2, <3>1
      <3>3. NeverOlder'
        BY <1>2, <2>1, <3>1, <3>2 DEF ContentInv, NeverOlder
      <3>4. \A p \in Requests :
              served'[p] # NoContent => \E i \in Kept(source[p]) : contents[i] = served'[p]
        BY <2>1, <3>1 DEF ContentInv
      <3>5. QED
        BY <2>1, <2>5, <3>2, <3>3, <3>4 DEF ContentInv, AsksFor
    <2>3. CASE Kept(source[q]) = {}
      <3>0. find_by_source(source[q]) = NoContent
        BY <2>3, NothingFound
      <3>1. served'[q] = NoContent /\ pc'[q] = "lookup"
        BY <1>0, <1>2, <2>1, <2>3, <3>0
      <3>2. NeverOlder'
        BY <1>2, <2>1, <3>1 DEF ContentInv, NeverOlder
      <3>3. QED
        BY <2>1, <2>5, <3>1, <3>2 DEF ContentInv, AsksFor
    <2>4. QED
      BY <2>2, <2>3
  <1>3. CASE Find(q)
    <2>1. Kept(source[q]) = {} <=> find_by_source(source[q]) = NoContent
      BY <1>0, FoundIsNewest, NothingFound
    <2>2. QED
      BY <1>2, <1>3, <2>1 DEF Find
  <1>4. CASE Reread(q)
    <2>1. Kept(source[q]) # {}
      BY <1>4 DEF Reread, ContentInv
    <2>2. QED
      BY <1>2, <1>4, <2>1 DEF Reread
  <1>5. CASE Lookup(q) \/ Generate(q)
    BY <1>0, <1>1, <1>5 DEF Lookup, Generate, AsksFor, Ended
  <1>6. CASE Persist(q)
    <2> DEFINE new == [source |-> source[q], created_at |-> stamp[q]]
    <2>1. new \in Content /\ contents \in Seq(Content) /\ contents' = Append(contents, new)
      BY <1>0, <1>6 DEF Persist, Content, PathInv, ContentInv
    <2> DEFINE last == Len(contents) + 1
    <2>2. /\ contents' \in Seq(Content) /\ last \in DOMAIN contents' /\ contents'[last] = new
          /\ \A i \in DOMAIN contents : i \in DOMAIN contents' /\ contents'[i] = contents[i]
          /\ \A i \in DOMAIN contents' : i \in DOMAIN contents \/ i = last
      <3>1. contents' \in Seq(Content) /\ Len(contents) \in Nat /\ Len(contents') = last
        BY <2>1, AppendProperties
      <3>2. DOMAIN contents' = 1 .. last /\ DOMAIN contents = 1 .. Len(contents)
        BY <2>1, <3>1, LenProperties
      <3>3. QED
        BY <2>1, <3>1, <3>2, AppendProperties
    <2> HIDE DEF new, last
    <2>3. /\ \A s \in Sources : Kept(s) \subseteq Kept(s)'
          /\ last \in Kept(source[q])'
          /\ \A s \in Sources : \A i \in Kept(s)' : i \in Kept(s) \/ (i = last /\ s = source[q])
      <3>1. new.source = source[q]
        BY DEF new
      <3>2. QED
        BY <1>6, <2>2, <3>1 DEF Kept, Persist
    <2>4. \A i \in DOMAIN contents' : contents'[i].created_at \in Nat
      <3>1. \A i \in DOMAIN contents' : contents'[i] \in Content
        BY <2>2, ElementOfSeq, LenProperties
      <3>2. QED
        BY <3>1 DEF Content
    <2>5. ASSUME NEW s \in Sources, Kept(s)' # {}
          PROVE  \E i \in Kept(s)' : \A j \in Kept(s)' :
                   contents'[j].created_at <= contents'[i].created_at
      <3>1. CASE Kept(s) = {}
        <4>1. Kept(s)' = {last}
          BY <2>3, <2>5, <3>1
        <4>2. contents'[last].created_at \in Nat
          BY <2>2, <2>4
        <4>3. QED
          BY <4>1, <4>2
      <3>2. CASE Kept(s) # {}
        <4>1. PICK i \in Kept(s) : \A j \in Kept(s) : contents[j].created_at <= contents[i].created_at
          BY <3>2 DEF ContentInv
        <4>2. /\ i \in Kept(s)' /\ contents'[i] = contents[i] /\ contents'[i].created_at \in Nat
              /\ \A j \in Kept(s) : contents'[j] = contents[j]
          BY <2>2, <2>3, <2>4, <4>1 DEF Kept
        <4>3. CASE last \in Kept(s)' /\ contents'[last].created_at > contents'[i].created_at
          <5>1. contents'[last].created_at \in Nat
            BY <2>2, <2>4
          <5>2. \A j \in Kept(s)' : contents'[j].created_at \in Nat
            BY <2>4 DEF Kept
          <5>3. \A j \in Kept(s)' : contents'[j].created_at <= contents'[last].created_at
            BY <2>3, <4>1, <4>2, <4>3, <5>1, <5>2
          <5>4. QED
            BY <4>3, <5>3
        <4>4. CASE ~(last \in Kept(s)' /\ contents'[last].created_at > contents'[i].created_at)
          <5>1. contents'[last].created_at \in Nat
            BY <2>2, <2>4
          <5>2. \A j \in Kept(s)' : contents'[j].created_at <= contents'[i].created_at
            BY <2>3, <4>1, <4>2, <4>4, <5>1
          <5>3. QED
            BY <4>2, <5>2
        <4>5. QED
          BY <4>3, <4>4
      <3>3. QED
        BY <3>1, <3>2
    <2>6. /\ UNCHANGED <<source, served, settled, floor>>
          /\ pc'[q] \in {"reread", "kept"}
          /\ \A p \in Requests \ {q} : pc'[p] = pc[p]
      BY <1>0, <1>6 DEF Persist
    <2>7. \A s \in Sources : settled'[s] > 0 => \E i \in Kept(s)' : contents'[i].created_at >= settled'[s]
      <3> SUFFICES ASSUME NEW s \in Sources, settled[s] > 0
                   PROVE  \E i \in Kept(s)' : contents'[i].created_at >= settled[s]
        BY <2>6
      <3>1. PICK i \in Kept(s) : contents[i].created_at >= settled[s]
        BY DEF ContentInv
      <3>2. i \in Kept(s)' /\ contents'[i] = contents[i]
        BY <2>2, <2>3 DEF Kept
      <3>3. QED
        BY <3>1, <3>2
    <2>8. \A p \in Requests : served'[p] # NoContent => \E i \in Kept(source[p])' : contents'[i] = served'[p]
      BY <2>2, <2>6 DEF ContentInv, Kept
    <2>9. \A p \in Requests : pc'[p] = "reread" => Kept(source[p])' # {}
      <3>1. Kept(source[q])' # {}
        BY <2>3
      <3>2. \A p \in Requests \ {q} : pc[p] = "reread" => Kept(source[p]) # {} /\ source[p] \in Sources
        BY DEF ContentInv, AsksFor
      <3>3. QED
        BY <2>3, <2>6, <3>1, <3>2
    <2>10. NeverOlder'
      BY <2>6 DEF ContentInv, NeverOlder
    <2>11. QED
      BY <1>0, <2>2, <2>5, <2>6, <2>7, <2>8, <2>9, <2>10 DEF ContentInv, AsksFor
  <1>7. CASE HandOut(q)
    <2>1. /\ source' = [source EXCEPT ![q] = NoSource] /\ contents' = contents
          /\ served' = [served EXCEPT ![q] = NoContent] /\ floor' = [floor EXCEPT ![q] = 0]
          /\ pc'[q] = "done" /\ \A p \in Requests \ {q} : pc'[p] = pc[p]
      BY <1>0, <1>7 DEF HandOut, ForgetContent
    <2>2. /\ settled' \in [Sources -> Nat]
          /\ \A s \in Sources : settled'[s] >= settled[s]
          /\ \A s \in Sources : settled'[s] > 0 =>
               \E i \in Kept(s) : contents[i].created_at >= settled'[s]
      <3>1. CASE settled' = settled
        BY <3>1 DEF ContentInv
      <3>2. CASE /\ served[q] # NoContent /\ served[q].created_at > settled[source[q]]
                 /\ settled' = [settled EXCEPT ![source[q]] = served[q].created_at]
        <4>1. served[q] \in Content /\ settled \in [Sources -> Nat]
          BY <3>2 DEF ContentInv
        <4>2. served[q].created_at \in Nat
          BY <4>1 DEF Content
        <4>3. PICK i \in Kept(source[q]) : contents[i] = served[q]
          BY <3>2 DEF ContentInv
        <4>4. contents[i].created_at >= served[q].created_at
          BY <4>2, <4>3
        <4>5. \A s \in Sources : settled'[s] = IF s = source[q] THEN served[q].created_at ELSE settled[s]
          BY <3>2, <4>1
        <4>6. settled' \in [Sources -> Nat]
          BY <3>2, <4>1, <4>2
        <4>7. \A s \in Sources : settled'[s] >= settled[s]
          BY <3>2, <4>1, <4>2, <4>5
        <4>8. \A s \in Sources : settled'[s] > 0 =>
                \E k \in Kept(s) : contents[k].created_at >= settled'[s]
          BY <4>3, <4>4, <4>5 DEF ContentInv
        <4>9. QED
          BY <4>6, <4>7, <4>8
      <3>3. QED
        BY <1>7, <3>1, <3>2 DEF HandOut
    <2>3. \A p \in Requests :
            /\ p # q => /\ source'[p] = source[p] /\ served'[p] = served[p]
                        /\ floor'[p] = floor[p]
            /\ p = q => source'[p] = NoSource /\ served'[p] = NoContent /\ floor'[p] = 0
      BY <2>1 DEF ContentInv
    <2>4. ASSUME NEW p \in Requests, source'[p] \in Sources
          PROVE  floor'[p] <= settled'[source'[p]]
      <3>1. settled \in [Sources -> Nat] /\ floor \in [Requests -> Nat]
        BY DEF ContentInv
      <3>2. CASE p = q
        BY <2>2, <2>3, <2>4, <3>2
      <3>3. CASE p # q
        <4>1. source'[p] = source[p] /\ floor'[p] = floor[p]
          BY <2>3, <3>3
        <4>2. floor[p] <= settled[source[p]]
          BY <2>4, <4>1 DEF ContentInv
        <4>3. settled'[source[p]] >= settled[source[p]] /\ settled'[source[p]] \in Nat
              /\ settled[source[p]] \in Nat /\ floor[p] \in Nat
          BY <2>2, <2>4, <3>1, <4>1
        <4>4. QED
          BY <4>1, <4>2, <4>3
      <3>4. QED
        BY <3>2, <3>3
    <2>5. \A p \in Requests : served'[p] # NoContent => \E i \in Kept(source[p])' : contents'[i] = served'[p]
      BY <2>1, <2>3 DEF ContentInv, Kept
    <2>6. NeverOlder'
      BY <2>1, <2>3 DEF ContentInv, NeverOlder
    <2>7. /\ source' \in [Requests -> Sources \union {NoSource}]
          /\ served' \in [Requests -> Content \union {NoContent}]
          /\ floor' \in [Requests -> Nat] /\ contents' \in Seq(Content)
      BY <2>1 DEF ContentInv
    <2>8. \A s \in Sources : Kept(s)' = Kept(s)
      BY <2>1 DEF Kept
    <2>9. \A p \in Requests :
            /\ pc'[p] \in AsksFor \/ (pc'[p] = "auth" /\ kind'[p] \in {"retrieve", "explain"})
                 => source'[p] \in Sources
            /\ pc'[p] = "reread" => Kept(source[p])' # {}
            /\ pc'[p] = "idle" => served'[p] = NoContent
      BY <1>0, <2>1, <2>3 DEF ContentInv, Kept, AsksFor
    <2>10. \A s \in Sources :
             /\ Kept(s)' # {} => \E i \in Kept(s)' : \A j \in Kept(s)' :
                                   contents'[j].created_at <= contents'[i].created_at
             /\ settled'[s] > 0 => \E i \in Kept(s)' : contents'[i].created_at >= settled'[s]
      <3>1. contents' = contents /\ \A s \in Sources : Kept(s)' = Kept(s)
        BY <2>1, <2>8
      <3>2. ASSUME NEW s \in Sources, Kept(s)' # {}
            PROVE  \E i \in Kept(s)' : \A j \in Kept(s)' :
                     contents'[j].created_at <= contents'[i].created_at
        BY <3>1, <3>2 DEF ContentInv
      <3>3. ASSUME NEW s \in Sources, settled'[s] > 0
            PROVE  \E i \in Kept(s)' : contents'[i].created_at >= settled'[s]
        BY <2>2, <3>1, <3>3
      <3>4. QED
        BY <3>2, <3>3
    <2>11. QED
      BY <2>2, <2>4, <2>5, <2>6, <2>7, <2>9, <2>10 DEF ContentInv
  <1>8. QED
    BY <1>3, <1>4, <1>5, <1>6, <1>7 DEF ContentStep

\* Nobody who has come is idle again.
LEMMA NeverIdleAgain ==
  ASSUME PathInv, NEW q \in Requests, Step(q)
  PROVE  pc'[q] # "idle"
  <1> USE DEF PathInv, Goto, Proceed, Committed, Over
  <1>1. CASE Accept(q)
    <2>1. kind[q] \in Endpoints /\ \A k \in Anonymous : FirstStep(k) # "idle"
      BY DEF Anonymous, FirstStep, Monitoring, Analytics
    <2>2. QED
      BY <1>1, <2>1 DEF Accept
  <1>2. CASE Authenticate(q)
    <2>1. pc[q] = "auth" /\ "auth" \notin Path("chat")
      BY <1>2 DEF Authenticate, Path, Recording, Ended, Monitoring, Analytics
    <2>2. \A k \in Endpoints \ {"chat"} : FirstStep(k) # "idle"
      BY DEF FirstStep, Endpoints, Monitoring, Analytics
    <2>3. QED
      BY <1>2, <2>1, <2>2 DEF Authenticate
  <1>3. CASE Wait(q)
    BY <1>3 DEF Wait, Connect, TimesOut, Raised, Waits, OwnLabels, AuthLabels
  <1>4. CASE RecordStep(q)
    BY <1>4 DEF RecordStep, AskAgent, Audit, SubmitTicket, RecordHistory, RecordMetric, Recorded
  <1>5. CASE ReportStep(q)
    BY <1>5 DEF ReportStep, Count, FindReport, Upsert, Serialize, Answer
  <1>6. CASE PageStep(q)
    BY <1>6 DEF PageStep, Search, ReadAll
  <1>7. CASE ContentStep(q)
    BY <1>7 DEF ContentStep, Find, Lookup, Generate, Persist, Reread, HandOut
  <1>8. QED
    BY <1>1, <1>2, <1>3, <1>4, <1>5, <1>6, <1>7 DEF Step

\* Every step keeps what is kept in order, and serves what is new enough.
LEMMA ContentsStep ==
  ASSUME PathInv, ContentInv, NEW q \in Requests, Step(q)
  PROVE  ContentInv'
  <1>1. /\ pc'[q] # "idle" /\ kind' = kind
        /\ \A p \in Requests \ {q} : pc'[p] = pc[p]
    BY NeverIdleAgain, OthersWait
  <1>2. CASE ContentStep(q)
    BY <1>2, ContentStepKeeps
  <1>3. CASE UNCHANGED contentVars /\ pc'[q] \notin {"reread", "hand_out"}
             /\ (pc'[q] \in AsksFor \/ (pc'[q] = "auth" /\ kind[q] \in {"retrieve", "explain"})
                   => source[q] \in Sources)
    <2>1. /\ UNCHANGED <<source, contents, served, settled, floor>>
          /\ \A s : Kept(s)' = Kept(s)
      BY <1>3 DEF contentVars, Kept
    <2>2. \A p \in Requests : source'[p] = source[p] /\ Kept(source[p])' = Kept(source[p])
      BY <2>1 DEF Kept
    <2>3. NeverOlder'
      BY <1>1, <1>3, <2>1 DEF ContentInv, NeverOlder
    <2>4. \A s \in Sources :
            /\ Kept(s)' # {} => \E i \in Kept(s)' : \A j \in Kept(s)' :
                                  contents'[j].created_at <= contents'[i].created_at
            /\ settled'[s] > 0 => \E i \in Kept(s)' : contents'[i].created_at >= settled'[s]
      BY <2>1 DEF ContentInv
    <2>5. \A p \in Requests :
            /\ pc'[p] \in AsksFor \/ (pc'[p] = "auth" /\ kind'[p] \in {"retrieve", "explain"})
                 => source'[p] \in Sources
            /\ source'[p] \in Sources => floor'[p] <= settled'[source'[p]]
            /\ served'[p] # NoContent => \E i \in Kept(source[p])' : contents'[i] = served'[p]
            /\ pc'[p] = "reread" => Kept(source[p])' # {}
            /\ pc'[p] = "idle" => served'[p] = NoContent
      BY <1>1, <1>3, <2>1, <2>2 DEF ContentInv
    <2>6. QED
      BY <2>1, <2>3, <2>4, <2>5 DEF ContentInv
  <1>4. CASE UNCHANGED contentVars /\ pc'[q] \in {"reread", "hand_out"} /\ pc'[q] = pc[q]
    <2>1. /\ UNCHANGED <<source, contents, served, settled, floor>>
          /\ \A s : Kept(s)' = Kept(s)
      BY <1>4 DEF contentVars, Kept
    <2>2. \A p \in Requests : /\ source'[p] = source[p] /\ Kept(source[p])' = Kept(source[p])
                              /\ pc'[p] = pc[p] /\ kind'[p] = kind[p]
      BY <1>1, <1>4, <2>1 DEF Kept
    <2>3. NeverOlder'
      BY <2>1, <2>2 DEF ContentInv, NeverOlder
    <2>4. \A s \in Sources :
            /\ Kept(s)' # {} => \E i \in Kept(s)' : \A j \in Kept(s)' :
                                  contents'[j].created_at <= contents'[i].created_at
            /\ settled'[s] > 0 => \E i \in Kept(s)' : contents'[i].created_at >= settled'[s]
      BY <2>1 DEF ContentInv
    <2>5. QED
      BY <2>1, <2>2, <2>3, <2>4 DEF ContentInv
  <1>5. CASE Accept(q) /\ kind[q] \in {"retrieve", "explain"} /\ pc'[q] \notin {"reread", "hand_out"}
    <2>1. PICK s \in Sources : /\ source' = [source EXCEPT ![q] = s]
                               /\ floor' = [floor EXCEPT ![q] = settled[s]]
      BY <1>5 DEF Accept
    <2>2. /\ UNCHANGED <<contents, served, settled>> /\ pc[q] = "idle"
          /\ \A r : Kept(r)' = Kept(r)
      BY <1>5 DEF Accept, Kept
    <2>3. served'[q] = NoContent /\ source'[q] = s /\ floor'[q] = settled'[s]
      BY <2>1, <2>2 DEF ContentInv
    <2>4. \A p \in Requests \ {q} : /\ source'[p] = source[p] /\ floor'[p] = floor[p]
                                    /\ Kept(source[p])' = Kept(source[p])
      <3>1. \A p \in Requests \ {q} : source'[p] = source[p] /\ floor'[p] = floor[p]
        BY <2>1 DEF ContentInv
      <3>2. QED
        BY <2>2, <3>1 DEF Kept
    <2>5. /\ source' \in [Requests -> Sources \union {NoSource}]
          /\ floor' \in [Requests -> Nat] /\ settled[s] \in Nat
      BY <2>1 DEF ContentInv
    <2>6. NeverOlder'
      BY <1>1, <1>5, <2>2, <2>4 DEF ContentInv, NeverOlder
    <2>7. \A r \in Sources :
            /\ Kept(r)' # {} => \E i \in Kept(r)' : \A j \in Kept(r)' :
                                  contents'[j].created_at <= contents'[i].created_at
            /\ settled'[r] > 0 => \E i \in Kept(r)' : contents'[i].created_at >= settled'[r]
      BY <2>2 DEF ContentInv
    <2>8. \A p \in Requests :
            /\ pc'[p] \in AsksFor \/ (pc'[p] = "auth" /\ kind'[p] \in {"retrieve", "explain"})
                 => source'[p] \in Sources
            /\ source'[p] \in Sources => floor'[p] <= settled'[source'[p]]
            /\ served'[p] # NoContent => \E i \in Kept(source[p])' : contents'[i] = served'[p]
            /\ pc'[p] = "reread" => Kept(source[p])' # {}
            /\ pc'[p] = "idle" => served'[p] = NoContent
      <3>1. ASSUME NEW p \in Requests \ {q}
            PROVE  /\ pc'[p] \in AsksFor \/ (pc'[p] = "auth" /\ kind'[p] \in {"retrieve", "explain"})
                        => source'[p] \in Sources
                   /\ source'[p] \in Sources => floor'[p] <= settled'[source'[p]]
                   /\ served'[p] # NoContent => \E i \in Kept(source[p])' : contents'[i] = served'[p]
                   /\ pc'[p] = "reread" => Kept(source[p])' # {}
                   /\ pc'[p] = "idle" => served'[p] = NoContent
        BY <1>1, <2>2, <2>4 DEF ContentInv
      <3>2. QED
        BY <1>1, <1>5, <2>2, <2>3, <2>5, <3>1
    <2>9. QED
      BY <2>2, <2>5, <2>6, <2>7, <2>8 DEF ContentInv
  <1>6. QED
    <2>1. CASE ContentStep(q) \/ (Accept(q) /\ kind[q] \in {"retrieve", "explain"}
                                    /\ pc'[q] \notin {"reread", "hand_out"})
      BY <1>2, <1>5, <2>1
    <2>2. CASE UNCHANGED contentVars
               /\ (pc'[q] \in AsksFor => pc[q] \in AsksFor
                                         \/ (pc[q] = "auth" /\ kind[q] \in {"retrieve", "explain"}))
               /\ (pc'[q] = "auth" => pc[q] = "auth" \/ kind[q] \notin {"retrieve", "explain"})
               /\ (pc'[q] \in {"reread", "hand_out"} => pc'[q] = pc[q])
      BY <1>3, <1>4, <2>2 DEF ContentInv
    <2>3. CASE Accept(q) /\ kind[q] \notin {"retrieve", "explain"} /\ UNCHANGED contentVars
               /\ pc'[q] \notin AsksFor
      BY <1>3, <2>3 DEF AsksFor
    <2>4. QED
      BY <2>1, <2>2, <2>3, ContentMoves

\* What is kept is in order, and what is handed out is new enough.
THEOREM ContentsAlways == Spec => []ContentInv
  <1>1. Init => ContentInv
    <2> SUFFICES ASSUME Init PROVE ContentInv
      OBVIOUS
    <2>1. contents \in Seq(Content) /\ DOMAIN contents = {}
      BY EmptySeq DEF Init, ContentInit
    <2>2. \A s : Kept(s) = {}
      BY <2>1 DEF Kept
    <2>3. \A q \in Requests : pc[q] = "idle" /\ served[q] = NoContent /\ floor[q] = 0
      BY DEF Init, ContentInit, PoolInit
    <2>4. settled = [s \in Sources |-> 0]
      BY DEF Init, ContentInit
    <2>5. QED
      BY <2>1, <2>2, <2>3, <2>4 DEF Init, PoolInit, ContentInit, ContentInv, NeverOlder, AsksFor
  <1>2. PathInv /\ ContentInv /\ [Next]_allVars => ContentInv'
    <2> SUFFICES ASSUME PathInv, ContentInv, [Next]_allVars PROVE ContentInv'
      OBVIOUS
    <2>1. CASE UNCHANGED allVars
      <3>1. UNCHANGED <<kind, pc, source, contents, served, settled, floor>>
        BY <2>1 DEF allVars, poolVars, contentVars
      <3>2. /\ \A s : Kept(s)' = Kept(s)
            /\ \A q \in Requests : Kept(source[q])' = Kept(source[q])
        BY <3>1 DEF Kept
      <3>3. NeverOlder'
        BY <3>1 DEF ContentInv, NeverOlder
      <3>4. QED
        BY <3>1, <3>2, <3>3 DEF ContentInv
    <2>2. QED
      BY <2>1, ContentsStep DEF Next
  <1>3. QED
    BY <1>1, <1>2, PathAlways, PTL DEF Spec

\* What a retrieval hands out is at least as new as what was served before it came.
THEOREM ServedIsNeverOlder == Spec => []NeverOlder
  <1>1. ContentInv => NeverOlder
    BY DEF ContentInv
  <1>2. QED
    BY <1>1, ContentsAlways, PTL

-----------------------------------------------------------------------------
\* What is paged.

\* How many entries come before an entry in a search.
Newer(d, i) == Cardinality({j \in Filtered(d) : j > i})

\* Every entry that a client is still to see is on a page that is still to come.
PagesInv ==
  /\ filter \in [Requests -> {Everything, "block"}]
  /\ page \in [Requests -> Nat \ {0}]
  /\ there \in [Requests -> SUBSET Nat]
  /\ seen \in [Requests -> SUBSET Nat]
  /\ \A q \in Requests :
       /\ page[q] = 1 => there[q] = {}
       /\ pc[q] = "idle" => page[q] = 1
       /\ \A i \in there[q] \ seen[q] :
            i \in Filtered(filter[q]) /\ Newer(filter[q], i) >= Skipped(page[q])
  /\ PagesMissNothing

\* Of the entries that pass a filter each has its own number of newer ones.
LEMMA RanksDiffer ==
  ASSUME RecordsInv, NEW d
  PROVE  /\ IsFiniteSet(Filtered(d)) /\ Filtered(d) \subseteq Nat
         /\ \A i \in Filtered(d) : Newer(d, i) \in 0 .. Cardinality(Filtered(d)) - 1
         /\ \A i \in Filtered(d), j \in Filtered(d) : Newer(d, i) = Newer(d, j) => i = j
  <1>1. DOMAIN audits = 1 .. Len(audits) /\ Len(audits) \in Nat
    BY LenProperties DEF RecordsInv
  <1>2. Filtered(d) \in SUBSET DOMAIN audits
    BY DEF Filtered
  <1>3. IsFiniteSet(Filtered(d)) /\ Filtered(d) \subseteq Nat
    BY <1>1, <1>2, RowsFinite DEF RecordsInv
  <1>4. ASSUME NEW i \in Filtered(d)
        PROVE  Newer(d, i) \in 0 .. Cardinality(Filtered(d)) - 1
    <2> DEFINE newer == {j \in Filtered(d) : j > i}
    <2>1. newer \in SUBSET Filtered(d) /\ i \in Filtered(d) \ newer
      BY <1>3
    <2>2. /\ Cardinality(newer) \in Nat /\ Cardinality(Filtered(d)) \in Nat
          /\ Cardinality(newer) <= Cardinality(Filtered(d))
          /\ Cardinality(newer) # Cardinality(Filtered(d))
      BY <1>3, <2>1, FS_Subset, FS_CardinalityType
    <2>3. QED
      BY <2>2 DEF Newer
  <1>5. ASSUME NEW i \in Filtered(d), NEW j \in Filtered(d), i < j
        PROVE  Newer(d, i) # Newer(d, j)
    <2> DEFINE above(k) == {x \in Filtered(d) : x > k}
    <2>1. above(j) \in SUBSET above(i) /\ j \in above(i) \ above(j)
      BY <1>3, <1>5
    <2>2. IsFiniteSet(above(i))
      BY <1>3, FS_Subset
    <2>3. Cardinality(above(i)) # Cardinality(above(j))
      BY <2>1, <2>2, FS_Subset
    <2>4. QED
      BY <2>3 DEF Newer
  <1>6. ASSUME NEW i \in Filtered(d), NEW j \in Filtered(d), Newer(d, i) = Newer(d, j)
        PROVE  i = j
    BY <1>3, <1>5, <1>6
  <1>7. QED
    BY <1>3, <1>4, <1>6

\* So that every lower number is that of an entry.
LEMMA RanksAreTaken ==
  ASSUME RecordsInv, NEW d, NEW n \in 0 .. Cardinality(Filtered(d)) - 1
  PROVE  \E i \in Filtered(d) : Newer(d, i) = n
  <1> DEFINE S == Filtered(d)
             T == 0 .. Cardinality(S) - 1
             rank == [i \in S |-> Newer(d, i)]
  <1>1. IsFiniteSet(S) /\ Cardinality(S) \in Nat
    BY RanksDiffer, FS_CardinalityType
  <1>2. rank \in Injection(S, T)
    BY RanksDiffer, Fun_IsInj
  <1>3. IsFiniteSet(T) /\ Cardinality(T) = Cardinality(S)
    BY <1>1, FS_Interval
  <1>4. rank \in Surjection(S, T)
    BY <1>2, <1>3, FS_Injection
  <1>5. \A t \in T : \E i \in S : rank[i] = t
    <2> HIDE DEF S, T, rank
    <2>1. QED
      BY <1>4, Fun_SurjectionProperties
  <1>6. QED
    BY <1>5

\* A page after which there are more entries is full.
LEMMA PageIsFull ==
  ASSUME RecordsInv, NEW d, NEW p \in Nat \ {0}, NEW i \in Filtered(d),
         Newer(d, i) >= Skipped(p) + PageSize
  PROVE  Cardinality(search(d, p)) = PageSize
  <1> DEFINE m == Skipped(p)
             T == m .. m + PageSize - 1
             rank == [j \in search(d, p) |-> Newer(d, j)]
  <1>1. m \in Nat /\ PageSize \in Nat /\ PageSize > 0
    <2>1. p - 1 \in Nat /\ PageSize \in Nat
      OBVIOUS
    <2>2. (p - 1) * PageSize \in Nat
      BY <2>1
    <2>3. QED
      BY <2>2 DEF Skipped
  <1>2. search(d, p) = {j \in Filtered(d) : Newer(d, j) \in T}
    <2>1. search(d, p) = {j \in Filtered(d) : m <= Newer(d, j) /\ Newer(d, j) < m + PageSize}
      BY DEF search, Newer
    <2>2. \A j \in Filtered(d) : Newer(d, j) \in Nat
      BY RanksDiffer
    <2> HIDE DEF m
    <2>3. QED
      BY <1>1, <2>1, <2>2
  <1> HIDE DEF m
  <1>3. rank \in [search(d, p) -> T]
    BY <1>2
  <1>4. rank \in Injection(search(d, p), T)
    BY <1>2, <1>3, RanksDiffer, Fun_IsInj
  <1>5. rank \in Surjection(search(d, p), T)
    <2>1. ASSUME NEW n \in T PROVE \E j \in search(d, p) : rank[j] = n
      <3>1. Newer(d, i) \in 0 .. Cardinality(Filtered(d)) - 1 /\ Cardinality(Filtered(d)) \in Nat
        BY RanksDiffer, FS_CardinalityType
      <3>2. n \in 0 .. Cardinality(Filtered(d)) - 1
        BY <1>1, <3>1 DEF m
      <3>3. PICK j \in Filtered(d) : Newer(d, j) = n
        BY <3>2, RanksAreTaken
      <3>4. QED
        BY <1>2, <3>3
    <2>2. QED
      BY <1>3, <2>1, Fun_IsSurj
  <1>6. IsFiniteSet(T) /\ Cardinality(T) = PageSize
    BY <1>1, FS_Interval
  <1>7. QED
    BY <1>4, <1>5, <1>6, FS_Injection

\* Entries that come in later only move an entry to a later page.
LEMMA EntriesMoveOn ==
  ASSUME RecordsInv, RecordsInv', Grown, NEW d, NEW i \in Filtered(d)
  PROVE  i \in Filtered(d)' /\ Newer(d, i) <= Newer(d, i)' /\ Newer(d, i)' \in Nat
         /\ Newer(d, i) \in Nat
  <1> DEFINE newer == {j \in Filtered(d) : j > i}
  <1>1. Filtered(d) \subseteq Filtered(d)'
    BY DEF Filtered, Grown
  <1>2. newer \in SUBSET newer' /\ newer' \in SUBSET DOMAIN audits' /\ newer \in SUBSET DOMAIN audits
    BY <1>1 DEF Filtered
  <1>3. Cardinality(newer) <= Cardinality(newer') /\ Cardinality(newer') \in Nat
        /\ Cardinality(newer) \in Nat
    BY <1>2, MoreRows, RowsFinite DEF RecordsInv
  <1>4. QED
    BY <1>1, <1>3 DEF Newer

\* A search takes the entries it has found from those that are still to come.
LEMMA SearchKeepsPages ==
  ASSUME PathInv, RecordsInv, PagesInv, NEW q \in Requests, Search(q)
  PROVE  /\ page' \in [Requests -> Nat \ {0}]
         /\ there' \in [Requests -> SUBSET Nat] /\ seen' \in [Requests -> SUBSET Nat]
         /\ filter' = filter /\ page'[q] # 1
         /\ \A i \in there'[q] \ seen'[q] :
              i \in Filtered(filter[q]) /\ Newer(filter[q], i) >= Skipped(page'[q])
         /\ pc'[q] = "read" => there'[q] \subseteq seen'[q]
         /\ \A p \in Requests \ {q} :
              page'[p] = page[p] /\ there'[p] = there[p] /\ seen'[p] = seen[p]
  <1> DEFINE d == filter[q]
             found == search(d, page[q])
             began == IF page[q] = 1 THEN Filtered(d) ELSE there[q]
  <1>1. /\ there' = [there EXCEPT ![q] = began]
        /\ seen' = [seen EXCEPT ![q] = seen[q] \union found]
        /\ page' = [page EXCEPT ![q] = page[q] + 1]
        /\ filter' = filter
    BY DEF Search
  <1>2. /\ page \in [Requests -> Nat \ {0}] /\ there \in [Requests -> SUBSET Nat]
        /\ seen \in [Requests -> SUBSET Nat]
    BY DEF PagesInv
  <1>3. Filtered(d) \in SUBSET Nat /\ found \subseteq Filtered(d)
    BY RanksDiffer DEF search
  <1>4. began \in SUBSET Nat /\ found \in SUBSET Nat
    BY <1>2, <1>3
  <1>5. there'[q] = began /\ seen'[q] = seen[q] \union found /\ page'[q] = page[q] + 1
    BY <1>1, <1>2
  <1>6. \A i \in began \ seen[q] : i \in Filtered(d) /\ Newer(d, i) >= Skipped(page[q])
    <2>1. CASE page[q] = 1
      <3>1. Skipped(page[q]) = 0
        <4>1. (1 - 1) * PageSize = 0
          OBVIOUS
        <4>2. QED
          BY <2>1, <4>1 DEF Skipped
      <3>2. \A i \in Filtered(d) : Newer(d, i) \in Nat
        BY RanksDiffer
      <3>3. QED
        BY <2>1, <3>1, <3>2
    <2>2. CASE page[q] # 1
      BY <2>2 DEF PagesInv
    <2>3. QED
      BY <2>1, <2>2
  <1>7. /\ Skipped(page[q] + 1) = Skipped(page[q]) + PageSize
        /\ Skipped(page[q]) \in Nat /\ PageSize \in Nat
    <2>1. page[q] \in Nat /\ page[q] - 1 \in Nat /\ PageSize \in Nat
      BY <1>2
    <2>2. (page[q] - 1) * PageSize \in Nat
      BY <2>1
    <2>3. (page[q] + 1 - 1) * PageSize = (page[q] - 1) * PageSize + PageSize
      BY <2>1
    <2>4. QED
      BY <2>1, <2>2, <2>3 DEF Skipped
  <1>8. \A i \in began \ (seen[q] \union found) :
          i \in Filtered(d) /\ Newer(d, i) >= Skipped(page[q]) + PageSize
    <2> SUFFICES ASSUME NEW i \in began \ seen[q], i \notin found
                 PROVE  i \in Filtered(d) /\ Newer(d, i) >= Skipped(page[q]) + PageSize
      OBVIOUS
    <2>1. i \in Filtered(d) /\ Newer(d, i) >= Skipped(page[q])
      BY <1>6
    <2>2. ~(Skipped(page[q]) <= Newer(d, i) /\ Newer(d, i) < Skipped(page[q]) + PageSize)
      BY <2>1 DEF search, Newer
    <2>3. Newer(d, i) \in Nat
      BY <2>1, RanksDiffer
    <2>4. QED
      BY <1>7, <2>1, <2>2, <2>3
  <1>9. pc'[q] = "read" => began \subseteq seen[q] \union found
    <2> SUFFICES ASSUME pc'[q] = "read", NEW i \in began \ (seen[q] \union found)
                 PROVE  FALSE
      OBVIOUS
    <2>1. Cardinality(found) = PageSize
      BY <1>2, <1>8, PageIsFull
    <2>2. pc'[q] = "auth"
      BY <2>1 DEF Search, Committed, Goto, PathInv
    <2>3. QED
      BY <2>2
  <1> HIDE DEF d, found, began
  <1>10. /\ page' \in [Requests -> Nat \ {0}] /\ there' \in [Requests -> SUBSET Nat]
         /\ seen' \in [Requests -> SUBSET Nat] /\ page'[q] # 1
    <2>1. page[q] \in Nat /\ page[q] # 0 /\ page[q] + 1 \in Nat \ {0} /\ page[q] + 1 # 1
      BY <1>2
    <2>2. there[q] \in SUBSET Nat /\ seen[q] \union found \in SUBSET Nat
      BY <1>2, <1>4
    <2>3. QED
      BY <1>1, <1>2, <1>4, <1>5, <2>1, <2>2
  <1>11. QED
    BY <1>1, <1>2, <1>5, <1>7, <1>8, <1>9, <1>10 DEF d

\* Where a client that pages goes.
LEMMA PagesMove ==
  ASSUME PathInv, PagesInv, NEW q \in Requests, Step(q)
  PROVE  \/ Search(q)
         \/ ReadAll(q) /\ pc'[q] = "done"
         \/ /\ UNCHANGED <<page, there, seen>> /\ pc[q] = "idle" /\ pc'[q] # "read"
            /\ filter' \in [Requests -> {Everything, "block"}]
            /\ \A p \in Requests \ {q} : filter'[p] = filter[p]
         \/ UNCHANGED pageVars /\ pc'[q] # "read"
  <1> USE DEF PathInv, Goto, Proceed, Committed, Over, pageVars
  <1>1. CASE Accept(q)
    <2>1. kind[q] \in Endpoints /\ \A k \in Anonymous : FirstStep(k) # "read"
      BY DEF Anonymous, FirstStep, Monitoring, Analytics
    <2>2. pc'[q] # "read"
      BY <1>1, <2>1 DEF Accept
    <2>3. \/ filter' = filter
          \/ \E d \in {Everything, "block"} : filter' = [filter EXCEPT ![q] = d]
      BY <1>1 DEF Accept
    <2>4. QED
      BY <1>1, <2>2, <2>3 DEF Accept, PagesInv
  <1>2. CASE Authenticate(q)
    <2>1. pc[q] = "auth" /\ "auth" \notin Path("chat")
      BY <1>2 DEF Authenticate, Path, Recording, Ended, Monitoring, Analytics
    <2>2. \A k \in Endpoints \ {"chat"} : FirstStep(k) # "read"
      BY DEF FirstStep, Endpoints, Monitoring, Analytics
    <2>3. QED
      BY <1>2, <2>1, <2>2 DEF Authenticate
  <1>3. CASE Wait(q)
    BY <1>3 DEF Wait, Connect, TimesOut, Raised, Waits, OwnLabels, AuthLabels
  <1>4. CASE RecordStep(q) /\ UNCHANGED <<reportVars, pageVars, contentVars>>
    BY <1>4 DEF RecordStep, AskAgent, Audit, SubmitTicket, RecordHistory, RecordMetric, Recorded
  <1>5. CASE ReportStep(q) /\ UNCHANGED <<recordVars, pageVars, contentVars>>
    BY <1>5 DEF ReportStep, Count, FindReport, Upsert, Serialize, Answer
  <1>6. CASE PageStep(q)
    BY <1>6 DEF PageStep, ReadAll
  <1>7. CASE ContentStep(q) /\ UNCHANGED <<recordVars, reportVars, pageVars>>
    BY <1>7 DEF ContentStep, Find, Lookup, Generate, Persist, Reread, HandOut
  <1>8. QED
    BY <1>1, <1>2, <1>3, <1>4, <1>5, <1>6, <1>7 DEF Step

\* What a client that pages keeps of the entries, whoever takes the step.
LEMMA PagesStep ==
  ASSUME PathInv, RecordsInv, PagesInv, NEW q \in Requests, Step(q)
  PROVE  PagesInv'
  <1>1. /\ pc'[q] # "idle" /\ \A p \in Requests \ {q} : pc'[p] = pc[p]
        /\ RecordsInv' /\ Grown
    BY NeverIdleAgain, OthersWait, RecordsStep, TablesGrow
  <1> DEFINE Pages(p) ==
        /\ page[p] = 1 => there[p] = {}
        /\ pc[p] = "idle" => page[p] = 1
        /\ \A i \in there[p] \ seen[p] :
             i \in Filtered(filter[p]) /\ Newer(filter[p], i) >= Skipped(page[p])
        /\ pc[p] = "read" => there[p] \subseteq seen[p]
  <1>2. \A p \in Requests : Pages(p)
    BY DEF PagesInv, PagesMissNothing
  <1>3. ASSUME NEW p \in Requests,
               UNCHANGED <<page[p], there[p], seen[p], filter[p]>>,
               pc'[p] = pc[p] \/ pc'[p] \notin {"idle", "read"}
        PROVE  Pages(p)'
    <2>1. Skipped(page[p]) \in Nat
      <3>1. page[p] - 1 \in Nat /\ PageSize \in Nat
        BY DEF PagesInv
      <3>2. (page[p] - 1) * PageSize \in Nat
        BY <3>1
      <3>3. QED
        BY <3>2 DEF Skipped
    <2>2. ASSUME NEW i \in there[p] \ seen[p]
          PROVE  i \in Filtered(filter[p])' /\ Newer(filter[p], i)' >= Skipped(page[p])
      <3> PICK d : d = filter[p]
        OBVIOUS
      <3>1. i \in Filtered(d) /\ Newer(d, i) >= Skipped(page[p])
        BY <1>2
      <3>2. \A e : i \in Filtered(e) =>
              /\ i \in Filtered(e)' /\ Newer(e, i) <= Newer(e, i)'
              /\ Newer(e, i)' \in Nat /\ Newer(e, i) \in Nat
        BY <1>1, EntriesMoveOn
      <3>3. Filtered(filter[p])' = Filtered(d)' /\ Newer(filter[p], i)' = Newer(d, i)'
        BY <1>3 DEF Filtered, Newer
      <3>4. QED
        BY <2>1, <3>1, <3>2, <3>3
    <2>3. Skipped(page[p])' = Skipped(page[p])
      BY <1>3 DEF Skipped
    <2>4. QED
      BY <1>2, <1>3, <2>2, <2>3
  <1>4. ASSUME /\ filter' \in [Requests -> {Everything, "block"}]
               /\ page' \in [Requests -> Nat \ {0}]
               /\ there' \in [Requests -> SUBSET Nat] /\ seen' \in [Requests -> SUBSET Nat],
               \A p \in Requests : Pages(p)'
        PROVE  PagesInv'
    BY <1>4 DEF PagesInv, PagesMissNothing
  <1>5. CASE Search(q)
    <2>1. UNCHANGED recordVars
      BY <1>5, RecordsMove DEF Search, RecordStep, AskAgent, Audit, SubmitTicket, RecordHistory,
        RecordMetric, Recorded
    <2>2. \A i \in there'[q] \ seen'[q] :
            i \in Filtered(filter[q])' /\ Newer(filter[q], i)' >= Skipped(page[q])'
      <3>1. filter' = filter /\ audits' = audits
        BY <1>5, <2>1, SearchKeepsPages DEF recordVars
      <3>2. /\ Filtered(filter[q])' = Filtered(filter[q])
            /\ \A i : Newer(filter[q], i)' = Newer(filter[q], i)
            /\ Skipped(page[q])' = Skipped(page'[q])
        BY <3>1 DEF Filtered, Newer, Skipped
      <3>3. QED
        BY <1>5, <3>2, SearchKeepsPages
    <2>3. Pages(q)'
      BY <1>1, <1>5, <2>2, SearchKeepsPages
    <2>4. \A p \in Requests \ {q} : Pages(p)'
      BY <1>1, <1>3, <1>5, SearchKeepsPages
    <2> HIDE DEF Pages
    <2>5. QED
      BY <1>5, <1>4, <2>3, <2>4, SearchKeepsPages DEF PagesInv
  <1>6. CASE ReadAll(q) /\ pc'[q] = "done"
    <2>1. /\ page' = [page EXCEPT ![q] = 1] /\ there' = [there EXCEPT ![q] = {}]
          /\ seen' = [seen EXCEPT ![q] = {}] /\ filter' = [filter EXCEPT ![q] = Everything]
      BY <1>6 DEF ReadAll, ForgetPages
    <2>2. /\ filter' \in [Requests -> {Everything, "block"}] /\ page' \in [Requests -> Nat \ {0}]
          /\ there' \in [Requests -> SUBSET Nat] /\ seen' \in [Requests -> SUBSET Nat]
          /\ page'[q] = 1 /\ there'[q] = {}
      BY <2>1 DEF PagesInv
    <2>3. Pages(q)'
      BY <1>6, <2>2
    <2>4. \A p \in Requests \ {q} : Pages(p)'
      BY <1>1, <1>3, <2>1 DEF PagesInv
    <2> HIDE DEF Pages
    <2>5. QED
      BY <1>4, <2>2, <2>3, <2>4
  <1>7. CASE /\ UNCHANGED <<page, there, seen>> /\ pc[q] = "idle" /\ pc'[q] # "read"
             /\ filter' \in [Requests -> {Everything, "block"}]
             /\ \A p \in Requests \ {q} : filter'[p] = filter[p]
    <2>1. Pages(q)'
      BY <1>1, <1>7 DEF PagesInv
    <2>2. \A p \in Requests \ {q} : Pages(p)'
      BY <1>1, <1>3, <1>7
    <2> HIDE DEF Pages
    <2>3. QED
      BY <1>4, <1>7, <2>1, <2>2 DEF PagesInv
  <1>8. CASE UNCHANGED pageVars /\ pc'[q] # "read"
    <2>1. UNCHANGED <<filter, page, there, seen>>
      BY <1>8 DEF pageVars
    <2>2. \A p \in Requests : Pages(p)'
      BY <1>1, <1>3, <1>8, <2>1
    <2> HIDE DEF Pages
    <2>3. QED
      BY <1>4, <2>1, <2>2 DEF PagesInv
  <1>9. QED
    BY <1>5, <1>6, <1>7, <1>8, PagesMove

\* Clients that page are still to see what they have not seen.
THEOREM PagesAlways == Spec => []PagesInv
  <1>1. Init => PagesInv
    <2> SUFFICES ASSUME Init PROVE PagesInv
      OBVIOUS
    <2>1. /\ filter = [q \in Requests |-> Everything] /\ page = [q \in Requests |-> 1]
          /\ there = [q \in Requests |-> {}] /\ seen = [q \in Requests |-> {}]
      BY DEF Init, PagesInit
    <2>2. QED
      BY <2>1 DEF PagesInv, PagesMissNothing
  <1>2. PathInv /\ RecordsInv /\ PagesInv /\ [Next]_allVars => PagesInv'
    <2> SUFFICES ASSUME PathInv, RecordsInv, PagesInv, [Next]_allVars PROVE PagesInv'
      OBVIOUS
    <2>1. CASE UNCHANGED allVars
      <3>1. UNCHANGED <<pc, audits, filter, page, there, seen>>
        BY <2>1 DEF allVars, poolVars, recordVars, pageVars
      <3>2. \A q \in Requests :
              /\ Filtered(filter[q])' = Filtered(filter[q])
              /\ \A i : Newer(filter[q], i)' = Newer(filter[q], i)
              /\ Skipped(page[q])' = Skipped(page[q])
        BY <3>1 DEF Filtered, Newer, Skipped
      <3>3. PagesMissNothing'
        BY <3>1 DEF PagesInv, PagesMissNothing
      <3>4. QED
        BY <3>1, <3>2, <3>3 DEF PagesInv
    <2>2. QED
      BY <2>1, PagesStep DEF Next
  <1>3. QED
    BY <1>1, <1>2, PathAlways, RecordsAlways, PTL DEF Spec

\* A client that has read the last page has seen every entry there was when it began.
THEOREM NoEntryIsMissed == Spec => []PagesMissNothing
  <1>1. PagesInv => PagesMissNothing
    BY DEF PagesInv
  <1>2. QED
    BY <1>1, PagesAlways, PTL

-----------------------------------------------------------------------------
\* What the counts of one answer have to do with each other.

\* A part of a summary: counted, or what it would be counted as now.
Part(q, i) == IF i <= Len(counts[q]) THEN counts[q][i] ELSE Counted(summary[i], since[q])

\* The metrics of a decision that no part of a summary is about.
Unheard(q) == Counted(Rows("unheard_of"), since[q])

Parts(q) == Part(q, 2) + Part(q, 3) + Part(q, 4) + Part(q, 5) + Unheard(q)

\* Nothing was counted as more than there is, what is counted again is no less, and a
\* summary that has a total is going to have parts that add up to it, or to more.
Bracketed(q) ==
  LET queries == Queries(kind[q]) IN
  /\ \A i \in DOMAIN counts[q] : counts[q][i] <= Result(queries[i], since[q])
  /\ \A i \in DOMAIN counts[q], j \in DOMAIN counts[q] :
       i < j /\ queries[i] = queries[j] => counts[q][i] <= counts[q][j]
  /\ kind[q] = "metrics" =>
       /\ pc[q] = "summary" => Len(counts[q]) < 7
       /\ pc[q] = "answer" => Len(counts[q]) \in {1, 7}
       /\ counts[q] # <<>> => counts[q][1] <= Parts(q)

BracketInv == \A q \in Requests : Bracketed(q)

\* The queries of a summary.
LEMMA SummaryQueries ==
  /\ Queries("metrics") = summary /\ Len(summary) = 7
  /\ summary[1] = Rows("all") /\ summary[2] = Rows("block") /\ summary[3] = Rows("allow")
  /\ summary[4] = Rows("log_and_allow") /\ summary[5] = Rows("require_hitl")
  /\ \A i \in 1 .. 7 : summary[i].where # "loose"
  /\ \A i \in 1 .. 7, j \in 1 .. 7 : summary[i] = summary[j] => i = j
  <1>1. Queries("metrics") = summary
    BY DEF Queries
  <1>2. /\ Len(summary) = 7
        /\ summary[1] = Rows("all") /\ summary[2] = Rows("block") /\ summary[3] = Rows("allow")
        /\ summary[4] = Rows("log_and_allow") /\ summary[5] = Rows("require_hitl")
        /\ summary[6] = Rows("executed") /\ summary[7] = Rows("failed")
    BY DEF summary
  <1>3. \A i \in 1 .. 7 : i = 1 \/ i = 2 \/ i = 3 \/ i = 4 \/ i = 5 \/ i = 6 \/ i = 7
    OBVIOUS
  <1>4. /\ Rows("all").where = "all" /\ Rows("block").where = "block"
        /\ Rows("allow").where = "allow" /\ Rows("log_and_allow").where = "log_and_allow"
        /\ Rows("require_hitl").where = "require_hitl" /\ Rows("executed").where = "executed"
        /\ Rows("failed").where = "failed"
    BY DEF Rows
  <1>5. \A i \in 1 .. 7 : summary[i].where # "loose"
    BY <1>2, <1>3, <1>4
  <1>6. \A i \in 1 .. 7, j \in 1 .. 7 : summary[i] = summary[j] => i = j
    BY <1>2, <1>3, <1>4
  <1>7. QED
    BY <1>1, <1>2, <1>5, <1>6

\* Every metric is of one of the four decisions, or one that nobody has heard of.
LEMMA DecisionsAddUp ==
  ASSUME RecordsInv, NEW start
  PROVE  /\ \A where : Counted(Rows(where), start) \in Nat
         /\ Counted(Rows("all"), start) <=
              Counted(Rows("block"), start) + Counted(Rows("allow"), start)
                + Counted(Rows("log_and_allow"), start) + Counted(Rows("require_hitl"), start)
                + Counted(Rows("unheard_of"), start)
  <1> DEFINE Of(where) == {i \in DOMAIN metrics :
                             /\ start = NoStart \/ metrics[i].timestamp >= start
                             /\ Holds(metrics[i], where)}
  <1>1. \A where : Of(where) \in SUBSET DOMAIN metrics
    OBVIOUS
  <1>2. \A rows \in SUBSET DOMAIN metrics : IsFiniteSet(rows) /\ Cardinality(rows) \in Nat
    BY RowsFinite DEF RecordsInv
  <1>3. \A where : Counted(Rows(where), start) = Cardinality(Of(where))
    BY DEF Counted, Rows
  <1>4. Of("all") = (((Of("block") \union Of("allow")) \union Of("log_and_allow"))
                       \union Of("require_hitl")) \union Of("unheard_of")
    <2>1. \A i \in DOMAIN metrics : metrics[i] \in MetricRow
      BY ElementOfSeq, LenProperties DEF RecordsInv
    <2>2. \A i \in DOMAIN metrics : metrics[i].decision \in Decisions
      BY <2>1 DEF MetricRow
    <2>3. \A i \in DOMAIN metrics :
            /\ Holds(metrics[i], "all")
            /\ \A where \in Decisions : Holds(metrics[i], where) <=> metrics[i].decision = where
      BY DEF Holds, Decisions
    <2>4. QED
      BY <2>2, <2>3 DEF Decisions
  <1> HIDE DEF Of
  <1>5. ASSUME NEW S \in SUBSET DOMAIN metrics, NEW T \in SUBSET DOMAIN metrics
        PROVE  /\ S \union T \in SUBSET DOMAIN metrics
               /\ Cardinality(S \union T) <= Cardinality(S) + Cardinality(T)
    <2>1. IsFiniteSet(S) /\ IsFiniteSet(T) /\ Cardinality(S) \in Nat /\ Cardinality(T) \in Nat
          /\ S \intersect T \in SUBSET DOMAIN metrics
      BY <1>2
    <2>2. Cardinality(S \intersect T) \in Nat
      BY <1>2, <2>1
    <2>3. Cardinality(S \union T) = Cardinality(S) + Cardinality(T) - Cardinality(S \intersect T)
      BY <2>1, FS_Union
    <2>4. QED
      BY <2>1, <2>2, <2>3
  <1>6. QED
    <2> DEFINE two == Of("block") \union Of("allow")
               three == two \union Of("log_and_allow")
               four == three \union Of("require_hitl")
    <2>1. two \in SUBSET DOMAIN metrics
          /\ Cardinality(two) <= Cardinality(Of("block")) + Cardinality(Of("allow"))
      BY <1>1, <1>5
    <2>2. three \in SUBSET DOMAIN metrics
          /\ Cardinality(three) <= Cardinality(two) + Cardinality(Of("log_and_allow"))
      BY <1>1, <1>5, <2>1
    <2>3. four \in SUBSET DOMAIN metrics
          /\ Cardinality(four) <= Cardinality(three) + Cardinality(Of("require_hitl"))
      BY <1>1, <1>5, <2>2
    <2>4. Cardinality(Of("all")) <= Cardinality(four) + Cardinality(Of("unheard_of"))
      BY <1>1, <1>4, <1>5, <2>3
    <2>5. /\ \A where : Cardinality(Of(where)) \in Nat
          /\ Cardinality(two) \in Nat /\ Cardinality(three) \in Nat
          /\ Cardinality(four) \in Nat /\ Cardinality(Of("all")) \in Nat
      BY <1>1, <1>2, <2>1, <2>2, <2>3
    <2> HIDE DEF two, three, four
    <2>6. QED
      BY <1>3, <2>1, <2>2, <2>3, <2>4, <2>5

\* What has been counted stays bracketed while the tables grow.
LEMMA BracketsStay ==
  ASSUME PathInv, RecordsInv, RecordsInv', ReportInv, Grown, NEW p \in Requests, Bracketed(p),
         UNCHANGED <<kind[p], since[p], counts[p]>>,
         kind[p] = "metrics" =>
           /\ pc'[p] = "summary" => pc[p] = "summary" \/ counts[p] = <<>>
           /\ pc'[p] = "answer" => pc[p] = "answer"
  PROVE  Bracketed(p)'
  <1> PICK k, start, done : k = kind[p] /\ start = since[p] /\ done = counts[p]
    OBVIOUS
  <1>1. kind'[p] = k /\ since'[p] = start /\ counts'[p] = done
    OBVIOUS
  <1>2. done \in Seq(Nat)
    BY DEF ReportInv
  <1>3. \A query : /\ Counted(query, start) \in Nat /\ Result(query, start) \in Nat
                   /\ Counted(query, start)' \in Nat /\ Result(query, start)' \in Nat
                   /\ Counted(query, start) <= Counted(query, start)'
                   /\ Result(query, start) <= Result(query, start)'
    <2>1. ASSUME NEW query
          PROVE  Counted(query, start)' \in Nat /\ Result(query, start)' \in Nat
      <3>1. CASE query.table = "hitl_requests"
        BY <3>1, RowsFinite DEF RecordsInv, Result, Counted
      <3>2. CASE query.table # "hitl_requests"
        BY <3>2, RowsFinite DEF RecordsInv, Result, Counted
      <3>3. QED
        BY <3>1, <3>2
    <2>2. QED
      BY <2>1, CountedGrows
  <1>4. \A i \in DOMAIN done : done[i] \in Nat
    BY <1>2, ElementOfSeq, LenProperties
  <1>5. \A i \in DOMAIN done : done[i] <= Result(Queries(k)[i], start)'
    <2>1. \A i \in DOMAIN done : done[i] <= Result(Queries(k)[i], start)
      BY DEF Bracketed
    <2>2. ASSUME NEW i \in DOMAIN done
          PROVE  done[i] <= Result(Queries(k)[i], start)'
      <3>1. \A query : query = Queries(k)[i] => done[i] <= Result(query, start)
        BY <2>1
      <3>2. QED
        BY <1>3, <1>4, <3>1
    <2>3. QED
      BY <2>2
  <1>6. k = "metrics" /\ done # <<>> => done[1] <= Parts(p)'
    <2> SUFFICES ASSUME k = "metrics", done # <<>> PROVE done[1] <= Parts(p)'
      OBVIOUS
    <2>1. Len(done) \in Nat /\ DOMAIN done = 1 .. Len(done) /\ Len(done) # 0
      BY <1>2, EmptySeq, LenProperties
    <2>2. done[1] \in Nat /\ done[1] <= Parts(p)
      BY <1>4, <2>1 DEF Bracketed
    <2>3. ASSUME NEW i \in 2 .. 5
          PROVE  Part(p, i) <= Part(p, i)' /\ Part(p, i) \in Nat /\ Part(p, i)' \in Nat
      <3>1. CASE i <= Len(done)
        BY <1>1, <1>4, <2>1, <3>1 DEF Part
      <3>2. CASE ~(i <= Len(done))
        <4>1. \A query : query = summary[i] => Part(p, i) = Counted(query, start)
          BY <3>2 DEF Part
        <4>2. \A query : query = summary[i] => Part(p, i)' = Counted(query, start)'
          BY <1>1, <3>2 DEF Part
        <4>3. QED
          BY <1>3, <4>1, <4>2
      <3>3. QED
        BY <3>1, <3>2
    <2>4. /\ Part(p, 2) <= Part(p, 2)' /\ Part(p, 2) \in Nat /\ Part(p, 2)' \in Nat
          /\ Part(p, 3) <= Part(p, 3)' /\ Part(p, 3) \in Nat /\ Part(p, 3)' \in Nat
          /\ Part(p, 4) <= Part(p, 4)' /\ Part(p, 4) \in Nat /\ Part(p, 4)' \in Nat
          /\ Part(p, 5) <= Part(p, 5)' /\ Part(p, 5) \in Nat /\ Part(p, 5)' \in Nat
      BY <2>3
    <2>5. Unheard(p) <= Unheard(p)' /\ Unheard(p) \in Nat /\ Unheard(p)' \in Nat
      <3>1. /\ \A query : query = Rows("unheard_of") => Unheard(p) = Counted(query, start)
            /\ \A query : query = Rows("unheard_of") => Unheard(p)' = Counted(query, start)'
        BY <1>1 DEF Unheard
      <3>2. QED
        BY <1>3, <3>1
    <2>6. Parts(p)' = Part(p, 2)' + Part(p, 3)' + Part(p, 4)' + Part(p, 5)' + Unheard(p)'
      BY DEF Parts
    <2>7. Parts(p) = Part(p, 2) + Part(p, 3) + Part(p, 4) + Part(p, 5) + Unheard(p)
      BY DEF Parts
    <2>8. Parts(p) <= Parts(p)' /\ Parts(p) \in Nat /\ Parts(p)' \in Nat
      BY ONLY <2>4, <2>5, <2>6, <2>7
    <2>9. QED
      BY <2>2, <2>8
  <1>7. \A i \in DOMAIN done, j \in DOMAIN done :
          i < j /\ Queries(k)[i] = Queries(k)[j] => done[i] <= done[j]
    BY DEF Bracketed
  <1>8. k = "metrics" =>
          /\ pc'[p] = "summary" => Len(done) < 7
          /\ pc'[p] = "answer" => Len(done) \in {1, 7}
    BY EmptySeq DEF Bracketed
  <1>9. QED
    BY <1>1, <1>5, <1>6, <1>7, <1>8 DEF Bracketed

\* The next count is bracketed by those before it and what there is.
LEMMA CountKeepsBrackets ==
  ASSUME PathInv, RecordsInv, ReportInv, NEW q \in Requests, Count(q), Bracketed(q),
         UNCHANGED recordVars
  PROVE  Bracketed(q)'
  <1> PICK k, start, done : k = kind[q] /\ start = since[q] /\ done = counts[q]
    OBVIOUS
  <1> DEFINE n == Len(done) + 1
             result == Result(Queries(k)[n], start)
  <1>1. /\ kind'[q] = k /\ since'[q] = start /\ counts' = [counts EXCEPT ![q] = Append(done, result)]
        /\ pc \in [Requests -> Labels] /\ counts \in [Requests -> Seq(Nat)]
    BY DEF Count, Proceed, Committed, Over, PathInv, ReportInv
  <1>2. \A query, t : /\ Counted(query, t) \in Nat /\ Result(query, t) \in Nat
                      /\ Counted(query, t)' = Counted(query, t)
                      /\ Result(query, t)' = Result(query, t)
    <2>1. ASSUME NEW query, NEW t
          PROVE  Counted(query, t) \in Nat /\ Result(query, t) \in Nat
      <3>1. CASE query.table = "hitl_requests"
        BY <3>1, RowsFinite DEF RecordsInv, Result, Counted
      <3>2. CASE query.table # "hitl_requests"
        BY <3>2, RowsFinite DEF RecordsInv, Result, Counted
      <3>3. QED
        BY <3>1, <3>2
    <2>2. QED
      BY <2>1 DEF Result, Counted, recordVars
  <1>3. counts'[q] = Append(done, result) /\ done \in Seq(Nat) /\ result \in Nat
    BY <1>1, <1>2
  <1>4. /\ Len(done) \in Nat /\ DOMAIN done = 1 .. n - 1 /\ DOMAIN counts'[q] = 1 .. n
        /\ Len(counts'[q]) = n /\ n \in Nat /\ n > 0
        /\ \A i \in 1 .. n - 1 : counts'[q][i] = done[i] /\ done[i] \in Nat
        /\ counts'[q][n] = result
    <2>1. counts'[q] \in Seq(Nat) /\ Len(counts'[q]) = n /\ Len(done) \in Nat
      BY <1>3, AppendProperties
    <2>2. DOMAIN done = 1 .. Len(done) /\ DOMAIN counts'[q] = 1 .. n
      BY <1>3, <2>1, LenProperties
    <2>3. QED
      BY <1>3, <2>1, <2>2, AppendProperties, ElementOfSeq
  <1>5. /\ \A i \in 1 .. n - 1 : done[i] <= Result(Queries(k)[i], start)
        /\ \A i \in 1 .. n - 1, j \in 1 .. n - 1 :
             i < j /\ Queries(k)[i] = Queries(k)[j] => done[i] <= done[j]
    BY <1>4 DEF Bracketed
  <1> HIDE DEF n
  <1>6. \A i \in DOMAIN counts'[q] : counts'[q][i] <= Result(Queries(k)[i], start)'
    <2> SUFFICES ASSUME NEW i \in 1 .. n
                 PROVE  counts'[q][i] <= Result(Queries(k)[i], start)
      BY <1>2, <1>4
    <2>1. CASE i = n
      BY <1>2, <1>4, <2>1
    <2>2. CASE i # n
      BY <1>4, <1>5, <2>2
    <2>3. QED
      BY <2>1, <2>2
  <1>7. \A i \in DOMAIN counts'[q], j \in DOMAIN counts'[q] :
          i < j /\ Queries(k)[i] = Queries(k)[j] => counts'[q][i] <= counts'[q][j]
    <2> SUFFICES ASSUME NEW i \in 1 .. n, NEW j \in 1 .. n, i < j, Queries(k)[i] = Queries(k)[j]
                 PROVE  counts'[q][i] <= counts'[q][j]
      BY <1>4
    <2>1. i \in 1 .. n - 1 /\ counts'[q][i] = done[i]
      BY <1>4
    <2>2. CASE j = n
      BY <1>4, <1>5, <2>1, <2>2
    <2>3. CASE j # n
      BY <1>4, <1>5, <2>1, <2>3
    <2>4. QED
      BY <2>2, <2>3
  <1>8. k = "metrics" =>
          /\ pc'[q] = "summary" => Len(counts'[q]) < 7
          /\ pc'[q] = "answer" => Len(counts'[q]) \in {1, 7}
    <2> SUFFICES ASSUME k = "metrics"
                 PROVE  /\ pc'[q] = "summary" => Len(counts'[q]) < 7
                        /\ pc'[q] = "answer" => Len(counts'[q]) \in {1, 7}
      OBVIOUS
    <2>1. pc[q] = "summary" /\ n <= 7
      <3>1. pc[q] \in {"count", "summary"} /\ pc[q] \in Path("metrics")
        BY DEF Count, PathInv
      <3>2. pc[q] = "summary"
        BY <3>1 DEF Path, Ended, Monitoring, Analytics, Recording
      <3>3. Len(done) < 7
        BY <3>2 DEF Bracketed
      <3>4. QED
        BY <1>4, <3>2, <3>3 DEF n
    <2>2. \/ n < 7 /\ pc'[q] = "summary"
          \/ ~(n < 7 /\ Append(done, result) # <<0>>) /\ pc'[q] = "answer"
      <3>1. Queries(kind[q]) = summary /\ Len(summary) = 7 /\ kind[q] = "metrics"
        BY SummaryQueries
      <3>2. /\ n < 7 /\ Append(done, result) # <<0>> => Proceed(q, "summary")
            /\ ~(n < 7 /\ Append(done, result) # <<0>>) => Proceed(q, "answer")
        <4> DEFINE answered == Append(counts[q], Result(Queries(kind[q])[Len(counts[q]) + 1], since[q]))
                   nothing == kind[q] \in {"metrics", "dashboard"} /\ answered = <<0>>
        <4>1. answered = Append(done, result) /\ Len(answered) = n
          BY <1>3, <1>4 DEF n
        <4>2. (CASE Len(answered) < Len(Queries(kind[q])) /\ ~nothing -> Proceed(q, pc[q])
                 [] kind[q] = "report" -> Proceed(q, "find_report")
                 [] OTHER -> Proceed(q, "answer"))
          BY DEF Count
        <4> HIDE DEF answered
        <4>3. QED
          BY <2>1, <3>1, <4>1, <4>2
      <3>3. QED
        BY <1>1, <3>2 DEF Proceed, Goto
    <2>3. Append(done, result) = <<0>> => n = 1
      BY <1>3, <1>4
    <2>4. QED
      BY <1>4, <2>1, <2>2, <2>3
  <1>9. k = "metrics" => counts'[q][1] <= Parts(q)'
    <2> SUFFICES ASSUME k = "metrics" PROVE counts'[q][1] <= Parts(q)'
      OBVIOUS
    <2>1. Queries(k) = summary
      BY SummaryQueries
    <2>2. CASE n = 1
      <3>1. counts'[q][1] = Counted(Rows("all"), start)
        BY <1>4, <2>1, <2>2, SummaryQueries DEF Result, Rows
      <3>2. \A i \in 2 .. 5 : Part(q, i)' = Counted(summary[i], start)
        <4>1. \A i \in 2 .. 5 : ~(i <= Len(counts'[q]))
          BY <1>4, <2>2
        <4>2. \A i \in 2 .. 5 : Part(q, i)' = Counted(summary[i], start)'
          BY <1>1, <4>1 DEF Part
        <4>3. QED
          BY <1>2, <4>2
      <3>3. /\ Part(q, 2)' = Counted(Rows("block"), start)
            /\ Part(q, 3)' = Counted(Rows("allow"), start)
            /\ Part(q, 4)' = Counted(Rows("log_and_allow"), start)
            /\ Part(q, 5)' = Counted(Rows("require_hitl"), start)
        BY <3>2, SummaryQueries
      <3>4. /\ Parts(q)' = Part(q, 2)' + Part(q, 3)' + Part(q, 4)' + Part(q, 5)' + Unheard(q)'
            /\ Unheard(q)' = Counted(Rows("unheard_of"), start)
        <4>1. Parts(q)' = Part(q, 2)' + Part(q, 3)' + Part(q, 4)' + Part(q, 5)' + Unheard(q)'
          BY DEF Parts
        <4>2. Unheard(q)' = Counted(Rows("unheard_of"), start)'
          BY <1>1 DEF Unheard
        <4>3. QED
          BY <1>2, <4>1, <4>2
      <3>5. QED
        BY <3>1, <3>3, <3>4, DecisionsAddUp
    <2>3. CASE n # 1
      <3>1. /\ counts'[q][1] = done[1] /\ done # <<>>
        <4>1. 1 \in 1 .. n - 1 /\ Len(done) # 0
          BY <1>4, <2>3 DEF n
        <4>2. QED
          BY <1>3, <1>4, <4>1, EmptySeq
      <3>2. done[1] <= Parts(q)
        BY <3>1 DEF Bracketed
      <3>3. \A i \in 2 .. 5 : Part(q, i)' = Part(q, i)
        <4> SUFFICES ASSUME NEW i \in 2 .. 5 PROVE Part(q, i)' = Part(q, i)
          OBVIOUS
        <4>1. CASE i <= Len(done)
          <5>1. i \in 1 .. n - 1 /\ i <= n
            BY <1>4, <4>1 DEF n
          <5>2. Part(q, i) = done[i]
            BY <4>1 DEF Part
          <5>3. Part(q, i)' = counts'[q][i]
            BY <1>4, <5>1 DEF Part
          <5>4. QED
            BY <1>4, <5>1, <5>2, <5>3
        <4>2. CASE i = n
          <5>1. Part(q, i) = Counted(summary[i], start)
            BY <1>4, <4>2 DEF Part, n
          <5>2. Part(q, i)' = result
            BY <1>4, <4>2 DEF Part
          <5>3. result = Counted(summary[i], start)
            BY <2>1, <4>2, SummaryQueries DEF Result
          <5>4. QED
            BY <5>1, <5>2, <5>3
        <4>3. CASE i > n
          <5>1. Part(q, i) = Counted(summary[i], start)
            BY <1>4, <4>3 DEF Part, n
          <5>2. Part(q, i)' = Counted(summary[i], start)'
            BY <1>1, <1>4, <4>3 DEF Part
          <5>3. QED
            BY <1>2, <5>1, <5>2
        <4>4. QED
          BY <1>4, <4>1, <4>2, <4>3 DEF n
      <3>4. Parts(q)' = Parts(q)
        <4>1. Unheard(q)' = Unheard(q)
          BY <1>1, <1>2 DEF Unheard
        <4>2. QED
          BY <3>3, <4>1 DEF Parts
      <3>5. QED
        BY <3>1, <3>2, <3>4
    <2>4. QED
      BY <2>2, <2>3
  <1>10. QED
    BY <1>1, <1>6, <1>7, <1>8, <1>9 DEF Bracketed

\* A summary goes from query to query and to its answer by counting.
LEMMA MetricsMove ==
  ASSUME PathInv, RecordsInv, ReportInv, NEW q \in Requests, Step(q), kind[q] = "metrics",
         ~Count(q)
  PROVE  /\ pc'[q] = "summary" => pc[q] = "summary" \/ counts'[q] = <<>>
         /\ pc'[q] = "answer" => pc[q] = "answer"
  <1> USE DEF PathInv, Goto, Proceed, Committed, Over
  <1>1. pc[q] \in {"idle", "auth", "summary", "answer"} \union Ended
    BY DEF Path, Monitoring, Analytics
  <1>2. counts[q] # <<>> => pc[q] \notin {"idle", "auth"}
    BY DEF ReportInv, Counting, Ended
  <1>3. CASE Accept(q)
    BY <1>3 DEF Accept, Anonymous
  <1>4. CASE Authenticate(q)
    <2>1. FirstStep("metrics") = "summary"
      BY DEF FirstStep, Monitoring, Analytics
    <2>2. counts'[q] = <<>> \/ counts'[q] = counts[q]
      BY <1>4 DEF Authenticate, Forget, ReportInv
    <2>3. QED
      BY <1>2, <1>4, <2>1, <2>2 DEF Authenticate
  <1>5. CASE Wait(q)
    BY <1>1, <1>5 DEF Wait, Connect, TimesOut, Raised
  <1>6. CASE RecordStep(q)
    BY <1>1, <1>6 DEF RecordStep, AskAgent, Audit, SubmitTicket, RecordHistory, RecordMetric,
      Recorded, Ended
  <1>7. CASE ReportStep(q)
    BY <1>1, <1>7 DEF ReportStep, FindReport, Upsert, Serialize, Answer, Ended
  <1>8. CASE PageStep(q) \/ ContentStep(q)
    BY <1>1, <1>8 DEF PageStep, Search, ReadAll, ContentStep, Find, Lookup, Generate, Persist,
      Reread, HandOut, Ended
  <1>9. QED
    BY <1>3, <1>4, <1>5, <1>6, <1>7, <1>8 DEF Step

\* Every step keeps the counts of every answer bracketed.
LEMMA BracketsStep ==
  ASSUME PathInv, RecordsInv, ReportInv, BracketInv, NEW q \in Requests, Step(q)
  PROVE  BracketInv'
  <1>1. /\ kind' = kind /\ RecordsInv' /\ Grown
        /\ \A p \in Requests \ {q} : /\ pc'[p] = pc[p] /\ counts'[p] = counts[p]
                                     /\ since'[p] = since[p]
    BY OthersWait, RecordsStep, TablesGrow, CountsMove
  <1>2. \A p \in Requests : Bracketed(p)
    BY DEF BracketInv
  <1>3. \A p \in Requests \ {q} : Bracketed(p)'
    BY <1>1, <1>2, BracketsStay
  <1>4. Bracketed(q)'
    <2>1. CASE Count(q)
      <3>1. UNCHANGED recordVars
        BY <2>1, RecordsMove DEF Count, RecordStep, AskAgent, Audit, SubmitTicket, RecordHistory,
          RecordMetric, Recorded
      <3>2. QED
        BY <1>2, <2>1, <3>1, CountKeepsBrackets
    <2>2. CASE ~Count(q) /\ counts'[q] = counts[q] /\ since'[q] = since[q]
      BY <1>1, <1>2, <2>2, BracketsStay, MetricsMove
    <2>3. CASE ~Count(q) /\ counts'[q] = <<>> /\ counts[q] # <<>>
      <3>1. DOMAIN counts'[q] = {} /\ Len(counts'[q]) = 0
        BY <2>3, EmptySeq
      <3>2. kind[q] = "metrics" => pc'[q] # "answer"
        <4>1. SUFFICES ASSUME kind[q] = "metrics", pc'[q] = "answer" PROVE FALSE
          OBVIOUS
        <4>2. pc[q] = "answer" /\ pc \in [Requests -> Labels] /\ counts \in [Requests -> Seq(Nat)]
          BY <2>3, <4>1, MetricsMove DEF PathInv, ReportInv
        <4>3. CASE UNCHANGED counts
          BY <2>3, <4>3
        <4>4. CASE Answer(q) \/ Authenticate(q)
          BY <4>1, <4>2, <4>4 DEF Answer, Authenticate, Over, Goto
        <4>5. QED
          BY <2>3, <4>3, <4>4 DEF Step, Accept, Wait, ReportStep, FindReport, Upsert, Serialize,
            reportVars
      <3>3. QED
        BY <1>1, <2>3, <3>1, <3>2 DEF Bracketed
    <2>4. CASE ~Count(q) /\ counts'[q] = <<>> /\ counts[q] = <<>>
      <3>1. DOMAIN counts'[q] = {} /\ Len(counts'[q]) = 0 /\ Len(counts[q]) = 0
        BY <2>4, EmptySeq
      <3>2. kind[q] = "metrics" => pc'[q] # "answer"
        <4>1. kind[q] = "metrics" /\ pc'[q] = "answer" => pc[q] = "answer"
          BY <2>4, MetricsMove
        <4>2. kind[q] = "metrics" /\ pc[q] = "answer" => Len(counts[q]) \in {1, 7}
          BY <1>2 DEF Bracketed
        <4>3. QED
          BY <3>1, <4>1, <4>2
      <3>3. QED
        BY <1>1, <2>4, <3>1, <3>2 DEF Bracketed
    <2>5. QED
      BY <2>1, <2>2, <2>3, <2>4, CountsMove
  <1>5. QED
    BY <1>3, <1>4 DEF BracketInv

\* What brackets counts brackets those of an answer.
LEMMA BracketsDecide == PathInv /\ ReportInv /\ BracketInv => CountsBracketed
  <1> SUFFICES ASSUME PathInv, ReportInv, BracketInv, NEW q \in Requests
               PROVE  /\ \A i \in DOMAIN counts[q] : Queries(kind[q])[i].where # "loose" =>
                           counts[q][i] <= Counted(Queries(kind[q])[i], since[q])
                      /\ \A i \in DOMAIN counts[q], j \in DOMAIN counts[q] :
                           i < j /\ Queries(kind[q])[i] = Queries(kind[q])[j] =>
                             counts[q][i] <= counts[q][j]
                      /\ kind[q] = "metrics" /\ pc[q] = "answer" /\ Len(counts[q]) > 1 =>
                           LET of(where) == counts[q][CHOOSE i \in DOMAIN counts[q] :
                                                        Queries(kind[q])[i] = Rows(where)]
                           IN  of("all") <= of("block") + of("allow") + of("log_and_allow")
                                              + of("require_hitl")
                                              + Counted(Rows("unheard_of"), since[q])
    BY DEF CountsBracketed
  <1>1. Bracketed(q)
    BY DEF BracketInv
  <1>2. \A i \in DOMAIN counts[q] : Queries(kind[q])[i].where # "loose" =>
          counts[q][i] <= Counted(Queries(kind[q])[i], since[q])
    BY <1>1 DEF Bracketed, Result
  <1>3. \A i \in DOMAIN counts[q], j \in DOMAIN counts[q] :
          i < j /\ Queries(kind[q])[i] = Queries(kind[q])[j] => counts[q][i] <= counts[q][j]
    BY <1>1 DEF Bracketed
  <1>4. ASSUME kind[q] = "metrics", pc[q] = "answer", Len(counts[q]) > 1
        PROVE  LET of(where) == counts[q][CHOOSE i \in DOMAIN counts[q] :
                                            Queries(kind[q])[i] = Rows(where)]
               IN  of("all") <= of("block") + of("allow") + of("log_and_allow")
                                  + of("require_hitl") + Counted(Rows("unheard_of"), since[q])
    <2> DEFINE at(where) == CHOOSE i \in DOMAIN counts[q] : Queries(kind[q])[i] = Rows(where)
    <2>1. counts[q] \in Seq(Nat) /\ Len(counts[q]) = 7
      <3>1. Len(counts[q]) \in {1, 7}
        BY <1>1, <1>4 DEF Bracketed
      <3>2. counts[q] \in Seq(Nat)
        BY DEF ReportInv
      <3>3. Len(counts[q]) = 1 \/ Len(counts[q]) = 7
        BY <3>1
      <3>4. CASE Len(counts[q]) = 1
        <4>1. PICK n : n = Len(counts[q])
          OBVIOUS
        <4>2. n > 1 /\ n = 1
          BY <1>4, <3>4, <4>1
        <4>3. QED
          BY <4>2
      <3>5. QED
        BY <3>2, <3>3, <3>4
    <2>2. DOMAIN counts[q] = 1 .. 7 /\ counts[q] # <<>>
      <3>1. DOMAIN counts[q] = 1 .. Len(counts[q])
        BY <2>1, LenProperties
      <3>2. counts[q] # <<>>
        BY <1>4, EmptySeq
      <3>3. QED
        BY <2>1, <3>1, <3>2
    <2>3. Queries(kind[q]) = summary
      BY <1>4, SummaryQueries
    <2>4. ASSUME NEW n \in 1 .. 7, NEW where, summary[n] = Rows(where)
          PROVE  at(where) = n
      BY <2>2, <2>3, <2>4, SummaryQueries
    <2>5. /\ at("all") = 1 /\ at("block") = 2 /\ at("allow") = 3
          /\ at("log_and_allow") = 4 /\ at("require_hitl") = 5
      BY <2>4, SummaryQueries
    <2>6. counts[q][1] <= counts[q][2] + counts[q][3] + counts[q][4] + counts[q][5]
                            + Counted(Rows("unheard_of"), since[q])
      BY <1>1, <1>4, <2>1, <2>2 DEF Bracketed, Parts, Part, Unheard
    <2>7. QED
      BY <2>5, <2>6
  <1>5. QED
    BY <1>2, <1>3, <1>4

\* Counts are bracketed: nothing was counted as more than there is, what is counted twice
\* has not become less, and the total of a summary is at most the sum of its decisions
\* and of the rows of a decision it does not know.
THEOREM CountsAreBracketed == Spec => []CountsBracketed
  <1>1. Init => BracketInv
    <2> SUFFICES ASSUME Init, NEW q \in Requests PROVE Bracketed(q)
      BY DEF BracketInv
    <2>1. counts[q] = <<>> /\ pc[q] = "idle"
      BY DEF Init, ReportsInit, PoolInit
    <2>2. DOMAIN counts[q] = {}
      BY <2>1, EmptySeq
    <2>3. QED
      BY <2>1, <2>2 DEF Bracketed
  <1>2. PathInv /\ RecordsInv /\ ReportInv /\ BracketInv /\ [Next]_allVars => BracketInv'
    <2> SUFFICES ASSUME PathInv, RecordsInv, ReportInv, BracketInv, [Next]_allVars
                 PROVE  BracketInv'
      OBVIOUS
    <2>1. CASE UNCHANGED allVars
      <3>1. UNCHANGED <<kind, pc, since, counts>> /\ UNCHANGED recordVars
        BY <2>1 DEF allVars, poolVars, reportVars
      <3>2. RecordsInv' /\ Grown
        BY <3>1 DEF recordVars, RecordsInv, Grown
      <3>3. \A q \in Requests : Bracketed(q)'
        BY <3>1, <3>2, BracketsStay DEF BracketInv
      <3>4. QED
        BY <3>3 DEF BracketInv
    <2>2. QED
      BY <2>1, BracketsStep DEF Next
  <1>3. QED
    BY <1>1, <1>2, BracketsDecide, PathAlways, RecordsAlways, ReportsAlways, PTL DEF Spec
=============================================================================
