------------------------- MODULE OrchestratorProofs -------------------------
(***************************************************************************)
(* Proofs about Orchestrator, that is /execute and /approvals over the same*)
(* tables, for any executions, workers and reviews.                        *)
(*                                                                         *)
(* What ApprovalWorkflowProofs says of reviews holds here too: that it is  *)
(* kept by reviews is proved there, that it is kept by executions here.    *)
(* The other part is what an execution knows where it stands, and that a   *)
(* review leaves that alone: it touches an execution's records only through*)
(* a ticket, and only an audited execution that was held back has one.     *)
(***************************************************************************)
EXTENDS Orchestrator, ApprovalWorkflowProofs, FiniteSetTheorems

USE ExecsAssumption

\* Nothing was done about an execution yet.
Fresh(e) ==
  /\ toolRuns[e] = 0
  /\ tickets[e] = NoTicket
  /\ history[e] = "none"
  /\ metrics[e] = "none"
  /\ status[e] = "none"

\* HistoryTrue for one status of one execution.
True(e, s) ==
  /\ s \in {"executed", "executed_with_logging", "failed"} => toolRuns[e] > 0
  /\ s = "executed_with_logging" => decision[e] = "log_and_allow"
  /\ s = "blocked" => decision[e] = "block" /\ toolRuns[e] = 0
  /\ s = "waiting_for_human" => decision[e] = "require_hitl"

\* What an execution knows where it stands, and when it has ended.
Knows(e) ==
  /\ xpc[e] \in {"idle", "received", "previewed"} => decision[e] = "none"
  /\ xpc[e] \in Active => decision[e] # "none"
  /\ xpc[e] \in {"idle", "received", "previewed", "entered"} => audited[e] = "none"
  /\ xpc[e] \in Active \ {"entered"} => audited[e] # "none"
  /\ xpc[e] \in {"idle", "received", "previewed", "entered", "audited"} => Fresh(e)
  /\ xpc[e] = "running" =>
       toolRuns[e] > 0 /\ decision[e] \in {"allow", "log_and_allow", "unheard_of"}
  /\ audited[e] = "none" => Fresh(e)
  /\ decision[e] \in {"none", "block"} => toolRuns[e] = 0
  /\ decision[e] \in {"allow", "log_and_allow", "unheard_of"} => toolRuns[e] <= 1
  /\ tickets[e] # NoTicket => decision[e] = "require_hitl"
  /\ decision[e] = "require_hitl" => status[e] \in {"none", "waiting_for_human"}
  /\ \A s \in {status[e], history[e], metrics[e]} : True(e, s)

ExecInv == \A e \in Execs : Knows(e)

\* The approvals that cannot run the tool any more.
Spent(e) == {q \in Approvals(e) : rpc[q] \notin {"found", "checked", "locked"}}

\* Each run of a held tool has an approval of its own.
ApprovalInv ==
  /\ \A q \in Reviews : rpc[q] \in {"idle", "received"} => verdict[q] = "none"
  /\ \A e \in Execs :
       /\ IsFiniteSet(Approvals(e))
       /\ decision[e] = "require_hitl" => toolRuns[e] <= Cardinality(Spent(e))

SystemInv == IInv /\ ExecTypeOK /\ GaugeCounts /\ ExecInv /\ ApprovalInv

-----------------------------------------------------------------------------
\* Steps of executions.

\* The step of the execution e, whichever it is.
ExecAction(e) == Accept(e) \/ ExecStep(e) \/ AuditRaises(e) \/ ToolRaises(e)

\* A step of one execution leaves the others, and all that belongs to workers but the
\* gauge, as they are.
LEMMA OtherExecsStay ==
  ASSUME SystemInv, NEW e \in Execs, ExecAction(e), NEW d \in Execs, d # e
  PROVE  /\ xpc'[d] = xpc[d] /\ decision'[d] = decision[d] /\ status'[d] = status[d]
         /\ audited'[d] = audited[d] /\ metrics'[d] = metrics[d]
         /\ tickets'[d] = tickets[d] /\ history'[d] = history[d] /\ toolRuns'[d] = toolRuns[d]
  <1> USE DEF SystemInv, IInv, TypeOK, StoreTypeOK, ExecTypeOK, Move, Leave, Act, storeVars
  <1>1. CASE Accept(e) \/ Evaluate(e) \/ Audit(e) \/ AuditRaises(e)
    BY <1>1 DEF Accept, Evaluate, Audit, AuditRaises
  <1>2. CASE Block(e) \/ SubmitTicket(e) \/ RunTool(e) \/ ToolReturns(e) \/ ToolRaises(e)
    BY <1>2 DEF Block, SubmitTicket, RunTool, ToolReturns, ToolRaises
  <1>3. CASE PersistHistory(e) \/ PersistMetric(e) \/ Reply(e)
    BY <1>3 DEF PersistHistory, PersistMetric, Reply
  <1>4. QED
    BY <1>1, <1>2, <1>3 DEF ExecAction, ExecStep

\* What a step of e does to the tables it shares with reviews.
LEMMA TableEffects ==
  ASSUME SystemInv, NEW e \in Execs, ExecAction(e)
  PROVE  /\ clock' = clock
         /\ \/ tickets' = tickets
            \/ /\ tickets' = [tickets EXCEPT ![e] = NewTicket]
               /\ xpc[e] = "audited" /\ Fresh(e) /\ history' = history
         /\ \/ toolRuns' = toolRuns
            \/ toolRuns' = [toolRuns EXCEPT ![e] = @ + 1] /\ xpc[e] = "audited"
         /\ \/ history' = history
            \/ history' = [history EXCEPT ![e] = status[e]] /\ tickets' = tickets
  <1> USE DEF SystemInv, ExecInv, Knows, storeVars
  <1>1. CASE Accept(e) \/ Evaluate(e) \/ Audit(e) \/ AuditRaises(e)
    BY <1>1 DEF Accept, Evaluate, Audit, AuditRaises
  <1>2. CASE Block(e) \/ SubmitTicket(e) \/ RunTool(e) \/ ToolReturns(e) \/ ToolRaises(e)
    BY <1>2 DEF Block, SubmitTicket, RunTool, ToolReturns, ToolRaises
  <1>3. CASE PersistHistory(e) \/ PersistMetric(e) \/ Reply(e)
    BY <1>3 DEF PersistHistory, PersistMetric, Reply
  <1>4. QED
    BY <1>1, <1>2, <1>3 DEF ExecAction, ExecStep

\* An execution keeps what reviews rely on: it submits a ticket only where there is
\* none, and writes no history that says executed for one that has a ticket.
LEMMA ExecsKeepReviews ==
  ASSUME SystemInv, NEW e \in Execs, ExecAction(e), UNCHANGED reviewVars
  PROVE  IInv'
  <1> USE DEF SystemInv, IInv, TypeOK, StoreTypeOK, reviewVars
  <1>1. TypeOK'
    <2>1. NewTicket \in Ticket
      BY TicketTypes
    <2>2. status[e] \in HistoryStatus
      BY DEF ExecTypeOK
    <2>3. QED
      BY <2>1, <2>2, TableEffects
  <1>2. \A d \in Execs :
          /\ toolRuns[d] > 0 => toolRuns'[d] > 0
          /\ \/ tickets'[d] = tickets[d]
             \/ tickets[d] = NoTicket /\ tickets'[d] = NewTicket /\ history'[d] = "none"
    BY TableEffects DEF Fresh
  <1>3. LockInv'
    BY DEF LockInv
  <1>4. ReviewInv'
    <2>1. NoTicket.status = "none" /\ "none" \notin Resolved
      BY DEF NoTicket, Resolved
    <2>2. QED
      BY <1>2, <2>1 DEF ReviewInv, HasRun
  <1>5. DeadlineInv'
    BY <1>2, TableEffects DEF DeadlineInv, NewTicket
  <1>6. RecordedMeansDone'
    <2> SUFFICES ASSUME NEW d \in Execs, tickets'[d].status # "none"
                 PROVE  /\ tickets'[d].approved_at => toolRuns'[d] > 0
                        /\ tickets'[d].status = "approved" => tickets'[d].approved_at
                        /\ tickets'[d].status = "rejected" => tickets'[d].rejected_at
                        /\ history'[d] \in {"executed", "failed"} => tickets'[d].approved_at
      BY DEF RecordedMeansDone
    <2>1. CASE tickets'[d] = NewTicket /\ history'[d] = "none"
      BY <2>1 DEF NewTicket
    <2>2. CASE tickets'[d] = tickets[d]
      <3>1. tickets[d] # NoTicket
        BY <2>2 DEF NoTicket
      <3>2. status[d] \notin {"executed", "failed"}
        BY <3>1 DEF ExecInv, Knows, True
      <3>3. history'[d] \in {history[d], status[d]}
        BY TableEffects
      <3>4. QED
        BY <1>2, <2>2, <3>2, <3>3 DEF RecordedMeansDone
    <2>3. QED
      BY <1>2, <2>1, <2>2
  <1>7. QED
    BY <1>1, <1>3, <1>4, <1>5, <1>6

\* The types, but for the bound of the gauge, which follows from what it counts.
LEMMA ExecTypes ==
  ASSUME SystemInv, NEW e \in Execs, ExecAction(e)
  PROVE  /\ xpc' \in [Execs -> {"idle", "received"} \union Active \union Ended]
         /\ worker' = worker /\ wired' = wired
         /\ decision' \in [Execs -> Decisions \union {"none"}]
         /\ status' \in [Execs -> HistoryStatus]
         /\ audited' \in [Execs -> {"none", "chain", "file"}]
         /\ metrics' \in [Execs -> HistoryStatus]
  <1> USE DEF SystemInv, ExecTypeOK, Move, Leave, Act, Active, Ended, HistoryStatus
  <1>1. CASE Accept(e) \/ Evaluate(e) \/ Reply(e) \/ ToolRaises(e)
    BY <1>1 DEF Accept, Evaluate, Reply, ToolRaises
  <1>2. CASE Audit(e) \/ AuditRaises(e)
    BY <1>2 DEF Audit, AuditRaises, Sink
  <1>3. CASE Block(e) \/ SubmitTicket(e) \/ RunTool(e) \/ ToolReturns(e)
    BY <1>3 DEF Block, SubmitTicket, RunTool, ToolReturns
  <1>4. CASE PersistHistory(e) \/ PersistMetric(e)
    BY <1>4 DEF PersistHistory, PersistMetric
  <1>5. QED
    BY <1>1, <1>2, <1>3, <1>4 DEF ExecAction, ExecStep

\* An execution learns no more than what it has done.
LEMMA ExecKnows ==
  ASSUME SystemInv, NEW e \in Execs, ExecAction(e)
  PROVE  ExecInv'
  <1> SUFFICES ASSUME NEW d \in Execs PROVE Knows(d)'
    BY DEF ExecInv
  <1>1. Knows(d) /\ Knows(e)
    BY DEF SystemInv, ExecInv
  <1>2. CASE d # e
    BY <1>1, <1>2, OtherExecsStay DEF Knows, Fresh, True
  <1>3. CASE d = e
    <2>0. Knows(e)
      BY <1>1
    <2> USE DEF SystemInv, IInv, TypeOK, StoreTypeOK, ExecTypeOK, Move, Leave, Act, Active,
      storeVars, Knows, Fresh, True
    <2>1. CASE Accept(e)
      BY <2>0, <1>3, <2>1 DEF Accept
    <2>2. CASE Evaluate(e)
      BY <2>0, <1>3, <2>2 DEF Evaluate, Decisions
    <2>3. CASE Audit(e) \/ AuditRaises(e)
      BY <2>0, <1>3, <2>3 DEF Audit, AuditRaises, Sink
    <2>4. CASE Block(e)
      BY <2>0, <1>3, <2>4 DEF Block
    <2>5. CASE SubmitTicket(e)
      BY <2>0, <1>3, <2>5 DEF SubmitTicket
    <2>6. CASE RunTool(e)
      BY <2>0, <1>3, <2>6 DEF RunTool, Decisions
    <2>7. CASE ToolReturns(e) \/ ToolRaises(e)
      BY <2>0, <1>3, <2>7 DEF ToolReturns, ToolRaises
    <2>8. CASE PersistHistory(e) \/ PersistMetric(e)
      BY <2>0, <1>3, <2>8 DEF PersistHistory, PersistMetric
    <2>9. CASE Reply(e)
      BY <2>0, <1>3, <2>9 DEF Reply
    <2>10. QED
      BY <2>1, <2>2, <2>3, <2>4, <2>5, <2>6, <2>7, <2>8, <2>9 DEF ExecAction, ExecStep
  <1>4. QED
    BY <1>2, <1>3

-----------------------------------------------------------------------------
\* The gauge.

\* The executions that are active in a worker.
ActiveIn(w) == {e \in Execs : worker[e] = w /\ xpc[e] \in Active}

\* There are finitely many executions, hence finitely many active in a worker.
LEMMA ActiveFinite == \A w : IsFiniteSet(ActiveIn(w))
  BY FS_Subset DEF ActiveIn

\* Who becomes active is counted, and who is no longer is not.
LEMMA GaugeStep ==
  ASSUME SystemInv, NEW e \in Execs, ExecAction(e)
  PROVE  GaugeCounts'
  <1> SUFFICES ASSUME NEW w \in Workers
               PROVE  gauge'[w] = Cardinality(ActiveIn(w)')
    BY DEF GaugeCounts, ActiveIn
  <1>0. /\ gauge[w] = Cardinality(ActiveIn(w)) /\ gauge \in [Workers -> Nat]
        /\ IsFiniteSet(ActiveIn(w)) /\ worker[e] \in Workers
    <2>1. gauge \in [Workers -> Nat] /\ worker[e] \in Workers
      BY FS_CardinalityType DEF SystemInv, ExecTypeOK
    <2>2. gauge[w] = Cardinality(ActiveIn(w))
      BY DEF SystemInv, GaugeCounts, ActiveIn
    <2>3. QED
      BY <2>1, <2>2, ActiveFinite
  <1>1. \A d \in Execs : d # e => (d \in ActiveIn(w)' <=> d \in ActiveIn(w))
    BY OtherExecsStay, ExecTypes DEF ActiveIn
  <1>2. ActiveIn(w) \subseteq Execs /\ ActiveIn(w)' \subseteq Execs
    BY DEF ActiveIn
  <1>3. CASE worker[e] # w \/ (xpc[e] \in Active <=> xpc'[e] \in Active)
    <2>1. ActiveIn(w)' = ActiveIn(w)
      <3>1. e \in ActiveIn(w)' <=> e \in ActiveIn(w)
        BY <1>3, ExecTypes DEF ActiveIn
      <3>2. QED
        BY <1>1, <1>2, <3>1
    <2>2. gauge'[w] = gauge[w]
      <3> USE DEF SystemInv, ExecTypeOK, Move, Leave, Act, Active
      <3>1. CASE Accept(e) \/ Evaluate(e) \/ Audit(e) \/ AuditRaises(e)
        BY <1>0, <1>3, <3>1 DEF Accept, Evaluate, Audit, AuditRaises
      <3>2. CASE Block(e) \/ SubmitTicket(e) \/ RunTool(e) \/ ToolReturns(e) \/ ToolRaises(e)
        BY <1>0, <1>3, <3>2 DEF Block, SubmitTicket, RunTool, ToolReturns, ToolRaises
      <3>3. CASE PersistHistory(e) \/ PersistMetric(e) \/ Reply(e)
        BY <1>0, <1>3, <3>3 DEF PersistHistory, PersistMetric, Reply
      <3>4. QED
        BY <3>1, <3>2, <3>3 DEF ExecAction, ExecStep
    <2>3. QED
      BY <1>0, <2>1, <2>2
  <1>4. CASE worker[e] = w /\ xpc[e] \notin Active /\ xpc'[e] \in Active
    <2>1. gauge'[w] = gauge[w] + 1
      BY <1>0, <1>4 DEF ExecAction, ExecStep, Accept, Evaluate, Audit, AuditRaises, Block,
        SubmitTicket, RunTool, ToolReturns, ToolRaises, PersistHistory, PersistMetric, Reply,
        Move, Active, SystemInv, ExecTypeOK
    <2>2. ActiveIn(w)' = ActiveIn(w) \union {e} /\ e \notin ActiveIn(w)
      BY <1>1, <1>2, <1>4, ExecTypes DEF ActiveIn
    <2>3. QED
      BY <1>0, <2>1, <2>2, FS_AddElement
  <1>5. CASE worker[e] = w /\ xpc[e] \in Active /\ xpc'[e] \notin Active
    <2>1. gauge'[w] = gauge[w] - 1
      <3> USE DEF SystemInv, ExecTypeOK, Move, Leave, Act, Active
      <3>1. CASE Accept(e) \/ Evaluate(e) \/ Audit(e) \/ AuditRaises(e)
        BY <1>0, <1>5, <3>1 DEF Accept, Evaluate, Audit, AuditRaises
      <3>2. CASE Block(e) \/ SubmitTicket(e) \/ RunTool(e) \/ ToolReturns(e) \/ ToolRaises(e)
        BY <1>0, <1>5, <3>2 DEF Block, SubmitTicket, RunTool, ToolReturns, ToolRaises
      <3>3. CASE PersistHistory(e) \/ PersistMetric(e) \/ Reply(e)
        BY <1>0, <1>5, <3>3 DEF PersistHistory, PersistMetric, Reply
      <3>4. QED
        BY <3>1, <3>2, <3>3 DEF ExecAction, ExecStep
    <2>2. ActiveIn(w)' = ActiveIn(w) \ {e} /\ e \in ActiveIn(w)
      BY <1>1, <1>2, <1>5, ExecTypes DEF ActiveIn
    <2>3. QED
      BY <1>0, <2>1, <2>2, FS_RemoveElement
  <1>6. QED
    BY <1>3, <1>4, <1>5

\* The types; that of the gauge follows from what it counts.
LEMMA ExecsKeepExecTypes ==
  ASSUME SystemInv, NEW e \in Execs, ExecAction(e)
  PROVE  ExecTypeOK'
  <1>1. DOMAIN gauge' = Workers /\ gauge' = [w \in Workers |-> gauge'[w]]
    <2> USE DEF SystemInv, ExecTypeOK, Move, Leave, Act
    <2>1. CASE Accept(e) \/ Evaluate(e) \/ Audit(e) \/ AuditRaises(e)
      BY <2>1 DEF Accept, Evaluate, Audit, AuditRaises
    <2>2. CASE Block(e) \/ SubmitTicket(e) \/ RunTool(e) \/ ToolReturns(e) \/ ToolRaises(e)
      BY <2>2 DEF Block, SubmitTicket, RunTool, ToolReturns, ToolRaises
    <2>3. CASE PersistHistory(e) \/ PersistMetric(e) \/ Reply(e)
      BY <2>3 DEF PersistHistory, PersistMetric, Reply
    <2>4. QED
      BY <2>1, <2>2, <2>3 DEF ExecAction, ExecStep
  <1>2. gauge' \in [Workers -> 0 .. Cardinality(Execs)]
    <2>1. GaugeCounts'
      BY GaugeStep
    <2>2. \A w \in Workers : Cardinality(ActiveIn(w)') \in 0 .. Cardinality(Execs)
      <3>1. \A w \in Workers : ActiveIn(w)' \in SUBSET Execs
        BY DEF ActiveIn
      <3>2. QED
        BY <3>1, FS_Subset, FS_CardinalityType
    <2>3. QED
      BY <1>1, <2>1, <2>2 DEF GaugeCounts, ActiveIn
  <1>3. QED
    BY <1>2, ExecTypes DEF ExecTypeOK, SystemInv

-----------------------------------------------------------------------------
\* Approvals.

\* An execution does not run a tool that was held back, nor make or end a review; what
\* it decides it decides before any tool runs.
LEMMA ExecsKeepApprovals ==
  ASSUME SystemInv, NEW e \in Execs, ExecAction(e), UNCHANGED reviewVars
  PROVE  ApprovalInv'
  <1>1. \A d \in Execs : Approvals(d)' = Approvals(d) /\ Spent(d)' = Spent(d)
    BY DEF Approvals, Spent, reviewVars
  <1>2. \A d \in Execs : decision'[d] = "require_hitl" =>
          toolRuns'[d] = 0 \/ (decision[d] = "require_hitl" /\ toolRuns'[d] = toolRuns[d])
    <2> SUFFICES ASSUME NEW d \in Execs, decision'[d] = "require_hitl", toolRuns'[d] # 0
                 PROVE  decision[d] = "require_hitl" /\ toolRuns'[d] = toolRuns[d]
      OBVIOUS
    <2>1. CASE d # e
      BY <2>1, OtherExecsStay
    <2>2. CASE d = e
      <3>1. xpc[e] = "received" => toolRuns[e] = 0
        BY DEF SystemInv, ExecInv, Knows, Fresh
      <3> USE <2>2 DEF SystemInv, ExecTypeOK, storeVars
      <3>2. CASE Evaluate(e)
        BY <3>1, <3>2 DEF Evaluate
      <3>3. CASE Accept(e) \/ Audit(e) \/ AuditRaises(e) \/ Block(e) \/ SubmitTicket(e)
        BY <3>3 DEF Accept, Audit, AuditRaises, Block, SubmitTicket
      <3>4. CASE RunTool(e)
        BY <3>4 DEF RunTool
      <3>5. CASE ToolReturns(e) \/ ToolRaises(e) \/ PersistHistory(e) \/ PersistMetric(e)
                 \/ Reply(e)
        BY <3>5 DEF ToolReturns, ToolRaises, PersistHistory, PersistMetric, Reply
      <3>6. QED
        BY <3>2, <3>3, <3>4, <3>5 DEF ExecAction, ExecStep
    <2>3. QED
      BY <2>1, <2>2
  <1>3. \A d \in Execs : Cardinality(Spent(d)) \in Nat
    BY FS_Subset, FS_CardinalityType DEF SystemInv, ApprovalInv, Spent
  <1>4. QED
    BY <1>1, <1>2, <1>3 DEF SystemInv, ApprovalInv, reviewVars

\* A review spends its approval when it runs the tool, if not before.
LEMMA ReviewsKeepApprovals ==
  ASSUME SystemInv, NEW q \in Reviews, ReviewStep(q), UNCHANGED execVars
  PROVE  ApprovalInv'
  <1> USE DEF SystemInv, IInv, TypeOK, StoreTypeOK
  <1>1. /\ target' = target
        /\ \A p \in Reviews : p # q => rpc'[p] = rpc[p] /\ verdict'[p] = verdict[p]
    <2>1. target' = target
      BY DEF ReviewStep, Step, Receive, Find, CheckDeadline, Flush, StartTool, FinishTool,
        FindRecord, Commit, CommitUnacknowledged, WriteBoth, Respond, Fail
    <2>2. QED
      BY <2>1, OthersStay
  <1>2. \A d \in Execs : \A p \in Reviews : p # q =>
          /\ p \in Approvals(d)' <=> p \in Approvals(d)
          /\ p \in Spent(d)' <=> p \in Spent(d)
    BY <1>1 DEF Approvals, Spent
  <1>3. \A d \in Execs : Approvals(d) \subseteq Reviews /\ Approvals(d)' \subseteq Reviews
                         /\ Spent(d) \subseteq Approvals(d) /\ Spent(d)' \subseteq Approvals(d)'
    BY DEF Approvals, Spent
  <1>4. \A d \in Execs : IsFiniteSet(Approvals(d)')
    <2> TAKE d \in Execs
    <2>1. Approvals(d)' \subseteq Approvals(d) \union {q}
      BY <1>2, <1>3
    <2>2. IsFiniteSet(Approvals(d) \union {q})
      BY FS_AddElement DEF ApprovalInv
    <2>3. QED
      BY <2>1, <2>2, FS_Subset
  <1>5. \A d \in Execs :
          /\ IsFiniteSet(Spent(d)) /\ IsFiniteSet(Spent(d)')
          /\ Cardinality(Spent(d)) \in Nat /\ Cardinality(Spent(d)') \in Nat
    <2> TAKE d \in Execs
    <2>1. IsFiniteSet(Spent(d)) /\ IsFiniteSet(Spent(d)')
      BY <1>3, <1>4, FS_Subset DEF ApprovalInv
    <2>2. QED
      BY <2>1, FS_CardinalityType
  <1>6. ASSUME NEW p \in Reviews, rpc'[p] \in {"idle", "received"}
        PROVE  verdict'[p] = "none"
    <2>1. CASE p # q
      BY <1>1, <1>6, <2>1 DEF ApprovalInv
    <2>2. CASE p = q
      BY <1>6, <2>2 DEF ApprovalInv, ReviewStep, Step, Receive, Find, CheckDeadline, Flush,
        StartTool, FinishTool, FindRecord, Commit, CommitUnacknowledged, WriteBoth, Respond,
        Fail, Goto, Answer
    <2>3. QED
      BY <2>1, <2>2
  <1>7. ASSUME NEW d \in Execs, decision[d] = "require_hitl"
        PROVE  toolRuns'[d] <= Cardinality(Spent(d)')
    <2>0. toolRuns[d] <= Cardinality(Spent(d)) /\ toolRuns[d] \in Nat
      BY <1>7 DEF ApprovalInv
    <2>1. CASE StartTool(q) /\ d = target[q]
      <3>1. rpc[q] = "locked" /\ verdict[q] = "approved"
        BY <2>1 DEF StartTool, ReviewInv
      <3>2. rpc'[q] = "running" /\ verdict'[q] = verdict[q] /\ toolRuns'[d] = toolRuns[d] + 1
        BY <2>1 DEF StartTool, Goto
      <3>3. q \notin Spent(d) /\ q \in Spent(d)'
        BY <1>1, <2>1, <3>1, <3>2 DEF Spent, Approvals
      <3>4. Spent(d)' = Spent(d) \union {q}
        BY <1>2, <1>3, <3>3
      <3>5. Cardinality(Spent(d)') = Cardinality(Spent(d)) + 1
        BY <1>5, <3>3, <3>4, FS_AddElement
      <3>6. QED
        BY <1>5, <2>0, <3>2, <3>5
    <2>2. CASE ~(StartTool(q) /\ d = target[q])
      <3>1. toolRuns'[d] = toolRuns[d]
        BY <2>2 DEF ReviewStep, Step, Receive, Find, CheckDeadline, Flush, StartTool,
          FinishTool, FindRecord, Commit, CommitUnacknowledged, WriteBoth, Respond, Fail,
          storeVars
      <3>2. q \in Spent(d) => q \in Spent(d)'
        <4> SUFFICES ASSUME q \in Spent(d) PROVE q \in Spent(d)'
          OBVIOUS
        <4>1. rpc[q] \notin {"idle", "received", "found", "checked", "locked"}
              /\ verdict[q] = "approved" /\ target[q] = d
          BY DEF Spent, Approvals, ApprovalInv
        <4>2. rpc'[q] \notin {"found", "checked", "locked"} /\ verdict'[q] = "approved"
          BY <4>1 DEF ReviewStep, Step, Receive, Find, CheckDeadline, Flush, StartTool,
            FinishTool, FindRecord, Commit, CommitUnacknowledged, WriteBoth, Respond, Fail,
            Goto, Answer
        <4>3. QED
          BY <1>1, <4>1, <4>2 DEF Spent, Approvals
      <3>3. Spent(d) \subseteq Spent(d)'
        BY <1>2, <1>3, <3>2
      <3>4. QED
        BY <1>5, <2>0, <3>1, <3>3, FS_Subset
    <2>3. QED
      BY <2>1, <2>2
  <1>8. decision' = decision
    BY DEF execVars
  <1>9. QED
    BY <1>4, <1>6, <1>7, <1>8 DEF ApprovalInv

-----------------------------------------------------------------------------
\* Steps of reviews, crashes, the clock.

\* A review runs the tool, settles the ticket and corrects the history of an execution
\* that has a ticket, which is one that was audited and held back.
LEMMA ReviewsKeepKnows ==
  ASSUME SystemInv, NEW q \in Reviews, ReviewStep(q), UNCHANGED execVars
  PROVE  ExecInv'
  <1> SUFFICES ASSUME NEW e \in Execs PROVE Knows(e)'
    BY DEF ExecInv
  <1> USE DEF SystemInv, IInv, TypeOK, StoreTypeOK, execVars
  <1>0. Knows(e)
    BY DEF ExecInv
  <1>1. CASE tickets[e].status = "none" \/ target[q] # e
    <2>1. tickets'[e] = tickets[e] /\ toolRuns'[e] = toolRuns[e] /\ history'[e] = history[e]
      <3>1. rpc[q] \in InFlight => target[q] # e
        BY <1>1 DEF ReviewInv
      <3>2. CASE Receive(q) \/ Find(q) \/ CheckDeadline(q) \/ Flush(q) \/ FinishTool(q)
                 \/ FindRecord(q) \/ Respond(q) \/ Fail(q)
        BY <3>2 DEF Receive, Find, CheckDeadline, Flush, FinishTool, FindRecord, Respond, Fail,
          storeVars
      <3>3. CASE StartTool(q)
        BY <3>1, <3>3 DEF StartTool, InFlight
      <3>4. CASE Commit(q) \/ CommitUnacknowledged(q)
        BY <3>1, <3>4 DEF Commit, CommitUnacknowledged, WriteBoth, InFlight
      <3>5. QED
        BY <3>2, <3>3, <3>4 DEF ReviewStep, Step
    <2>2. QED
      BY <1>0, <2>1 DEF Knows, Fresh, True
  <1>2. CASE tickets[e].status # "none" /\ target[q] = e
    <2>1. /\ tickets[e] # NoTicket /\ decision[e] = "require_hitl" /\ audited[e] # "none"
          /\ xpc[e] \notin {"idle", "received", "previewed", "entered", "audited"}
      BY <1>0, <1>2 DEF NoTicket, Knows, Fresh
    <2>2. toolRuns[e] \in Nat /\ toolRuns'[e] \in Nat /\ (toolRuns[e] > 0 => toolRuns'[e] > 0)
      <3>1. TypeOK'
        BY TypeStep
      <3>2. QED
        BY <3>1, TicketsAdvance
    <2>3. history'[e] = history[e]
          \/ (history'[e] \in {"executed", "failed"} /\ toolRuns'[e] > 0)
      <3>1. CASE Commit(q) \/ CommitUnacknowledged(q)
        <4>1. /\ rpc[q] = "flushed" /\ toolRuns' = toolRuns
              /\ history'[e] = IF output[q] = "none" THEN history[e] ELSE output[q]
          BY <1>2, <3>1 DEF Commit, CommitUnacknowledged, WriteBoth
        <4>2. output[q] # "none" => toolRuns[e] > 0
          BY <1>2, <4>1 DEF ReviewInv, HasRun
        <4>3. QED
          BY <4>1, <4>2
      <3>2. CASE StartTool(q)
        BY <3>2 DEF StartTool
      <3>3. CASE Receive(q) \/ Find(q) \/ CheckDeadline(q) \/ Flush(q) \/ FinishTool(q)
                 \/ FindRecord(q) \/ Respond(q) \/ Fail(q)
        BY <3>3 DEF Receive, Find, CheckDeadline, Flush, FinishTool, FindRecord, Respond, Fail,
          storeVars
      <3>4. QED
        BY <3>1, <3>2, <3>3 DEF ReviewStep, Step
    <2>4. QED
      BY <1>0, <2>1, <2>2, <2>3 DEF Knows, True
  <1>3. QED
    BY <1>1, <1>2

\* A step of a review keeps the composed system's invariant.
LEMMA ReviewsKeepSystem ==
  ASSUME SystemInv, ReviewNext, UNCHANGED execVars
  PROVE  SystemInv'
  <1>1. PICK q \in Reviews : ReviewStep(q)
    BY DEF ReviewNext, ReviewStep
  <1>2. IInv'
    BY ReviewsKeepInv DEF SystemInv
  <1>3. ExecTypeOK' /\ GaugeCounts'
    BY DEF SystemInv, execVars, ExecTypeOK, GaugeCounts
  <1>4. QED
    BY <1>1, <1>2, <1>3, ReviewsKeepKnows, ReviewsKeepApprovals DEF SystemInv

\* A step of an execution keeps it.
LEMMA ExecsKeepSystem ==
  ASSUME SystemInv, NEW e \in Execs, ExecAction(e), UNCHANGED reviewVars
  PROVE  SystemInv'
  BY ExecsKeepReviews, ExecsKeepExecTypes, GaugeStep, ExecKnows, ExecsKeepApprovals
  DEF SystemInv

\* A crash ends executions where they are, and takes the gauge with it.
LEMMA CrashKeepsSystem ==
  ASSUME SystemInv, NEW w \in Workers, Crash(w), UNCHANGED reviewVars
  PROVE  SystemInv'
  <1>1. IInv'
    BY StutterKeepsInv DEF SystemInv, Crash, vars
  <1>2. ExecTypeOK'
    <2>1. 0 \in 0 .. Cardinality(Execs)
      BY FS_CardinalityType
    <2>2. QED
      BY <2>1 DEF SystemInv, Crash, ExecTypeOK, Ended
  <1>3. GaugeCounts'
    <2> SUFFICES ASSUME NEW v \in Workers
                 PROVE  gauge'[v] = Cardinality(ActiveIn(v)')
      BY DEF GaugeCounts, ActiveIn
    <2>1. CASE v = w
      <3>1. ActiveIn(v)' = {}
        BY <2>1 DEF ActiveIn, Crash, Active
      <3>2. QED
        BY <2>1, <3>1, FS_EmptySet DEF Crash, SystemInv, ExecTypeOK
    <2>2. CASE v # w
      <3>1. ActiveIn(v)' = ActiveIn(v)
        BY <2>2 DEF ActiveIn, Crash, Active
      <3>2. QED
        BY <2>2, <3>1 DEF Crash, SystemInv, ExecTypeOK, GaugeCounts, ActiveIn
    <2>3. QED
      BY <2>1, <2>2
  <1>4. ExecInv'
    BY DEF SystemInv, ExecInv, Crash, storeVars, Knows, Fresh, True, Active
  <1>5. ApprovalInv'
    BY DEF SystemInv, ApprovalInv, Approvals, Spent, Crash, reviewVars, storeVars
  <1>6. QED
    BY <1>1, <1>2, <1>3, <1>4, <1>5 DEF SystemInv

\* What executions know has nothing to do with the time of day.
LEMMA RestKeepsExecs ==
  ASSUME SystemInv, UNCHANGED <<tickets, history, toolRuns, execVars, reviewVars>>
  PROVE  ExecTypeOK' /\ GaugeCounts' /\ ExecInv' /\ ApprovalInv'
  <1> USE DEF SystemInv, execVars, reviewVars
  <1>1. ExecTypeOK'
    BY DEF ExecTypeOK
  <1>2. GaugeCounts'
    BY DEF GaugeCounts
  <1>3. ExecInv'
    BY DEF ExecInv, Knows, Fresh, True
  <1>4. ApprovalInv'
    BY DEF ApprovalInv, Approvals, Spent
  <1>5. QED
    BY <1>1, <1>2, <1>3, <1>4

\* The passing of time keeps it.
LEMMA TickKeepsSystem ==
  ASSUME SystemInv, Tick, UNCHANGED <<execVars, reviewVars>>
  PROVE  SystemInv'
  <1>1. IInv'
    BY TickKeepsInv DEF SystemInv
  <1>2. QED
    BY <1>1, RestKeepsExecs DEF SystemInv, Tick

\* A step in which nothing changes keeps it.
LEMMA StutterKeepsSystem ==
  ASSUME SystemInv, UNCHANGED allVars
  PROVE  SystemInv'
  <1>1. IInv'
    BY StutterKeepsInv DEF SystemInv, allVars, vars
  <1>2. QED
    BY <1>1, RestKeepsExecs DEF SystemInv, allVars, storeVars

\* It holds before anything was asked.
LEMMA InitSystem == SystemInit => SystemInv
  <1> SUFFICES ASSUME SystemInit PROVE SystemInv
    OBVIOUS
  <1> USE DEF SystemInit, ExecInit
  <1>1. IInv
    <2>1. Init
      BY DEF Init
    <2>2. QED
      BY <2>1, InitInv
  <1>2. \A w \in Workers : Cardinality({e \in Execs : worker[e] = w /\ xpc[e] \in Active}) = 0
    <2>1. \A w \in Workers : {e \in Execs : worker[e] = w /\ xpc[e] \in Active} = {}
      BY DEF Active
    <2>2. QED
      BY <2>1, FS_EmptySet
  <1>3. ExecTypeOK /\ GaugeCounts
    <2>1. 0 \in 0 .. Cardinality(Execs)
      BY FS_CardinalityType
    <2>2. QED
      BY <1>2, <2>1 DEF ExecTypeOK, GaugeCounts, HistoryStatus
  <1>4. ExecInv
    BY DEF ExecInv, Knows, Fresh, True, Active
  <1>5. ApprovalInv
    <2>1. \A e \in Execs : Approvals(e) = {}
      BY DEF Approvals, ReviewInit
    <2>2. QED
      BY <2>1, FS_EmptySet DEF ApprovalInv, ReviewInit
  <1>6. QED
    BY <1>1, <1>3, <1>4, <1>5 DEF SystemInv

-----------------------------------------------------------------------------
\* Theorems.

\* The inductive invariant of the composed system.
THEOREM SystemInvariant == SystemSpec => []SystemInv
  <1>1. SystemInv /\ ExecNext /\ UNCHANGED reviewVars => SystemInv'
    BY ExecsKeepSystem, CrashKeepsSystem DEF ExecNext, ExecAction
  <1>2. SystemInv /\ [SystemNext]_allVars => SystemInv'
    BY <1>1, ReviewsKeepSystem, TickKeepsSystem, StutterKeepsSystem DEF SystemNext
  <1>3. QED
    BY InitSystem, <1>2, PTL DEF SystemSpec

\* Every variable of the composed system keeps its type.
THEOREM SystemTypeCorrect == SystemSpec => []SystemTypeOK
  <1>1. SystemInv => SystemTypeOK
    BY DEF SystemInv, IInv, SystemTypeOK
  <1>2. QED
    BY <1>1, SystemInvariant, PTL

\* Nothing happens that is not in the audit log first, whatever fails or crashes.
THEOREM AuditComesFirst == SystemSpec => []AuditedFirst
  <1>1. SystemInv => AuditedFirst
    BY DEF SystemInv, ExecInv, Knows, Fresh, AuditedFirst
  <1>2. QED
    BY <1>1, SystemInvariant, PTL

\* A history row and a metric agree with the decision, and say that a tool was run, or
\* failed, only where one was entered; how it ended they may say wrongly.
THEOREM HistoryIsTrue == SystemSpec => []HistoryTrue
  <1>1. SystemInv => HistoryTrue
    BY DEF SystemInv, ExecInv, Knows, True, HistoryTrue
  <1>2. QED
    BY <1>1, SystemInvariant, PTL

\* A blocked tool never runs, an allowed one at most once, a held one at most once for
\* each approval in time, and nobody is asked about any other.
THEOREM DecisionsBind == SystemSpec => []DecisionBinds
  <1>1. SystemInv => DecisionBinds
    <2> SUFFICES ASSUME SystemInv, NEW e \in Execs, decision[e] = "require_hitl"
                 PROVE  toolRuns[e] <= Cardinality(Approvals(e))
      BY DEF SystemInv, ExecInv, Knows, DecisionBinds
    <2>1. IsFiniteSet(Approvals(e)) /\ Spent(e) \subseteq Approvals(e)
      BY DEF SystemInv, ApprovalInv, Spent
    <2>2. /\ Cardinality(Spent(e)) <= Cardinality(Approvals(e))
          /\ Cardinality(Spent(e)) \in Nat /\ Cardinality(Approvals(e)) \in Nat
      BY <2>1, FS_Subset, FS_CardinalityType
    <2>3. toolRuns[e] <= Cardinality(Spent(e)) /\ toolRuns[e] \in Nat
      BY DEF SystemInv, ApprovalInv, IInv, TypeOK, StoreTypeOK
    <2>4. QED
      BY <2>2, <2>3
  <1>2. QED
    BY <1>1, SystemInvariant, PTL

\* active_executions counts the executions in a worker, through errors and crashes.
THEOREM GaugeIsRight == SystemSpec => []GaugeCounts
  BY SystemInvariant, PTL DEF SystemInv

\* What reviews promise they keep while executions submit tickets and write history.
THEOREM RecordsStayTrue == SystemSpec => [](RecordedMeansDone /\ AnsweredMeansResolved)
  <1>1. SystemInv => RecordedMeansDone /\ AnsweredMeansResolved
    BY DEF SystemInv, IInv, ReviewInv, AnsweredMeansResolved
  <1>2. QED
    BY <1>1, SystemInvariant, PTL
\* Nor is anything cleared after the deadline of a ticket that /execute has submitted.
THEOREM DeadlineHoldsForAll ==
  ASSUME UtcOffset <= 0
  PROVE  SystemSpec => ClearedInTime
  <1>1. SystemInv /\ [SystemNext]_allVars => [InTime]_vars
    <2>1. SystemInv /\ ReviewNext => InTime
      BY NobodyClearedLate DEF SystemInv
    <2>2. UNCHANGED reviewVars => InTime
      BY NobodyClearedIdle
    <2>3. QED
      BY <2>1, <2>2 DEF SystemNext, allVars
  <1>2. QED
    BY <1>1, SystemInvariant, PTL DEF SystemSpec, ClearedInTime, InTime
=============================================================================
