----------------------- MODULE ApprovalWorkflowProofs -----------------------
(***************************************************************************)
(* Proofs about ApprovalWorkflow for any set of reviews and executions.    *)
(*                                                                         *)
(* What a review does to others it does through the tickets, the tool      *)
(* counts and the row locks, so the argument has two parts: what any step  *)
(* leaves true of the tickets (a ticket does not go away and does not      *)
(* become pending again, a run is not undone, a lock is let go only by its *)
(* holder), and what a review knows of its own ticket where it stands.     *)
(***************************************************************************)
EXTENDS ApprovalWorkflow, TLAPS

USE HoursAssumption, NoReviewAssumption

\* The lines between the flush and the end of the transaction.
Holding == {"locked", "running", "ran", "flushed"}

HasRun(q) == verdict[q] = "approved" /\ rpc[q] \in {"running", "ran", "flushed"}

LockInv == \A q \in Reviews : rpc[q] \in Holding => rowLock[target[q]] = q

\* What a review knows while it is under way, and when it has been answered.
ReviewInv ==
  \A q \in Reviews :
    /\ rpc[q] \in InFlight =>
         verdict[q] \in Resolved /\ tickets[target[q]].status # "none"
    /\ rpc[q] \in {"found", "locked", "running", "ran"} => verdict[q] = "approved"
    /\ HasRun(q) => toolRuns[target[q]] > 0
    /\ output[q] # "none" =>
         verdict[q] = "approved" /\ rpc[q] \in {"ran", "flushed", "committed", "done"}
    /\ rpc[q] = "committed" \/ reply[q] \in {"200", "409", "410"} =>
         tickets[target[q]].status \in Resolved

DeadlineInv ==
  \A e \in Execs : tickets[e].status # "none" =>
    tickets[e].expires_at = tickets[e].created_at + UtcOffset + EXPIRY_HOURS

IInv == TypeOK /\ LockInv /\ ReviewInv /\ RecordedMeansDone /\ DeadlineInv

-----------------------------------------------------------------------------

\* The step of the review q, whichever it is.
ReviewStep(q) == Receive(q) \/ Step(q) \/ CommitUnacknowledged(q) \/ Fail(q)

\* A new ticket is a ticket.
LEMMA TicketTypes ==
  ASSUME clock \in Nat
  PROVE  NoTicket \in Ticket /\ NewTicket \in Ticket
  BY DEF NoTicket, NewTicket, Ticket, Resolved

\* What a verdict does to a ticket.
LEMMA WriteFacts ==
  ASSUME NEW t \in Ticket, NEW v \in Resolved
  PROVE  /\ Write(t, v) \in Ticket
         /\ Write(t, v).status = v
         /\ Write(t, v).approved_at = (t.approved_at \/ v = "approved")
         /\ Write(t, v).rejected_at = (t.rejected_at \/ v = "rejected")
         /\ Write(t, v).created_at = t.created_at
         /\ Write(t, v).expires_at = t.expires_at
  BY DEF Write, Ticket, Resolved

\* Unlock lets go of the locks of q alone.
LEMMA UnlockFacts ==
  ASSUME TypeOK, NEW q \in Reviews, Unlock(q)
  PROVE  /\ rowLock' \in [Execs -> Reviews \union {NoReview}]
         /\ \A e \in Execs : rowLock[e] # q => rowLock'[e] = rowLock[e]
  BY DEF Unlock, TypeOK

\* A step of a review keeps the types.
\* A step of a review keeps the types.
\* A step of a review keeps the types.
\* A step of a review keeps the types.
\* A step of a review keeps the types.
\* A step of a review keeps the types.
\* A step of a review keeps the types.
\* A step of a review keeps the types.
\* A step of a review keeps the types.
\* A step of a review keeps the types.
\* A step of a review keeps the types.
\* A step of a review keeps the types.
\* A step of a review keeps the types.
\* A step of a review keeps the types.
\* A step of a review keeps the types.
\* A step of a review keeps the types.
\* A step of a review keeps the types.
\* A step of a review keeps the types.
\* A step of a review keeps the types.
\* A step of a review keeps the types.
\* A step of a review keeps the types.
\* A step of a review keeps the types.
\* A step of a review keeps the types.
\* A step of a review keeps the types.
\* A step of a review keeps the types.
\* A step of a review keeps the types.
\* A step of a review keeps the types.
\* A step of a review keeps the types.
\* A step of a review keeps the types.
\* A step of a review keeps the types.
\* A step of a review keeps the types.
\* A step of a review keeps the types.
\* A step of a review keeps the types.
\* A step of a review keeps the types.
\* A step of a review keeps the types.
\* A step of a review keeps the types.
\* A step of a review keeps the types.
LEMMA TypeStep ==
  ASSUME TypeOK, ReviewInv, NEW q \in Reviews, ReviewStep(q)
  PROVE  TypeOK'
  <1> USE DEF TypeOK, StoreTypeOK, InFlight, Resolved, HistoryStatus
  <1>1. CASE Receive(q)
    BY <1>1 DEF Receive, Goto, storeVars
  <1>2. CASE Find(q)
    BY <1>2 DEF Find, VerdictOf, Goto, Answer, storeVars
  <1>3. CASE CheckDeadline(q)
    BY <1>3 DEF CheckDeadline, Goto, storeVars
  <1>4. CASE Flush(q)
    BY <1>4 DEF Flush, Goto, storeVars
  <1>5. CASE StartTool(q)
    BY <1>5 DEF StartTool, Goto
  <1>6. CASE FinishTool(q)
    BY <1>6 DEF FinishTool, Goto, storeVars
  <1>7. CASE FindRecord(q)
    BY <1>7 DEF FindRecord, Goto, storeVars
  <1>8. CASE Commit(q) \/ CommitUnacknowledged(q)
    <2>1. verdict[q] \in Resolved /\ target[q] \in Execs
      BY <1>8 DEF Commit, CommitUnacknowledged, WriteBoth, ReviewInv
    <2>2. Write(tickets[target[q]], verdict[q]) \in Ticket
      BY <2>1, WriteFacts
    <2>3. tickets' \in [Execs -> Ticket] /\ history' \in [Execs -> HistoryStatus]
      BY <1>8, <2>1, <2>2 DEF Commit, CommitUnacknowledged, WriteBoth
    <2>4. rowLock' \in [Execs -> Reviews \union {NoReview}]
      BY <1>8, UnlockFacts DEF Commit, CommitUnacknowledged, WriteBoth
    <2>5. QED
      BY <1>8, <2>3, <2>4 DEF Commit, CommitUnacknowledged, WriteBoth, Goto, Answer
  <1>9. CASE Respond(q)
    BY <1>9 DEF Respond, Answer, Goto, storeVars
  <1>10. CASE Fail(q)
    BY <1>10, UnlockFacts DEF Fail, Answer, Goto, storeVars
  <1>11. QED
    BY <1>1, <1>2, <1>3, <1>4, <1>5, <1>6, <1>7, <1>8, <1>9, <1>10 DEF ReviewStep, Step

\* A step of one review leaves the others where they are.
LEMMA OthersStay ==
  ASSUME TypeOK, NEW q \in Reviews, ReviewStep(q), NEW p \in Reviews, p # q
  PROVE  /\ rpc'[p] = rpc[p]
         /\ verdict'[p] = verdict[p]
         /\ output'[p] = output[p]
         /\ reply'[p] = reply[p]
         /\ target' = target
  <1> USE DEF TypeOK, Goto, Answer
  <1>1. CASE Receive(q) \/ Find(q) \/ CheckDeadline(q) \/ Flush(q)
    BY <1>1 DEF Receive, Find, CheckDeadline, Flush
  <1>2. CASE StartTool(q) \/ FinishTool(q) \/ FindRecord(q)
    BY <1>2 DEF StartTool, FinishTool, FindRecord
  <1>3. CASE Commit(q) \/ CommitUnacknowledged(q) \/ Respond(q) \/ Fail(q)
    BY <1>3 DEF Commit, CommitUnacknowledged, WriteBoth, Respond, Fail
  <1>4. QED
    BY <1>1, <1>2, <1>3 DEF ReviewStep, Step

\* What any step of a review leaves true of every ticket.
LEMMA TicketsAdvance ==
  ASSUME IInv, NEW q \in Reviews, ReviewStep(q), NEW e \in Execs
  PROVE  /\ tickets'[e].status = "none" <=> tickets[e].status = "none"
         /\ tickets[e].status \in Resolved => tickets'[e].status \in Resolved
         /\ toolRuns[e] > 0 => toolRuns'[e] > 0
         /\ tickets'[e].created_at = tickets[e].created_at
         /\ tickets'[e].expires_at = tickets[e].expires_at
         /\ rowLock[e] # NoReview /\ rowLock[e] # q => rowLock'[e] = rowLock[e]
  <1> USE DEF IInv, TypeOK, StoreTypeOK, storeVars
  <1>1. CASE Commit(q) \/ CommitUnacknowledged(q)
    <2>1. verdict[q] \in Resolved /\ target[q] \in Execs /\ tickets[target[q]] \in Ticket
          /\ tickets[target[q]].status # "none"
      BY <1>1 DEF Commit, CommitUnacknowledged, WriteBoth, ReviewInv, InFlight
    <2>2. /\ tickets' = [tickets EXCEPT ![target[q]] = Write(@, verdict[q])]
          /\ toolRuns' = toolRuns
          /\ Unlock(q)
      BY <1>1 DEF Commit, CommitUnacknowledged, WriteBoth
    <2>3. CASE e = target[q]
      BY <2>1, <2>2, <2>3, WriteFacts, UnlockFacts DEF Resolved
    <2>4. CASE e # target[q]
      BY <2>2, <2>4, UnlockFacts
    <2>5. QED
      BY <2>3, <2>4
  <1>2. CASE Receive(q) \/ Find(q) \/ CheckDeadline(q) \/ FinishTool(q) \/ FindRecord(q) \/ Respond(q)
    BY <1>2 DEF Receive, Find, CheckDeadline, FinishTool, FindRecord, Respond
  <1>3. CASE Flush(q)
    BY <1>3 DEF Flush
  <1>4. CASE StartTool(q)
    BY <1>4 DEF StartTool
  <1>5. CASE Fail(q)
    BY <1>5, UnlockFacts DEF Fail
  <1>6. QED
    BY <1>1, <1>2, <1>3, <1>4, <1>5 DEF ReviewStep, Step

\* Only the holder of the row's lock is between its flush and the end of its
\* transaction.
LEMMA LockStep ==
  ASSUME IInv, NEW q \in Reviews, ReviewStep(q)
  PROVE  LockInv'
  <1> SUFFICES ASSUME NEW p \in Reviews, rpc'[p] \in Holding
               PROVE  rowLock'[target'[p]] = p
    BY DEF LockInv
  <1>1. target'[p] = target[p] /\ target[p] \in Execs
    BY DEF ReviewStep, Step, Receive, Find, CheckDeadline, Flush, StartTool, FinishTool,
      FindRecord, Commit, CommitUnacknowledged, WriteBoth, Respond, Fail, IInv, TypeOK
  <1>2. CASE p # q
    BY <1>1, <1>2, OthersStay, TicketsAdvance DEF IInv, TypeOK, LockInv
  <1>3. CASE p = q
    <2> USE <1>1, <1>3 DEF IInv, TypeOK, LockInv, Holding, Goto, Answer
    <2>1. CASE Receive(q) \/ Find(q) \/ CheckDeadline(q) \/ Respond(q) \/ Fail(q)
      BY <2>1 DEF Receive, Find, CheckDeadline, Respond, Fail
    <2>2. CASE Flush(q)
      BY <2>2 DEF Flush
    <2>3. CASE StartTool(q) \/ FinishTool(q) \/ FindRecord(q)
      BY <2>3 DEF StartTool, FinishTool, FindRecord
    <2>4. CASE Commit(q) \/ CommitUnacknowledged(q)
      BY <2>4 DEF Commit, CommitUnacknowledged, WriteBoth
    <2>5. QED
      BY <2>1, <2>2, <2>3, <2>4 DEF ReviewStep, Step
  <1>4. QED
    BY <1>2, <1>3

\* What a review knows of its ticket stays true through the steps of the others, and
\* its own steps add no more than what they have seen.
LEMMA ReviewInvStep ==
  ASSUME IInv, NEW q \in Reviews, ReviewStep(q)
  PROVE  ReviewInv'
  <1> DEFINE Knows(p) ==
        /\ rpc[p] \in InFlight =>
             verdict[p] \in Resolved /\ tickets[target[p]].status # "none"
        /\ rpc[p] \in {"found", "locked", "running", "ran"} => verdict[p] = "approved"
        /\ HasRun(p) => toolRuns[target[p]] > 0
        /\ output[p] # "none" =>
             verdict[p] = "approved" /\ rpc[p] \in {"ran", "flushed", "committed", "done"}
        /\ rpc[p] = "committed" \/ reply[p] \in {"200", "409", "410"} =>
             tickets[target[p]].status \in Resolved
  <1> SUFFICES ASSUME NEW p \in Reviews PROVE Knows(p)'
    BY DEF ReviewInv
  <1>1. Knows(p) /\ Knows(q) /\ target[p] \in Execs /\ target[q] \in Execs
    BY DEF IInv, ReviewInv, TypeOK
  <1>2. CASE p # q
    BY <1>1, <1>2, OthersStay, TicketsAdvance DEF IInv, HasRun
  <1>3. CASE p = q
    <2> USE <1>1, <1>3 DEF IInv, TypeOK, HasRun, Goto, Answer
    <2>1. CASE Receive(q) \/ Respond(q) \/ Fail(q)
      BY <2>1 DEF Receive, Respond, Fail, InFlight, storeVars
    <2>2. CASE Find(q)
      BY <2>2 DEF Find, VerdictOf, InFlight, Resolved, storeVars
    <2>3. CASE CheckDeadline(q)
      BY <2>3 DEF CheckDeadline, InFlight, Resolved, storeVars
    <2>4. CASE Flush(q)
      BY <2>4 DEF Flush, InFlight, storeVars
    <2>5. CASE StartTool(q)
      BY <2>5 DEF StartTool, InFlight, StoreTypeOK
    <2>6. CASE FinishTool(q) \/ FindRecord(q)
      BY <2>6 DEF FinishTool, FindRecord, InFlight, storeVars
    <2>7. CASE Commit(q) \/ CommitUnacknowledged(q)
      <3>1. tickets'[target[q]].status = verdict[q] /\ verdict[q] \in Resolved
        BY <2>7, WriteFacts DEF Commit, CommitUnacknowledged, WriteBoth, StoreTypeOK, InFlight
      <3>2. QED
        BY <2>7, <3>1 DEF Commit, CommitUnacknowledged, WriteBoth, InFlight
    <2>8. QED
      BY <2>1, <2>2, <2>3, <2>4, <2>5, <2>6, <2>7 DEF ReviewStep, Step
  <1>4. QED
    BY <1>2, <1>3

\* What is on record was done: only a commit writes tickets and history, and the
\* review that commits an approval has run the tool.
LEMMA RecordedStep ==
  ASSUME IInv, NEW q \in Reviews, ReviewStep(q)
  PROVE  RecordedMeansDone'
  <1> USE DEF IInv, TypeOK, StoreTypeOK
  <1>1. CASE Commit(q) \/ CommitUnacknowledged(q)
    <2>1. /\ rpc[q] = "flushed"
          /\ tickets' = [tickets EXCEPT ![target[q]] = Write(@, verdict[q])]
          /\ history' = [history EXCEPT ![target[q]] = IF output[q] = "none" THEN @ ELSE output[q]]
          /\ toolRuns' = toolRuns
      BY <1>1 DEF Commit, CommitUnacknowledged, WriteBoth
    <2>2. /\ verdict[q] \in Resolved
          /\ tickets[target[q]].status # "none"
          /\ verdict[q] = "approved" => toolRuns[target[q]] > 0
          /\ output[q] # "none" => verdict[q] = "approved"
      BY <2>1 DEF ReviewInv, InFlight, HasRun
    <2> SUFFICES ASSUME NEW e \in Execs, tickets'[e].status # "none"
                 PROVE  /\ tickets'[e].approved_at => toolRuns'[e] > 0
                        /\ tickets'[e].status = "approved" => tickets'[e].approved_at
                        /\ tickets'[e].status = "rejected" => tickets'[e].rejected_at
                        /\ history'[e] \in {"executed", "failed"} => tickets'[e].approved_at
      BY DEF RecordedMeansDone
    <2>3. CASE e = target[q]
      <3>1. /\ tickets'[e].status = verdict[q]
            /\ tickets'[e].approved_at = (tickets[e].approved_at \/ verdict[q] = "approved")
            /\ tickets'[e].rejected_at = (tickets[e].rejected_at \/ verdict[q] = "rejected")
        BY <2>1, <2>2, <2>3, WriteFacts
      <3>2. tickets[e].approved_at => toolRuns[e] > 0
        BY <2>2, <2>3 DEF RecordedMeansDone
      <3>3. history[e] \in {"executed", "failed"} => tickets[e].approved_at
        BY <2>2, <2>3 DEF RecordedMeansDone
      <3>4. history'[e] \in {"executed", "failed"} =>
              history[e] \in {"executed", "failed"} \/ verdict[q] = "approved"
        BY <2>1, <2>2, <2>3
      <3>5. QED
        BY <2>1, <2>2, <2>3, <3>1, <3>2, <3>3, <3>4
    <2>4. CASE e # target[q]
      BY <2>1, <2>4 DEF RecordedMeansDone
    <2>5. QED
      BY <2>3, <2>4
  <1>2. CASE StartTool(q)
    BY <1>2 DEF StartTool, RecordedMeansDone
  <1>3. CASE Receive(q) \/ Find(q) \/ CheckDeadline(q) \/ Flush(q) \/ FinishTool(q)
             \/ FindRecord(q) \/ Respond(q) \/ Fail(q)
    BY <1>3 DEF Receive, Find, CheckDeadline, Flush, FinishTool, FindRecord, Respond, Fail,
      RecordedMeansDone, storeVars
  <1>4. QED
    BY <1>1, <1>2, <1>3 DEF ReviewStep, Step

\* A step of a review leaves deadlines as they were computed.
\* A step of a review leaves deadlines as they were computed.
\* A step of a review leaves deadlines as they were computed.
\* A step of a review leaves deadlines as they were computed.
\* A step of a review leaves deadlines as they were computed.
\* A step of a review leaves deadlines as they were computed.
\* A step of a review leaves deadlines as they were computed.
\* A step of a review leaves deadlines as they were computed.
\* A step of a review leaves deadlines as they were computed.
\* A step of a review leaves deadlines as they were computed.
\* A step of a review leaves deadlines as they were computed.
\* A step of a review leaves deadlines as they were computed.
\* A step of a review leaves deadlines as they were computed.
\* A step of a review leaves deadlines as they were computed.
\* A step of a review leaves deadlines as they were computed.
\* A step of a review leaves deadlines as they were computed.
\* A step of a review leaves deadlines as they were computed.
\* A step of a review leaves deadlines as they were computed.
\* A step of a review leaves deadlines as they were computed.
\* A step of a review leaves deadlines as they were computed.
\* A step of a review leaves deadlines as they were computed.
\* A step of a review leaves deadlines as they were computed.
\* A step of a review leaves deadlines as they were computed.
\* A step of a review leaves deadlines as they were computed.
\* A step of a review leaves deadlines as they were computed.
\* A step of a review leaves deadlines as they were computed.
\* A step of a review leaves deadlines as they were computed.
\* A step of a review leaves deadlines as they were computed.
\* A step of a review leaves deadlines as they were computed.
\* A step of a review leaves deadlines as they were computed.
\* A step of a review leaves deadlines as they were computed.
\* A step of a review leaves deadlines as they were computed.
\* A step of a review leaves deadlines as they were computed.
\* A step of a review leaves deadlines as they were computed.
\* A step of a review leaves deadlines as they were computed.
\* A step of a review leaves deadlines as they were computed.
\* A step of a review leaves deadlines as they were computed.
LEMMA DeadlineStep ==
  ASSUME IInv, NEW q \in Reviews, ReviewStep(q)
  PROVE  DeadlineInv'
  BY TicketsAdvance DEF IInv, DeadlineInv

\* A step of a review keeps the invariant, whoever else shares its tables.
LEMMA ReviewsKeepInv ==
  ASSUME IInv, ReviewNext
  PROVE  IInv'
  <1>1. PICK q \in Reviews : ReviewStep(q)
    BY DEF ReviewNext, ReviewStep
  <1>2. QED
    BY <1>1, TypeStep, LockStep, ReviewInvStep, RecordedStep, DeadlineStep DEF IInv

\* The passing of time disturbs no conjunct of the invariant.
\* The passing of time disturbs no conjunct of the invariant.
\* The passing of time disturbs no conjunct of the invariant.
\* The passing of time disturbs no conjunct of the invariant.
\* The passing of time disturbs no conjunct of the invariant.
\* The passing of time disturbs no conjunct of the invariant.
\* The passing of time disturbs no conjunct of the invariant.
\* The passing of time disturbs no conjunct of the invariant.
\* The passing of time disturbs no conjunct of the invariant.
\* The passing of time disturbs no conjunct of the invariant.
\* The passing of time disturbs no conjunct of the invariant.
\* The passing of time disturbs no conjunct of the invariant.
\* The passing of time disturbs no conjunct of the invariant.
\* The passing of time disturbs no conjunct of the invariant.
\* The passing of time disturbs no conjunct of the invariant.
\* The passing of time disturbs no conjunct of the invariant.
\* The passing of time disturbs no conjunct of the invariant.
\* The passing of time disturbs no conjunct of the invariant.
\* The passing of time disturbs no conjunct of the invariant.
\* The passing of time disturbs no conjunct of the invariant.
\* The passing of time disturbs no conjunct of the invariant.
\* The passing of time disturbs no conjunct of the invariant.
\* The passing of time disturbs no conjunct of the invariant.
\* The passing of time disturbs no conjunct of the invariant.
\* The passing of time disturbs no conjunct of the invariant.
\* The passing of time disturbs no conjunct of the invariant.
\* The passing of time disturbs no conjunct of the invariant.
\* The passing of time disturbs no conjunct of the invariant.
\* The passing of time disturbs no conjunct of the invariant.
\* The passing of time disturbs no conjunct of the invariant.
\* The passing of time disturbs no conjunct of the invariant.
\* The passing of time disturbs no conjunct of the invariant.
\* The passing of time disturbs no conjunct of the invariant.
\* The passing of time disturbs no conjunct of the invariant.
\* The passing of time disturbs no conjunct of the invariant.
\* The passing of time disturbs no conjunct of the invariant.
\* The passing of time disturbs no conjunct of the invariant.
LEMMA TickKeepsInv ==
  ASSUME IInv, Tick, UNCHANGED reviewVars
  PROVE  IInv'
  BY DEF Tick, reviewVars, IInv, TypeOK, StoreTypeOK, LockInv, ReviewInv, HasRun,
    RecordedMeansDone, DeadlineInv

\* Nor does a step in which nothing changes.
\* Nor does a step in which nothing changes.
\* Nor does a step in which nothing changes.
\* Nor does a step in which nothing changes.
\* Nor does a step in which nothing changes.
\* Nor does a step in which nothing changes.
\* Nor does a step in which nothing changes.
\* Nor does a step in which nothing changes.
\* Nor does a step in which nothing changes.
\* Nor does a step in which nothing changes.
\* Nor does a step in which nothing changes.
\* Nor does a step in which nothing changes.
\* Nor does a step in which nothing changes.
\* Nor does a step in which nothing changes.
\* Nor does a step in which nothing changes.
\* Nor does a step in which nothing changes.
\* Nor does a step in which nothing changes.
\* Nor does a step in which nothing changes.
\* Nor does a step in which nothing changes.
\* Nor does a step in which nothing changes.
\* Nor does a step in which nothing changes.
\* Nor does a step in which nothing changes.
\* Nor does a step in which nothing changes.
\* Nor does a step in which nothing changes.
\* Nor does a step in which nothing changes.
\* Nor does a step in which nothing changes.
\* Nor does a step in which nothing changes.
\* Nor does a step in which nothing changes.
\* Nor does a step in which nothing changes.
\* Nor does a step in which nothing changes.
\* Nor does a step in which nothing changes.
\* Nor does a step in which nothing changes.
\* Nor does a step in which nothing changes.
\* Nor does a step in which nothing changes.
\* Nor does a step in which nothing changes.
\* Nor does a step in which nothing changes.
\* Nor does a step in which nothing changes.
LEMMA StutterKeepsInv ==
  ASSUME IInv, UNCHANGED vars
  PROVE  IInv'
  BY DEF vars, storeVars, reviewVars, IInv, TypeOK, StoreTypeOK, LockInv, ReviewInv, HasRun,
    RecordedMeansDone, DeadlineInv

\* Nobody has found a ticket or locked a row at the start.
\* Nobody has found a ticket or locked a row at the start.
\* Nobody has found a ticket or locked a row at the start.
\* Nobody has found a ticket or locked a row at the start.
\* Nobody has found a ticket or locked a row at the start.
\* Nobody has found a ticket or locked a row at the start.
\* Nobody has found a ticket or locked a row at the start.
\* Nobody has found a ticket or locked a row at the start.
\* Nobody has found a ticket or locked a row at the start.
\* Nobody has found a ticket or locked a row at the start.
\* Nobody has found a ticket or locked a row at the start.
\* Nobody has found a ticket or locked a row at the start.
\* Nobody has found a ticket or locked a row at the start.
\* Nobody has found a ticket or locked a row at the start.
\* Nobody has found a ticket or locked a row at the start.
\* Nobody has found a ticket or locked a row at the start.
\* Nobody has found a ticket or locked a row at the start.
\* Nobody has found a ticket or locked a row at the start.
\* Nobody has found a ticket or locked a row at the start.
\* Nobody has found a ticket or locked a row at the start.
\* Nobody has found a ticket or locked a row at the start.
\* Nobody has found a ticket or locked a row at the start.
\* Nobody has found a ticket or locked a row at the start.
\* Nobody has found a ticket or locked a row at the start.
\* Nobody has found a ticket or locked a row at the start.
\* Nobody has found a ticket or locked a row at the start.
\* Nobody has found a ticket or locked a row at the start.
\* Nobody has found a ticket or locked a row at the start.
\* Nobody has found a ticket or locked a row at the start.
\* Nobody has found a ticket or locked a row at the start.
\* Nobody has found a ticket or locked a row at the start.
\* Nobody has found a ticket or locked a row at the start.
\* Nobody has found a ticket or locked a row at the start.
\* Nobody has found a ticket or locked a row at the start.
\* Nobody has found a ticket or locked a row at the start.
\* Nobody has found a ticket or locked a row at the start.
\* Nobody has found a ticket or locked a row at the start.
LEMMA InitInv == Init => IInv
  <1> SUFFICES ASSUME Init PROVE IInv
    OBVIOUS
  <1> USE DEF Init, ReviewInit
  <1>1. NoTicket \in Ticket /\ NewTicket \in Ticket
    BY TicketTypes
  <1>2. TypeOK
    BY <1>1 DEF TypeOK, StoreTypeOK, HistoryStatus
  <1>3. LockInv /\ ReviewInv
    BY DEF LockInv, ReviewInv, HasRun, Holding, InFlight
  <1>4. \A e \in Execs : tickets[e].status # "none" => tickets[e] = NewTicket
    BY DEF NoTicket
  <1>5. RecordedMeansDone /\ DeadlineInv
    BY <1>4 DEF RecordedMeansDone, DeadlineInv, NewTicket
  <1>6. QED
    BY <1>2, <1>3, <1>5 DEF IInv

\* The inductive invariant.
THEOREM InductiveInvariant == Spec => []IInv
  <1>1. IInv /\ [Next]_vars => IInv'
    BY ReviewsKeepInv, TickKeepsInv, StutterKeepsInv DEF Next
  <1>2. QED
    BY InitInv, <1>1, PTL DEF Spec

\* Every variable keeps its type.
THEOREM TypeCorrect == Spec => []TypeOK
  BY InductiveInvariant, PTL DEF IInv

\* approved_at implies that the tool was entered, a history of executed or failed
\* that the ticket was approved, through crashes and concurrent verdicts.
THEOREM RecordsAreTrue == Spec => []RecordedMeansDone
  BY InductiveInvariant, PTL DEF IInv

\* A ticket is resolved once one review was answered 200, 409 or 410, whatever other
\* reviews of it are still under way.
THEOREM AnswersAreFinal == Spec => []AnsweredMeansResolved
  <1>1. IInv => AnsweredMeansResolved
    BY DEF IInv, ReviewInv, AnsweredMeansResolved
  <1>2. QED
    BY <1>1, InductiveInvariant, PTL

-----------------------------------------------------------------------------

\* A step by which nothing is cleared more than EXPIRY_HOURS after its submission.
InTime ==
  \A e \in Execs :
    clock > tickets[e].created_at + EXPIRY_HOURS => Cleared(e)' \subseteq Cleared(e)

\* The deadline that an approval is held against is at most EXPIRY_HOURS after the
\* submission.
LEMMA NobodyClearedLate ==
  ASSUME UtcOffset <= 0, IInv, ReviewNext
  PROVE  InTime
  <1> SUFFICES ASSUME NEW e \in Execs, clock > tickets[e].created_at + EXPIRY_HOURS,
                      NEW p \in Cleared(e)'
               PROVE  p \in Cleared(e)
    BY DEF InTime
  <1>1. PICK q \in Reviews : ReviewStep(q)
    BY DEF ReviewNext, ReviewStep
  <1>2. /\ p \in Reviews /\ target'[p] = e /\ verdict'[p] = "approved"
        /\ rpc'[p] \in InFlight \ {"found"}
    BY DEF Cleared
  <1>3. CASE p # q
    BY <1>1, <1>2, <1>3, OthersStay DEF Cleared, IInv
  <1>4. CASE p = q
    <2> USE <1>2, <1>4 DEF IInv, TypeOK, Goto, Answer, InFlight, Cleared
    <2>1. CASE CheckDeadline(q)
      <3>1. /\ rpc[q] = "found" /\ target[q] = e
            /\ ~(tickets[e].expires_at < clock)
        BY <2>1 DEF CheckDeadline
      <3>2. tickets[e].expires_at = tickets[e].created_at + UtcOffset + EXPIRY_HOURS
        BY <3>1 DEF DeadlineInv, ReviewInv
      <3>3. clock \in Int /\ tickets[e].created_at \in Int
        BY DEF StoreTypeOK, Ticket
      <3>4. QED
        BY <3>1, <3>2, <3>3
    <2>2. CASE Receive(q) \/ Find(q)
      BY <2>2 DEF Receive, Find, VerdictOf
    <2>3. CASE Flush(q) \/ StartTool(q) \/ FinishTool(q) \/ FindRecord(q)
      BY <2>3 DEF Flush, StartTool, FinishTool, FindRecord
    <2>4. CASE Commit(q) \/ CommitUnacknowledged(q) \/ Respond(q) \/ Fail(q)
      BY <2>4 DEF Commit, CommitUnacknowledged, WriteBoth, Respond, Fail
    <2>5. QED
      BY <1>1, <2>1, <2>2, <2>3, <2>4 DEF ReviewStep, Step
  <1>5. QED
    BY <1>3, <1>4

\* Only a step of a review clears one.
LEMMA NobodyClearedIdle ==
  ASSUME UNCHANGED reviewVars
  PROVE  InTime
  BY DEF reviewVars, Cleared, InTime

\* On a server whose local time is not ahead of UTC, no approval is cleared more than
\* EXPIRY_HOURS after the ticket was submitted.
THEOREM DeadlineHolds ==
  ASSUME UtcOffset <= 0
  PROVE  Spec => ClearedInTime
  <1>1. IInv /\ [Next]_vars => [InTime]_vars
    BY NobodyClearedLate, NobodyClearedIdle DEF Next
  <1>2. QED
    BY <1>1, InductiveInvariant, PTL DEF Spec, ClearedInTime, InTime

-----------------------------------------------------------------------------

\* The board as seen through the workflow.
Contenders == [e \in Execs |-> ReviewsAt(e, InFlight)]
Ran == [e \in Execs |->
          {q \in ReviewsAt(e, {"running", "ran", "flushed"}) : verdict[q] = "approved"}]
StatusOf == [e \in Execs |-> tickets[e].status]

\* A workflow nobody has started is a board nobody contends for.
\* A workflow nobody has started is a board nobody contends for.
\* A workflow nobody has started is a board nobody contends for.
\* A workflow nobody has started is a board nobody contends for.
\* A workflow nobody has started is a board nobody contends for.
\* A workflow nobody has started is a board nobody contends for.
\* A workflow nobody has started is a board nobody contends for.
\* A workflow nobody has started is a board nobody contends for.
\* A workflow nobody has started is a board nobody contends for.
\* A workflow nobody has started is a board nobody contends for.
\* A workflow nobody has started is a board nobody contends for.
\* A workflow nobody has started is a board nobody contends for.
\* A workflow nobody has started is a board nobody contends for.
\* A workflow nobody has started is a board nobody contends for.
\* A workflow nobody has started is a board nobody contends for.
\* A workflow nobody has started is a board nobody contends for.
\* A workflow nobody has started is a board nobody contends for.
\* A workflow nobody has started is a board nobody contends for.
\* A workflow nobody has started is a board nobody contends for.
\* A workflow nobody has started is a board nobody contends for.
\* A workflow nobody has started is a board nobody contends for.
\* A workflow nobody has started is a board nobody contends for.
\* A workflow nobody has started is a board nobody contends for.
\* A workflow nobody has started is a board nobody contends for.
\* A workflow nobody has started is a board nobody contends for.
\* A workflow nobody has started is a board nobody contends for.
\* A workflow nobody has started is a board nobody contends for.
\* A workflow nobody has started is a board nobody contends for.
\* A workflow nobody has started is a board nobody contends for.
\* A workflow nobody has started is a board nobody contends for.
\* A workflow nobody has started is a board nobody contends for.
\* A workflow nobody has started is a board nobody contends for.
\* A workflow nobody has started is a board nobody contends for.
\* A workflow nobody has started is a board nobody contends for.
\* A workflow nobody has started is a board nobody contends for.
\* A workflow nobody has started is a board nobody contends for.
\* A workflow nobody has started is a board nobody contends for.
LEMMA BoardInit == Init => Board!Init
  <1> SUFFICES ASSUME Init PROVE Board!Init
    OBVIOUS
  <1> USE DEF Init, ReviewInit
  <1>1. StatusOf \in [Execs -> {"none", "pending"}]
    BY DEF StatusOf, NoTicket, NewTicket
  <1>2. Contenders = [e \in Execs |-> {}]
    BY DEF Contenders, ReviewsAt, InFlight
  <1>3. Ran = [e \in Execs |-> {}]
    BY DEF Ran, ReviewsAt
  <1>4. QED
    BY <1>1, <1>2, <1>3 DEF Board!Init, StatusOf, Contenders, Ran

\* What a step of q does to who contends and who has run, in terms of where q goes.
LEMMA BoardMoves ==
  ASSUME IInv, NEW q \in Reviews, ReviewStep(q)
  PROVE  LET e == target[q] IN
         /\ rpc[q] \in InFlight /\ rpc'[q] \in InFlight => Contenders' = Contenders
         /\ rpc[q] \notin InFlight /\ rpc'[q] \notin InFlight => Contenders' = Contenders
         /\ rpc[q] \notin InFlight /\ rpc'[q] \in InFlight =>
              Contenders' = [Contenders EXCEPT ![e] = @ \union {q}]
         /\ rpc[q] \in InFlight /\ rpc'[q] \notin InFlight =>
              Contenders' = [Contenders EXCEPT ![e] = @ \ {q}]
         /\ HasRun(q)' = HasRun(q) => Ran' = Ran
         /\ ~HasRun(q)' => Ran' = [Ran EXCEPT ![e] = @ \ {q}]
         /\ HasRun(q)' => Ran' = [Ran EXCEPT ![e] = @ \union {q}]
  <1>1. /\ target' = target
        /\ target[q] \in Execs
        /\ \A p \in Reviews : p # q => rpc'[p] = rpc[p] /\ verdict'[p] = verdict[p]
    <2>1. target' = target
      BY DEF ReviewStep, Step, Receive, Find, CheckDeadline, Flush, StartTool, FinishTool,
        FindRecord, Commit, CommitUnacknowledged, WriteBoth, Respond, Fail
    <2>2. QED
      BY <2>1, OthersStay DEF IInv, TypeOK
  <1> DEFINE C(e) == ReviewsAt(e, InFlight)
             R(e) == {p \in ReviewsAt(e, {"running", "ran", "flushed"}) : verdict[p] = "approved"}
  <1>2. \A e \in Execs : \A p \in Reviews :
          /\ p \in C(e) <=> target[p] = e /\ rpc[p] \in InFlight
          /\ p \in R(e) <=> target[p] = e /\ HasRun(p)
    BY DEF ReviewsAt, HasRun
  <1>3. \A e \in Execs : \A p \in Reviews :
          /\ p \in C(e)' <=> target[p] = e /\ rpc'[p] \in InFlight
          /\ p \in R(e)' <=> target[p] = e /\ HasRun(p)'
    BY <1>1 DEF ReviewsAt, HasRun
  <1>4. \A e \in Execs : /\ C(e) \subseteq Reviews /\ C(e)' \subseteq Reviews
                         /\ R(e) \subseteq Reviews /\ R(e)' \subseteq Reviews
    BY DEF ReviewsAt
  <1>5. \A p \in Reviews : p # q => (HasRun(p)' <=> HasRun(p))
    BY <1>1 DEF HasRun
  <1>6. \A e \in Execs : e # target[q] => C(e)' = C(e) /\ R(e)' = R(e)
    BY <1>1, <1>2, <1>3, <1>4, <1>5
  <1> HIDE DEF C, R
  <1>7. /\ Contenders = [e \in Execs |-> C(e)] /\ Contenders' = [e \in Execs |-> C(e)']
        /\ Ran = [e \in Execs |-> R(e)] /\ Ran' = [e \in Execs |-> R(e)']
    BY DEF Contenders, Ran, C, R
  <1> DEFINE e == target[q]
  <1>8. /\ (rpc[q] \in InFlight <=> rpc'[q] \in InFlight) => C(e)' = C(e)
        /\ rpc'[q] \in InFlight => C(e)' = C(e) \union {q}
        /\ rpc'[q] \notin InFlight => C(e)' = C(e) \ {q}
    BY <1>1, <1>2, <1>3, <1>4
  <1>9. /\ (HasRun(q) <=> HasRun(q)') => R(e)' = R(e)
        /\ HasRun(q)' => R(e)' = R(e) \union {q}
        /\ ~HasRun(q)' => R(e)' = R(e) \ {q}
    BY <1>1, <1>2, <1>3, <1>4, <1>5
  <1>10. QED
    BY <1>1, <1>6, <1>7, <1>8, <1>9

\* Nobody else has run while q holds the lock.
LEMMA RunAlone ==
  ASSUME IInv, NEW q \in Reviews, rpc[q] = "locked"
  PROVE  Ran[target[q]] = {}
  <1>1. ASSUME NEW p \in Ran[target[q]] PROVE FALSE
    <2>1. p \in Reviews /\ target[p] = target[q] /\ rpc[p] \in {"running", "ran", "flushed"}
      BY <1>1 DEF Ran, ReviewsAt, IInv, TypeOK
    <2>2. rowLock[target[q]] = p /\ rowLock[target[q]] = q
      BY <2>1 DEF IInv, LockInv, Holding
    <2>3. QED
      BY <2>1, <2>2
  <1>2. QED
    BY <1>1

\* The steps of the board, for any ticket and reviewer.
\* The steps of the board, for any ticket and reviewer.
\* The steps of the board, for any ticket and reviewer.
\* The steps of the board, for any ticket and reviewer.
\* The steps of the board, for any ticket and reviewer.
\* The steps of the board, for any ticket and reviewer.
\* The steps of the board, for any ticket and reviewer.
\* The steps of the board, for any ticket and reviewer.
\* The steps of the board, for any ticket and reviewer.
\* The steps of the board, for any ticket and reviewer.
\* The steps of the board, for any ticket and reviewer.
\* The steps of the board, for any ticket and reviewer.
\* The steps of the board, for any ticket and reviewer.
\* The steps of the board, for any ticket and reviewer.
\* The steps of the board, for any ticket and reviewer.
\* The steps of the board, for any ticket and reviewer.
\* The steps of the board, for any ticket and reviewer.
\* The steps of the board, for any ticket and reviewer.
\* The steps of the board, for any ticket and reviewer.
\* The steps of the board, for any ticket and reviewer.
\* The steps of the board, for any ticket and reviewer.
\* The steps of the board, for any ticket and reviewer.
\* The steps of the board, for any ticket and reviewer.
\* The steps of the board, for any ticket and reviewer.
\* The steps of the board, for any ticket and reviewer.
\* The steps of the board, for any ticket and reviewer.
\* The steps of the board, for any ticket and reviewer.
\* The steps of the board, for any ticket and reviewer.
\* The steps of the board, for any ticket and reviewer.
\* The steps of the board, for any ticket and reviewer.
\* The steps of the board, for any ticket and reviewer.
\* The steps of the board, for any ticket and reviewer.
\* The steps of the board, for any ticket and reviewer.
\* The steps of the board, for any ticket and reviewer.
\* The steps of the board, for any ticket and reviewer.
\* The steps of the board, for any ticket and reviewer.
\* The steps of the board, for any ticket and reviewer.
LEMMA BoardNext ==
  ASSUME NEW e \in Execs, NEW q \in Reviews,
         Board!Contend(e, q) \/ Board!Run(e, q) \/ Board!Resolve(e, q) \/ Board!Withdraw(e, q)
  PROVE  Board!Next
  BY DEF Board!Next

\* A step of a review is one step of the board on its ticket, or none.
\* A step of a review is one step of the board on its ticket, or none.
\* A step of a review is one step of the board on its ticket, or none.
\* A step of a review is one step of the board on its ticket, or none.
\* A step of a review is one step of the board on its ticket, or none.
\* A step of a review is one step of the board on its ticket, or none.
\* A step of a review is one step of the board on its ticket, or none.
\* A step of a review is one step of the board on its ticket, or none.
\* A step of a review is one step of the board on its ticket, or none.
\* A step of a review is one step of the board on its ticket, or none.
\* A step of a review is one step of the board on its ticket, or none.
\* A step of a review is one step of the board on its ticket, or none.
\* A step of a review is one step of the board on its ticket, or none.
\* A step of a review is one step of the board on its ticket, or none.
\* A step of a review is one step of the board on its ticket, or none.
\* A step of a review is one step of the board on its ticket, or none.
\* A step of a review is one step of the board on its ticket, or none.
\* A step of a review is one step of the board on its ticket, or none.
\* A step of a review is one step of the board on its ticket, or none.
\* A step of a review is one step of the board on its ticket, or none.
\* A step of a review is one step of the board on its ticket, or none.
\* A step of a review is one step of the board on its ticket, or none.
\* A step of a review is one step of the board on its ticket, or none.
\* A step of a review is one step of the board on its ticket, or none.
\* A step of a review is one step of the board on its ticket, or none.
\* A step of a review is one step of the board on its ticket, or none.
\* A step of a review is one step of the board on its ticket, or none.
\* A step of a review is one step of the board on its ticket, or none.
\* A step of a review is one step of the board on its ticket, or none.
\* A step of a review is one step of the board on its ticket, or none.
\* A step of a review is one step of the board on its ticket, or none.
\* A step of a review is one step of the board on its ticket, or none.
\* A step of a review is one step of the board on its ticket, or none.
\* A step of a review is one step of the board on its ticket, or none.
\* A step of a review is one step of the board on its ticket, or none.
\* A step of a review is one step of the board on its ticket, or none.
\* A step of a review is one step of the board on its ticket, or none.
LEMMA BoardStep ==
  ASSUME IInv, NEW q \in Reviews, ReviewStep(q)
  PROVE  Board!Next \/ UNCHANGED Board!vars
  <1>0. PICK e \in Execs : e = target[q]
    BY DEF IInv, TypeOK
  <1> USE <1>0
  <1> USE DEF IInv, TypeOK, StoreTypeOK
  <1>1. e \in Execs
    OBVIOUS
  <1>2. CASE Receive(q) \/ CheckDeadline(q) \/ Flush(q) \/ FinishTool(q) \/ FindRecord(q)
             \/ Respond(q) \/ (Fail(q) /\ rpc[q] \notin InFlight)
             \/ (Find(q) /\ tickets[e].status # "pending")
    <2>1. (rpc[q] \in InFlight <=> rpc'[q] \in InFlight) /\ HasRun(q)' = HasRun(q)
      BY <1>2 DEF Receive, CheckDeadline, Flush, FinishTool, FindRecord, Respond, Fail, Find,
        InFlight, HasRun, Goto, Answer, Resolved
    <2>2. StatusOf' = StatusOf /\ toolRuns' = toolRuns
      BY <1>2 DEF Receive, CheckDeadline, Flush, FinishTool, FindRecord, Respond, Fail, Find,
        storeVars, StatusOf
    <2>3. QED
      BY <2>1, <2>2, BoardMoves DEF Board!vars, StatusOf, Contenders, Ran
  <1>3. CASE Find(q) /\ tickets[e].status = "pending"
    <2>1. /\ rpc[q] \notin InFlight /\ rpc'[q] \in InFlight
          /\ HasRun(q)' = HasRun(q)
          /\ StatusOf' = StatusOf /\ StatusOf[e] = "pending" /\ toolRuns' = toolRuns
      BY <1>3 DEF Find, InFlight, HasRun, Goto, Answer, Resolved, storeVars, StatusOf
    <2>2. Board!Contend(e, q)
      BY <2>1, BoardMoves DEF Board!Contend, StatusOf, Contenders, Ran
    <2>3. QED
      BY <1>1, <2>2, BoardNext
  <1>4. CASE StartTool(q)
    <2>1. /\ rpc[q] \in InFlight /\ rpc'[q] \in InFlight
          /\ HasRun(q)'
          /\ StatusOf' = StatusOf
          /\ toolRuns' = [toolRuns EXCEPT ![e] = @ + 1]
      BY <1>4 DEF StartTool, InFlight, HasRun, Goto, StatusOf, ReviewInv
    <2>2. Contenders' = Contenders /\ q \in Contenders[e]
      BY <2>1, BoardMoves DEF Contenders, ReviewsAt
    <2>3. Ran[e] = {}
      BY <1>4, RunAlone DEF StartTool
    <2>4. Ran' = [Ran EXCEPT ![e] = {q}]
      <3>1. Ran' = [Ran EXCEPT ![e] = Ran[e] \union {q}]
        BY <2>1, BoardMoves
      <3>2. QED
        BY <2>3, <3>1
    <2>5. Board!Run(e, q)
      BY <2>1, <2>2, <2>3, <2>4 DEF Board!Run, StatusOf, Contenders, Ran
    <2>6. QED
      BY <1>1, <2>5, BoardNext
  <1>5. ASSUME rpc[q] \in InFlight, rpc'[q] \notin InFlight, toolRuns' = toolRuns
        PROVE  Board!Leave(e, q)
    <2>1. q \in Contenders[e]
      BY <1>5 DEF Contenders, ReviewsAt
    <2>2. ~HasRun(q)'
      BY <1>5 DEF HasRun, InFlight
    <2>3. /\ Contenders' = [Contenders EXCEPT ![e] = @ \ {q}]
          /\ Ran' = [Ran EXCEPT ![e] = @ \ {q}]
      BY <1>5, <2>2, BoardMoves
    <2>4. QED
      BY <1>5, <2>1, <2>3 DEF Board!Leave, Contenders, Ran
  <1>6. CASE Commit(q) \/ CommitUnacknowledged(q)
    <2>1. /\ rpc[q] = "flushed" /\ rpc'[q] \notin InFlight
          /\ toolRuns' = toolRuns
          /\ tickets' = [tickets EXCEPT ![e] = Write(@, verdict[q])]
      BY <1>6 DEF Commit, CommitUnacknowledged, WriteBoth, Goto, Answer, InFlight
    <2>2. Board!Leave(e, q)
      BY <2>1, <1>5 DEF InFlight
    <2>3. verdict[q] \in Resolved
      BY <2>1 DEF ReviewInv, InFlight
    <2>4. StatusOf' = [StatusOf EXCEPT ![e] = verdict[q]]
      <3>1. tickets[e] \in Ticket
        OBVIOUS
      <3>2. tickets'[e].status = verdict[q]
        BY <2>1, <2>3, <3>1, WriteFacts
      <3>3. \A d \in Execs : d # e => tickets'[d] = tickets[d]
        BY <2>1
      <3>4. QED
        BY <3>2, <3>3 DEF StatusOf
    <2>5. verdict[q] = "approved" <=> q \in Ran[e]
      BY <2>1 DEF Ran, ReviewsAt
    <2>6. Board!Resolve(e, q)
      BY <2>2, <2>3, <2>4, <2>5 DEF Board!Resolve, StatusOf, Ran, Resolved
    <2>7. QED
      BY <1>1, <2>6, BoardNext
  <1>7. CASE Fail(q) /\ rpc[q] \in InFlight
    <2>1. rpc'[q] \notin InFlight /\ toolRuns' = toolRuns /\ StatusOf' = StatusOf
      BY <1>7 DEF Fail, Answer, Goto, InFlight, storeVars, StatusOf
    <2>2. Board!Withdraw(e, q)
      BY <1>5, <1>7, <2>1 DEF Board!Withdraw, StatusOf
    <2>3. QED
      BY <1>1, <2>2, BoardNext
  <1>8. QED
    BY <1>2, <1>3, <1>4, <1>6, <1>7 DEF ReviewStep, Step

\* The workflow implements the board: a ticket is resolved by reviews that saw it
\* pending, as approved exactly by one that ran the tool, and one at a time runs it.
THEOREM WorkflowImplementsBoard == Spec => ImplementsTicketBoard
  <1>1. ASSUME IInv, ReviewNext PROVE Board!Next \/ UNCHANGED Board!vars
    BY <1>1, BoardStep DEF ReviewNext, ReviewStep
  <1>2. ASSUME (Tick /\ UNCHANGED reviewVars) \/ UNCHANGED vars PROVE UNCHANGED Board!vars
    BY <1>2 DEF Tick, vars, storeVars, reviewVars, Board!vars, ReviewsAt
  <1>3. IInv /\ [Next]_vars => [Board!Next]_(Board!vars)
    BY <1>1, <1>2 DEF Next
  <1>4. QED
    BY BoardInit, <1>3, InductiveInvariant, PTL DEF Spec, ImplementsTicketBoard, Board!Spec
=============================================================================
