-------------------------- MODULE ApprovalWorkflow --------------------------
(***************************************************************************)
(* The handlers approve_request, reject_request and expire_request of      *)
(* app/api/approval_routes.py over HITLRequestRepository, run concurrently *)
(* by a thread pool in several workers.                                    *)
(*                                                                         *)
(* Each request has a session of its own, at READ COMMITTED.  The ticket is*)
(* read once: the repository's approve, reject and expire query it again,  *)
(* but the session hands back the instance it already holds, with the      *)
(* status read first.  The flush in them updates the row and so takes its  *)
(* lock, waiting for a transaction that has it; the wait over, the update  *)
(* goes through whatever the other one wrote.  The lock is kept until the  *)
(* transaction ends, while the tool runs too.                              *)
(***************************************************************************)
EXTENDS Store

CONSTANTS
  Reviews,          \* requests to resolve a ticket
  NoReview          \* nobody: the row is not locked

ASSUME NoReviewAssumption == NoReview \notin Reviews

VARIABLES
  rpc,              \* where each request is
  op,               \* the endpoint it goes to: approve, reject or expire
  target,           \* the ticket it is about
  verdict,          \* the status it is going to write
  output,           \* the execution_status it is going to write to the history
  reply,            \* the HTTP status it was answered with
  rowLock           \* the request whose transaction has updated the ticket's row

reviewVars == <<rpc, op, target, verdict, output, reply, rowLock>>
vars == <<storeVars, reviewVars>>

\* Between the answer of the first query and the end of the transaction.
InFlight == {"found", "checked", "locked", "running", "ran", "flushed"}

ReviewInit ==
  /\ rpc = [q \in Reviews |-> "idle"]
  /\ op \in [Reviews -> {"approve", "reject", "expire"}]
  /\ target \in [Reviews -> Execs]
  /\ verdict = [q \in Reviews |-> "none"]
  /\ output = [q \in Reviews |-> "none"]
  /\ reply = [q \in Reviews |-> "none"]
  /\ rowLock = [e \in Execs |-> NoReview]

\* Tickets that /execute has left behind: submitted or not, with the history row
\* or, if that transaction failed, without it.
Init ==
  /\ clock = 0
  /\ tickets \in [Execs -> {NoTicket, NewTicket}]
  /\ history \in [Execs -> {"none", "waiting_for_human"}]
  /\ toolRuns = [e \in Execs |-> 0]
  /\ ReviewInit

Goto(q, label) == rpc' = [rpc EXCEPT ![q] = label]

Answer(q, code) ==
  /\ Goto(q, "done")
  /\ reply' = [reply EXCEPT ![q] = code]

Receive(q) ==
  /\ rpc[q] = "idle"
  /\ Goto(q, "received")
  /\ UNCHANGED <<storeVars, op, target, verdict, output, reply, rowLock>>

VerdictOf == [approve |-> "approved", reject |-> "rejected", expire |-> "expired"]

\* find_by_request_id and the checks of its answer; only approve has a deadline
\* still to look at.
Find(q) ==
  LET status == tickets[target[q]].status IN
  /\ rpc[q] = "received"
  /\ \/ /\ status = "none"
        /\ Answer(q, "404")
        /\ UNCHANGED verdict
     \/ /\ status \in Resolved
        /\ Answer(q, "409")
        /\ UNCHANGED verdict
     \/ /\ status = "pending"
        /\ Goto(q, IF op[q] = "approve" THEN "found" ELSE "checked")
        /\ verdict' = [verdict EXCEPT ![q] = VerdictOf[op[q]]]
        /\ UNCHANGED reply
  /\ UNCHANGED <<storeVars, op, target, output, rowLock>>

\* Mutated form: the operation's name for the status.
CheckDeadline_op(q) ==
  /\ rpc[q] = "found"
  /\ verdict' = [verdict EXCEPT ![q] = op[q]]
  /\ Goto(q, "checked")
  /\ UNCHANGED <<storeVars, op, target, output, reply, rowLock>>

\* A request past its deadline is expired instead of approved.
CheckDeadline(q) ==
  /\ rpc[q] = "found"
  /\ verdict' = [verdict EXCEPT ![q] =
                   IF tickets[target[q]].expires_at < clock THEN "expired" ELSE @]
  /\ Goto(q, "checked")
  /\ UNCHANGED <<storeVars, op, target, output, reply, rowLock>>

\* Mutated forms: an update that does not wait for the row's lock; a verdict that
\* is committed before the tool runs, as PgApprovalQueue.approve would.
Flush_unlocked(q) ==
  /\ rpc[q] = "checked"
  /\ Goto(q, IF verdict[q] = "approved" THEN "locked" ELSE "flushed")
  /\ UNCHANGED <<storeVars, op, target, verdict, output, reply, rowLock>>

Flush_committed(q) ==
  /\ rpc[q] = "checked"
  /\ tickets' = [tickets EXCEPT ![target[q]].status = verdict[q],
                                ![target[q]].approved_at = verdict[q] = "approved",
                                ![target[q]].rejected_at = verdict[q] = "rejected"]
  /\ Goto(q, IF verdict[q] = "approved" THEN "locked" ELSE "flushed")
  /\ UNCHANGED <<history, toolRuns, clock, op, target, verdict, output, reply, rowLock>>

\* The flush of repo.approve, repo.reject or repo.expire.
Flush(q) ==
  /\ rpc[q] = "checked"
  /\ rowLock[target[q]] = NoReview
  /\ rowLock' = [rowLock EXCEPT ![target[q]] = q]
  /\ Goto(q, IF verdict[q] = "approved" THEN "locked" ELSE "flushed")
  /\ UNCHANGED <<storeVars, op, target, verdict, output, reply>>

\* executor.execute(model.request_data): the tool is entered ...
StartTool(q) ==
  /\ rpc[q] = "locked"
  /\ toolRuns' = [toolRuns EXCEPT ![target[q]] = @ + 1]
  /\ Goto(q, "running")
  /\ UNCHANGED <<tickets, history, clock, op, target, verdict, output, reply, rowLock>>

\* ... and returns, with status "error" or another.
FinishTool(q) ==
  /\ rpc[q] = "running"
  /\ \E result \in {"executed", "failed"} : output' = [output EXCEPT ![q] = result]
  /\ Goto(q, "ran")
  /\ UNCHANGED <<storeVars, op, target, verdict, reply, rowLock>>

\* The query for the history row: without one there is nothing to update.
FindRecord(q) ==
  /\ rpc[q] = "ran"
  /\ output' = [output EXCEPT ![q] = IF history[target[q]] = "none" THEN "none" ELSE @]
  /\ Goto(q, "flushed")
  /\ UNCHANGED <<storeVars, op, target, verdict, reply, rowLock>>

\* The columns a verdict writes; the others keep what a concurrent request wrote.
Write(ticket, v) ==
  [ticket EXCEPT !.status = v,
                 !.approved_at = IF v = "approved" THEN TRUE ELSE @,
                 !.rejected_at = IF v = "rejected" THEN TRUE ELSE @]

Unlock(q) == rowLock' = [e \in Execs |-> IF rowLock[e] = q THEN NoReview ELSE rowLock[e]]

\* db.commit(): ticket and history row change together.
WriteBoth(q) ==
  /\ rpc[q] = "flushed"
  /\ tickets' = [tickets EXCEPT ![target[q]] = Write(@, verdict[q])]
  /\ history' = [history EXCEPT ![target[q]] = IF output[q] = "none" THEN @ ELSE output[q]]
  /\ Unlock(q)
  /\ UNCHANGED <<toolRuns, clock, op, target, verdict, output>>

\* Mutated form: without db.commit() closing the session rolls back.
Commit_omitted(q) ==
  /\ rpc[q] = "flushed"
  /\ Unlock(q)
  /\ Goto(q, "committed")
  /\ UNCHANGED <<storeVars, op, target, verdict, output, reply>>

Commit(q) ==
  /\ WriteBoth(q)
  /\ Goto(q, "committed")
  /\ UNCHANGED reply

\* The commit took effect but its answer was lost.
CommitUnacknowledged(q) ==
  /\ WriteBoth(q)
  /\ Answer(q, "500")

\* approve answers 410 if it expired the ticket.
Respond(q) ==
  /\ rpc[q] = "committed"
  /\ Answer(q, IF op[q] = "approve" /\ verdict[q] = "expired" THEN "410" ELSE "200")
  /\ UNCHANGED <<storeVars, op, target, verdict, output, rowLock>>

\* Mutated form: the session of a request that failed stays open.
Fail_open(q) ==
  /\ rpc[q] \in InFlight \union {"received", "committed"}
  /\ Answer(q, "500")
  /\ UNCHANGED <<storeVars, op, target, verdict, output, rowLock>>

\* A statement fails, the tool raises or the worker dies: closing the session
\* rolls the transaction back.  What the tool did stays done.
Fail(q) ==
  /\ rpc[q] \in InFlight \union {"received", "committed"}
  /\ Unlock(q)
  /\ Answer(q, "500")
  /\ UNCHANGED <<storeVars, op, target, verdict, output>>

Step(q) ==
  \/ Find(q)
  \/ CheckDeadline(q)
  \/ Flush(q)
  \/ StartTool(q)
  \/ FinishTool(q)
  \/ FindRecord(q)
  \/ Commit(q)
  \/ Respond(q)

ReviewNext ==
  \E q \in Reviews : Receive(q) \/ Step(q) \/ CommitUnacknowledged(q) \/ Fail(q)

Next == ReviewNext \/ (Tick /\ UNCHANGED reviewVars)

Spec == Init /\ [][Next]_vars

\* A request that was received is worked on, its tool returns or raises, and
\* PostgreSQL grants a row lock in the order of the waiting transactions.
ReviewFairness == \A q \in Reviews : WF_vars(Step(q)) /\ SF_vars(Flush(q))

FairSpec == Spec /\ ReviewFairness

-----------------------------------------------------------------------------

TypeOK ==
  /\ StoreTypeOK
  /\ rpc \in [Reviews -> {"idle", "received", "committed", "done"} \union InFlight]
  /\ op \in [Reviews -> {"approve", "reject", "expire"}]
  /\ target \in [Reviews -> Execs]
  /\ verdict \in [Reviews -> {"none"} \union Resolved]
  /\ output \in [Reviews -> {"none", "executed", "failed"}]
  /\ reply \in [Reviews -> {"none", "200", "404", "409", "410", "500"}]
  /\ rowLock \in [Execs -> Reviews \union {NoReview}]

\* What is on record was done: approved_at is set only after the tool was entered,
\* the status has its column, and the history of a ticket says executed or failed
\* only if the ticket was approved.  Neither a crash between the tool and the
\* commit nor a concurrent verdict can leave one without the other.
RecordedMeansDone ==
  \A e \in Execs : tickets[e].status # "none" =>
    /\ tickets[e].approved_at => toolRuns[e] > 0
    /\ tickets[e].status = "approved" => tickets[e].approved_at
    /\ tickets[e].status = "rejected" => tickets[e].rejected_at
    /\ history[e] \in {"executed", "failed"} => tickets[e].approved_at

\* A reviewer who was answered 200, 409 or 410 may take the ticket for settled: it
\* is never pending again, whatever the requests still in flight do.
AnsweredMeansResolved ==
  \A q \in Reviews :
    reply[q] \in {"200", "409", "410"} => tickets[target[q]].status \in Resolved

\* The approvals of a ticket that have passed the deadline check and not ended.
Cleared(e) ==
  {q \in Reviews : target[q] = e /\ verdict[q] = "approved" /\ rpc[q] \in InFlight \ {"found"}}

\* Nobody starts to release an action more than EXPIRY_HOURS after it was submitted.
ClearedInTime ==
  [][\A e \in Execs :
       clock > tickets[e].created_at + EXPIRY_HOURS => Cleared(e)' \subseteq Cleared(e)]_vars

\* Every review is answered: row locks are handed on also by reviews that fail, and
\* no two requests wait for each other.
ReviewAnswered == \A q \in Reviews : rpc[q] = "received" ~> rpc[q] = "done"

\* A ticket is resolved once: the second of two reviews conflicts and gets 409
\* (tests/api/test_approval_api.py).
ResolvedOnce ==
  \A p, q \in Reviews :
    reply[p] = "200" /\ reply[q] = "200" /\ target[p] = target[q] => p = q

\* The workflow implements TicketBoard.
ReviewsAt(e, labels) == {q \in Reviews : target[q] = e /\ rpc[q] \in labels}

Board == INSTANCE TicketBoard WITH
  status <- [e \in Execs |-> tickets[e].status],
  runs <- toolRuns,
  contenders <- [e \in Execs |-> ReviewsAt(e, InFlight)],
  ran <- [e \in Execs |->
            {q \in ReviewsAt(e, {"running", "ran", "flushed"}) : verdict[q] = "approved"}]

ImplementsTicketBoard == Board!Spec
=============================================================================
