---------------------------- MODULE Orchestrator ----------------------------
(***************************************************************************)
(* /execute and /approvals over the same tables and tools: an action that  *)
(* a policy holds back is suspended by the one and released by the other.  *)
(* The ticket is committed in a transaction of its own before the request's*)
(* history row is, so a review may overtake the rest of the request.       *)
(***************************************************************************)
EXTENDS ExecutePipeline, ApprovalWorkflow

allVars == <<storeVars, execVars, reviewVars>>

SystemInit ==
  /\ clock = 0
  /\ tickets = [e \in Execs |-> NoTicket]
  /\ history = [e \in Execs |-> "none"]
  /\ toolRuns = [e \in Execs |-> 0]
  /\ ExecInit
  /\ ReviewInit

SystemNext ==
  \/ ExecNext /\ UNCHANGED reviewVars
  \/ ReviewNext /\ UNCHANGED execVars
  \/ Tick /\ UNCHANGED <<execVars, reviewVars>>

SystemSpec == SystemInit /\ [][SystemNext]_allVars

FairSystemSpec == SystemSpec /\ ExecFairness

-----------------------------------------------------------------------------

SystemTypeOK == TypeOK /\ ExecTypeOK

\* The approvals of a ticket that were cleared to run its tool.
Approvals(e) == {q \in Reviews : target[q] = e /\ verdict[q] = "approved"}

\* The policy's decision binds: a blocked action's tool never runs, the tool of one that
\* is allowed, or whose decision nobody has heard of, runs at most once and nobody is
\* asked, a held one's at most once for each review that found its ticket pending and in
\* time.
DecisionBinds ==
  \A e \in Execs :
    /\ decision[e] \in {"none", "block"} => toolRuns[e] = 0
    /\ decision[e] \in {"allow", "log_and_allow", "unheard_of"} => toolRuns[e] <= 1
    /\ decision[e] = "require_hitl" => toolRuns[e] <= Cardinality(Approvals(e))
    /\ tickets[e] # NoTicket => decision[e] = "require_hitl"

\* An approved action whose request and reviews are all done is no longer waiting
\* for a human: "once an auditor reviews and approves the request, the orchestrator
\* retrieves the original parameters, executes the tool, logs the outcome, and marks
\* the ticket as `executed`" (README.md).
ReleasedIsRecorded ==
  \A e \in Execs :
    /\ xpc[e] = "answered"
    /\ tickets[e].status = "approved"
    /\ ReviewsAt(e, InFlight) = {}
    => history[e] # "waiting_for_human"
=============================================================================
