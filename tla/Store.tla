------------------------------- MODULE Store --------------------------------
(***************************************************************************)
(* What the handlers of /execute and of /approvals share: the tables       *)
(* hitl_requests and execution_history, the tools, and the time of day.    *)
(*                                                                         *)
(* An execution, its history row and its ticket carry the same id (routes  *)
(* submits the ticket under the execution_id), so one constant names all.  *)
(***************************************************************************)
EXTENDS Integers, FiniteSets

CONSTANTS
  Execs,            \* execution ids, fresh UUIDs drawn by /execute
  EXPIRY_HOURS,     \* HITLConfig.EXPIRY_HOURS
  UtcOffset,        \* hours the server's local time is ahead of UTC
  MaxClock          \* bound on the hours that pass

\* A UUID has 128 bits.
ASSUME ExecsAssumption == IsFiniteSet(Execs)

ASSUME HoursAssumption == EXPIRY_HOURS \in Nat /\ UtcOffset \in Int /\ MaxClock \in Nat

VARIABLES
  tickets,          \* hitl_requests
  history,          \* execution_status in execution_history, "none" without a row
  toolRuns,         \* how often executor.execute was entered for an execution
  clock             \* UTC, in hours

storeVars == <<tickets, history, toolRuns, clock>>

Resolved == {"approved", "rejected", "expired"}

\* approved_at and rejected_at: whether the column is set.
Ticket == [status : {"none", "pending"} \union Resolved,
           approved_at : BOOLEAN,
           rejected_at : BOOLEAN,
           created_at : Int,
           expires_at : Int]

NoTicket == [status |-> "none", approved_at |-> FALSE, rejected_at |-> FALSE,
             created_at |-> 0, expires_at |-> 0]

\* Mutated form: the deadline in minutes taken for hours.
NewTicket_eternal ==
  [status |-> "pending", approved_at |-> FALSE, rejected_at |-> FALSE,
   created_at |-> clock, expires_at |-> clock + 60 * EXPIRY_HOURS]

\* The row create_request adds.  _request_hitl_approval computes expires_at from
\* datetime.now(), which is local time.
NewTicket ==
  [status |-> "pending", approved_at |-> FALSE, rejected_at |-> FALSE,
   created_at |-> clock, expires_at |-> clock + UtcOffset + EXPIRY_HOURS]

HistoryStatus ==
  {"none", "blocked", "waiting_for_human", "executed", "executed_with_logging", "failed"}

StoreTypeOK ==
  /\ tickets \in [Execs -> Ticket]
  /\ history \in [Execs -> HistoryStatus]
  /\ toolRuns \in [Execs -> Nat]
  /\ clock \in 0 .. MaxClock

Tick ==
  /\ clock < MaxClock
  /\ clock' = clock + 1
  /\ UNCHANGED <<tickets, history, toolRuns>>
=============================================================================
