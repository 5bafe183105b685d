--------------------------- MODULE ConnectionPool ---------------------------
(***************************************************************************)
(* The sessions of a worker process and the pool of connections under them *)
(* (app/database/session.py; SQLAlchemy's QueuePool).                      *)
(*                                                                         *)
(* A request has the session of get_db_optional, "auth", in which its user *)
(* is looked up and which some handlers share, and perhaps one more, "own":*)
(* that of get_db or of a session_factory.  A session takes a connection   *)
(* for its first statement, gives it back when it commits, and takes one   *)
(* again for the next; it does not give back one it has only read with     *)
(* before the request is over.                                             *)
(***************************************************************************)
EXTENDS Integers, FiniteSets

CONSTANTS
  Requests,         \* requests to the worker
  PoolSize          \* POOL_SIZE + MAX_OVERFLOW

ASSUME PoolAssumption == PoolSize \in Nat \ {0}

VARIABLES
  kind,             \* the endpoint of each request
  pc,               \* the statement or call it is about to make
  held,             \* the sessions of it that have a connection
  stamp,            \* func.now() of its transaction: when it began
  clock             \* the next time of day

poolVars == <<kind, pc, held, stamp, clock>>

Sessions == {"auth", "own"}

Ended == {"done", "refused", "failed"}

PoolInit(asked) ==
  /\ kind \in asked
  /\ pc = [q \in Requests |-> "idle"]
  /\ held = [q \in Requests |-> {}]
  /\ stamp = [q \in Requests |-> 0]
  /\ clock = 1

InUse == Cardinality({x \in Requests \X Sessions : x[2] \in held[x[1]]})

Goto(q, label) == pc' = [pc EXCEPT ![q] = label]

\* The session whose statement a request is about to execute.
OwnLabels == {"audit", "read_last", "ticket", "count", "find_report", "upsert", "serialize",
              "find", "lookup", "persist", "reread", "keep"}
AuthLabels == {"auth", "history", "metric", "summary", "search"}

SessionAt(label) == IF label \in OwnLabels THEN "own" ELSE "auth"

Waits(q) == pc[q] \in OwnLabels \union AuthLabels /\ SessionAt(pc[q]) \notin held[q]

Connected(q) == pc[q] \in OwnLabels \union AuthLabels /\ SessionAt(pc[q]) \in held[q]

\* The transactions of which func.now() goes into a row.
Stamped(q) == pc[q] \in {"metric", "find", "keep"} \/ (pc[q] = "count" /\ kind[q] = "report")

\* A session takes a connection, at its first statement or the first after a commit.
Connect(q) ==
  /\ Waits(q) /\ InUse < PoolSize
  /\ held' = [held EXCEPT ![q] = @ \union {SessionAt(pc[q])}]
  /\ IF Stamped(q)
       THEN stamp' = [stamp EXCEPT ![q] = clock] /\ clock' = clock + 1
       ELSE UNCHANGED <<stamp, clock>>
  /\ UNCHANGED <<kind, pc>>

\* The request goes on with its connections as they are.
Proceed(q, label) == Goto(q, label) /\ UNCHANGED <<kind, held, stamp, clock>>

\* Its session commits or is closed.
Committed(q, label) ==
  /\ Goto(q, label)
  /\ held' = [held EXCEPT ![q] = @ \ {SessionAt(pc[q])}]
  /\ UNCHANGED <<kind, stamp, clock>>

\* The request is over, and FastAPI closes its sessions.
Over(q, label) ==
  /\ Goto(q, label)
  /\ held' = [held EXCEPT ![q] = {}]
  /\ stamp' = [stamp EXCEPT ![q] = 0]
  /\ UNCHANGED <<kind, clock>>

\* What a request does when it cannot have a connection: for the lock of the audit log it
\* goes on without, and has to have one for the next statement; to submit a ticket, to
\* record history and a metric may fail; a chat tells of an error instead of one.
Raised(q) ==
  CASE pc[q] = "ticket" -> Committed(q, "history")
    [] pc[q] = "history" -> Committed(q, "metric")
    [] pc[q] = "metric" -> Committed(q, "recorded")
    [] pc[q] = "audit" -> Proceed(q, "read_last")
    [] pc[q] = "read_last" /\ kind[q] = "chat" -> Over(q, "done")
    [] OTHER -> Over(q, "failed")

\* Mutated form: a pool without a timeout.
TimesOut_never(q) == FALSE /\ UNCHANGED poolVars

\* No connection came back within the 30 seconds of the pool.
TimesOut(q) ==
  /\ Waits(q) /\ InUse = PoolSize
  /\ Raised(q)
=============================================================================
