---------------------------- MODULE AuditChain -----------------------------
(***************************************************************************)
(* The hash-chained audit log: PostgresAuditLogger.log                     *)
(* (app/audit/logger.py), AuditLogRepository.create and verify_integrity   *)
(* (app/database/repositories/audit_log_repository.py).                    *)
(*                                                                         *)
(* Every call of log opens a session of its own and writes one row, so a   *)
(* call is both the process and the content of its row (its correlation,   *)
(* request and execution ids are fresh UUIDs: no two rows are equal).      *)
(*                                                                         *)
(* SHA-256 is taken to be injective: a checksum is the sequence of contents*)
(* hashed into it, and None, which compute_checksum hashes as '', is <<>>. *)
(*                                                                         *)
(* The table is a function from the ids of its committed rows.  An id is    *)
(* drawn when a row is inserted and seen by others only once its row is    *)
(* committed, so ids are in the order of commits while the advisory lock   *)
(* (or the write lock of an SQLite database) is held in between, and need  *)
(* not be where it is not.  Only their order matters: the gaps that rolled-*)
(* back inserts leave on PostgreSQL change nothing.                        *)
(***************************************************************************)
EXTENDS Integers, Sequences, FiniteSetsExt

CONSTANTS
  Calls,            \* calls of log
  NoCall,           \* nobody: the lock is free
  Dialects          \* the databases considered

ASSUME NoCallAssumption == NoCall \notin Calls
ASSUME DialectsAssumption == Dialects \subseteq {"postgresql", "sqlite"}

VARIABLES
  dialect,          \* the database behind the session factory
  log,              \* the committed rows of audit_logs, by id
  drawn,            \* the last id drawn for a row
  pc,               \* where each call is
  last,             \* the checksum each call read from the last row
  id,               \* the id each call has drawn, or 0
  holder,           \* who holds the advisory lock, or SQLite's write lock
  unlocked,         \* history: the calls that went on without the advisory lock
  began             \* history: the last id in the table when each call began

vars == <<dialect, log, drawn, pc, last, id, holder, unlocked, began>>

Checksum == Seq(Calls)
NULL == <<>>

(***************************************************************************)
(* Rows and their checksums.                                               *)
(***************************************************************************)

\* Mutated forms: a checksum that takes the previous one for the content; one that
\* forgets the previous one.
compute_checksum_twice(content, prev_checksum) == Append(prev_checksum, prev_checksum)

compute_checksum_unchained(content, prev_checksum) == <<content>>

compute_checksum(content, prev_checksum) == Append(prev_checksum, content)

Row(content, prev_checksum) ==
  [content |-> content,
   prev_checksum |-> prev_checksum,
   checksum |-> compute_checksum(content, prev_checksum)]

Rows == [content : Calls, prev_checksum : Checksum, checksum : Checksum]

\* The checksum of the row with the greatest of some ids.
LastOf(rows, ids) == IF ids = {} THEN NULL ELSE rows[Max(ids)].checksum

LastChecksum(rows) == LastOf(rows, DOMAIN rows)

\* The loop variable prev_checksum of verify_integrity when it reaches row i.
PrevChecksum(rows, i) == LastOf(rows, {j \in DOMAIN rows : j < i})

\* A table with one more row.
WithRow(rows, i, row) == [j \in DOMAIN rows \union {i} |-> IF j = i THEN row ELSE rows[j]]

\* Mutated form: each row is hashed onto the prev_checksum it states itself, and
\* the links are not compared.
verify_integrity_by_row(rows) ==
  {<<i, "checksum">> : i \in {j \in DOMAIN rows :
      rows[j].checksum # compute_checksum(rows[j].content, rows[j].prev_checksum)}}

\* The errors verify_integrity reports for a table: the rows whose
\* prev_checksum is not the checksum of the row before, and those whose
\* checksum is not that of their content after the row before.
verify_integrity(rows) ==
  {<<i, "prev">> : i \in {j \in DOMAIN rows :
      rows[j].prev_checksum # PrevChecksum(rows, j)}}
  \union
  {<<i, "checksum">> : i \in {j \in DOMAIN rows :
      rows[j].checksum # compute_checksum(rows[j].content, PrevChecksum(rows, j))}}

-----------------------------------------------------------------------------

Init ==
  /\ dialect \in Dialects
  /\ log = <<>>
  /\ drawn = 0
  /\ pc = [c \in Calls |-> "idle"]
  /\ last = [c \in Calls |-> NULL]
  /\ id = [c \in Calls |-> 0]
  /\ holder = NoCall
  /\ unlocked = {}
  /\ began = [c \in Calls |-> 0]

Goto(c, label) == pc' = [pc EXCEPT ![c] = label]

\* Rolling back or committing ends the transaction and lets go of its lock.
Release(c) == holder' = IF holder = c THEN NoCall ELSE holder

\* session_factory(): the transaction begins with the first statement.
Begin(c) ==
  /\ pc[c] = "idle"
  /\ began' = [began EXCEPT ![c] = IF DOMAIN log = {} THEN 0 ELSE Max(DOMAIN log)]
  /\ Goto(c, "locking")
  /\ UNCHANGED <<dialect, log, drawn, last, id, holder, unlocked>>

\* Mutated form: pg_try_advisory_xact_lock, whose answer nobody looks at.
AcquireLock_try(c) ==
  /\ pc[c] = "locking"
  /\ dialect = "postgresql"
  /\ holder' = IF holder = NoCall THEN c ELSE holder
  /\ Goto(c, "reading")
  /\ UNCHANGED <<dialect, log, drawn, last, id, unlocked, began>>

\* SELECT pg_advisory_xact_lock(77223): waits until nobody holds it.
AcquireLock(c) ==
  /\ pc[c] = "locking"
  /\ dialect = "postgresql"
  /\ holder = NoCall
  /\ holder' = c
  /\ Goto(c, "reading")
  /\ UNCHANGED <<dialect, log, drawn, last, id, unlocked, began>>

\* The exception of the lock statement is swallowed and no transaction aborted.
GoOnUnlocked(c) ==
  /\ pc[c] = "locking"
  /\ unlocked' = unlocked \union {c}
  /\ Goto(c, "reading")
  /\ UNCHANGED <<dialect, log, drawn, last, id, holder, began>>

\* SQLite has no such function.
LockUnsupported(c) == dialect = "sqlite" /\ GoOnUnlocked(c)

\* The lock statement is the first of its session and has to get a connection; the
\* pool has none for 30 seconds, or the server refuses a new one.  Nothing was
\* begun on the server, and the next statement asks the pool again.
NoConnection(c) == dialect = "postgresql" /\ GoOnUnlocked(c)

\* Mutated form: one session for all calls, in which a flushed row is seen before
\* it is committed.
ReadLast_dirty(c) ==
  /\ pc[c] = "reading"
  /\ LET flushed == {d \in Calls : pc[d] = "committing"} IN
       IF flushed = {}
         THEN last' = [last EXCEPT ![c] = LastChecksum(log)]
         ELSE \E d \in flushed :
                last' = [last EXCEPT ![c] = Row(d, last[d]).checksum]
  /\ Goto(c, "inserting")
  /\ UNCHANGED <<dialect, log, drawn, id, holder, unlocked, began>>

\* The last committed row; under READ COMMITTED each statement sees what was
\* committed before it.
ReadLast(c) ==
  /\ pc[c] = "reading"
  /\ last' = [last EXCEPT ![c] = LastChecksum(log)]
  /\ Goto(c, "inserting")
  /\ UNCHANGED <<dialect, log, drawn, id, holder, unlocked, began>>

\* add and flush: the row gets its id and is written, and seen by nobody else until
\* the commit.  SQLite takes its write lock here and no earlier.
Insert(c) ==
  /\ pc[c] = "inserting"
  /\ IF dialect = "sqlite"
       THEN holder = NoCall /\ holder' = c
       ELSE UNCHANGED holder
  /\ drawn' = drawn + 1
  /\ id' = [id EXCEPT ![c] = drawn + 1]
  /\ Goto(c, "committing")
  /\ UNCHANGED <<dialect, log, last, unlocked, began>>

\* Mutated form: a commit that is taken for done before the row is visible.
Commit_lost(c) ==
  /\ pc[c] = "committing"
  /\ Release(c)
  /\ Goto(c, "logged")
  /\ UNCHANGED <<dialect, log, drawn, last, id, unlocked, began>>

\* Mutated form: the lock belongs to the session and outlives the transaction.
Commit_keeping_lock(c) ==
  /\ pc[c] = "committing"
  /\ log' = WithRow(log, id[c], Row(c, last[c]))
  /\ Goto(c, "logged")
  /\ UNCHANGED <<dialect, drawn, last, id, holder, unlocked, began>>

\* The commit of c takes effect.
Committed(c, label) ==
  /\ pc[c] = "committing"
  /\ log' = WithRow(log, id[c], Row(c, last[c]))
  /\ Release(c)
  /\ Goto(c, label)
  /\ UNCHANGED <<dialect, drawn, last, id, unlocked, began>>

Commit(c) == Committed(c, "logged")

\* Mutated form: a commit without an answer is tried again from the start.
CommitUnacknowledged_retried(c) == Committed(c, "locking")

\* The commit took effect but its answer was lost: log rolls back and raises.
CommitUnacknowledged(c) == Committed(c, "raised")

\* A statement fails or the worker dies: the transaction is rolled back and log
\* raises.  So it does for a lock statement that fails on PostgreSQL once it has a
\* connection (its own exception is swallowed, but the transaction is aborted and
\* the next statement raises), and for one that got none if the next gets none
\* either.
Fail(c) ==
  /\ pc[c] \in {"locking", "reading", "inserting", "committing"}
  /\ Release(c)
  /\ Goto(c, "raised")
  /\ UNCHANGED <<dialect, log, drawn, last, id, unlocked, began>>

Next ==
  \E c \in Calls :
    \/ Begin(c)
    \/ AcquireLock(c)
    \/ LockUnsupported(c)
    \/ NoConnection(c)
    \/ ReadLast(c)
    \/ Insert(c)
    \/ Commit(c)
    \/ CommitUnacknowledged(c)
    \/ Fail(c)

Spec == Init /\ [][Next]_vars

\* A call that was begun goes on: its thread is scheduled, and PostgreSQL's lock
\* queue is first come, first served, so a waiting call is not passed over for
\* ever.  An SQLite writer gets the write lock or, after the busy timeout, an
\* exception.  Nothing obliges a call to begin, a connection to be missing or any
\* other statement to fail.
Fairness ==
  \A c \in Calls :
    /\ SF_vars(AcquireLock(c))
    /\ WF_vars(LockUnsupported(c))
    /\ WF_vars(ReadLast(c))
    /\ WF_vars(Insert(c) \/ (pc[c] = "inserting" /\ Fail(c)))
    /\ WF_vars(Commit(c))

FairSpec == Spec /\ Fairness

-----------------------------------------------------------------------------

TypeOK ==
  /\ dialect \in Dialects
  /\ drawn \in Nat
  /\ DOMAIN log \subseteq 1 .. drawn
  /\ log \in [DOMAIN log -> Rows]
  /\ pc \in [Calls -> {"idle", "locking", "reading", "inserting", "committing",
                       "logged", "raised"}]
  /\ last \in [Calls -> Checksum]
  /\ id \in [Calls -> 0 .. drawn]
  /\ holder \in Calls \union {NoCall}
  /\ unlocked \subseteq Calls
  /\ began \in [Calls -> 0 .. drawn]

Locked(i) == log[i].content \notin unlocked

\* The lock does what it is taken for: whatever the interleaving of writers, their
\* rollbacks and lost acknowledgements, a row that verify_integrity accuses was
\* written by a call that went on without the lock, or comes right after the row
\* of such a call.  Where every call got the lock there is no false alarm.
ForksAreUnlocked ==
  \A error \in verify_integrity(log) :
    LET before == {j \in DOMAIN log : j < error[1]} IN
      Locked(error[1]) => before # {} /\ ~Locked(Max(before))

\* The place of row i in the order of ids.
Rank(i) == Cardinality({j \in DOMAIN log : j <= i})

\* A chain with which verify_integrity finds nothing wrong stands for its history,
\* on any database and however it was written: the checksum of row i is that of the
\* contents of exactly the rows up to i, in their order.
HeadCommitsToHistory ==
  verify_integrity(log) = {} =>
    \A i \in DOMAIN log :
      /\ Len(log[i].checksum) = Rank(i)
      /\ \A j \in DOMAIN log : j <= i => log[i].checksum[Rank(j)] = log[j].content

\* Without the lock the chain may fork, but it stays a tree: every row is hashed
\* onto nothing or onto a committed row with a smaller id, never onto one that was
\* rolled back, and carries the checksum of its own content.
ChainIsTree ==
  \A i \in DOMAIN log :
    /\ log[i].checksum = compute_checksum(log[i].content, log[i].prev_checksum)
    /\ \/ log[i].prev_checksum = NULL
       \/ \E j \in DOMAIN log : j < i /\ log[j].checksum = log[i].prev_checksum

\* A call of log that returned has its row in the table, one that has not ended
\* has none yet, and no call, however it ended, has two: the caller may run the tool
\* once log has returned.
LoggedOnce ==
  \A c \in Calls :
    /\ pc[c] = "logged" => \E i \in DOMAIN log : log[i].content = c
    /\ pc[c] \notin {"logged", "raised"} => \A i \in DOMAIN log : log[i].content # c
    /\ \A i, j \in DOMAIN log : log[i].content = c /\ log[j].content = c => i = j

\* The lock does its work and no more: every call of log comes to an end, also
\* the ones that queue behind others or behind one that failed with the lock held.
LogReturns ==
  \A c \in Calls : pc[c] = "locking" ~> pc[c] \in {"logged", "raised"}

\* "Serialize concurrent writers so the checksum chain stays consistent"
\* (audit_log_repository.py:64), on the database the lock is made for.
ChainStaysConsistent == dialect = "postgresql" => verify_integrity(log) = {}

Outcome(c) == IF pc[c] \in {"idle", "logged", "raised"} THEN pc[c] ELSE "open"

\* With or without the lock the table is the ledger of AuditLedger: rows stay as they
\* are, a call adds one at most and exactly one if it returned, and its row comes
\* after all that were there when it began.
Ledger == INSTANCE AuditLedger
            WITH entries <- [i \in DOMAIN log |-> log[i].content],
                 call <- [c \in Calls |-> Outcome(c)],
                 floor <- began

ImplementsLedger == Ledger!Spec
=============================================================================
