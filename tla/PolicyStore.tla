---------------------------- MODULE PolicyStore -----------------------------
(***************************************************************************)
(* The table of policies: the handlers create_policy, update_policy,       *)
(* delete_policy, toggle_policy and import_policies_endpoint of            *)
(* app/api/routes.py, and on_startup of app/main.py, which writes the rules*)
(* of the YAML file into the table and wires the database into its worker  *)
(* if nothing of that fails.                                               *)
(*                                                                         *)
(* Each job is one transaction at READ COMMITTED: a query sees what is     *)
(* committed and what the job has staged itself.  rule_id is unique, so a  *)
(* statement that changes a rule waits for the transaction that has an     *)
(* uncommitted change of it.  A row stands for its contents by the job that*)
(* wrote them.                                                             *)
(***************************************************************************)
EXTENDS Integers, Sequences

CONSTANTS
  Rules,            \* rule ids
  YamlRules,        \* the rules of the YAML file, a sequence of rule ids
  Workers,          \* worker processes that start
  Admins,           \* requests to the endpoints
  Requests,         \* what they may ask, see Op
  MaxFaults,        \* bound: jobs the database may fail
  NoRow,            \* no such row
  Untouched,        \* a rule its transaction has not changed
  Nobody            \* nobody holds the lock

Jobs == Workers \union Admins

ASSUME JobsAssumption == Workers \intersect Admins = {} /\ Nobody \notin Jobs /\ "yaml" \notin Jobs
ASSUME YamlAssumption == YamlRules \in Seq(Rules)
ASSUME FaultsAssumption == MaxFaults \in Nat

VARIABLES
  table,            \* committed rows
  schema,           \* whether create_all has created the tables
  lastId,           \* per rule: the id of its last row; ids only tell these apart
  staged,           \* per job and rule: the row it will commit
  lock,             \* per rule: the job with an uncommitted change of it
  pc,               \* where each job is
  op,               \* what it is to do
  todo,             \* the rules it has still to do, the current one first
  seen,             \* the instance its session holds for the current rule
  wired,            \* workers that use the database
  faults            \* jobs the database failed, or that died, so far

vars == <<table, schema, lastId, staged, lock, pc, op, todo, seen, wired, faults>>

Row == [id : Nat, version : Nat, enabled : {"on", "off"}, by : Jobs \union {"yaml"}]

ASSUME NoRowAssumption == NoRow \notin Row /\ Untouched \notin Row \union {NoRow}

\* An operation, the rules it is about, and the switch it asks for, if any.
Op == [kind : {"create", "update", "delete", "toggle", "import", "sync"},
       rules : Seq(Rules),
       enabled : {"on", "off", "keep"}]

ASSUME RequestsAssumption ==
  \A o \in Requests :
    /\ o \in Op /\ o.kind # "sync" /\ o.rules # <<>>
    /\ o.kind # "import" => Len(o.rules) = 1
    /\ o.kind \in {"create", "toggle", "import"} => o.enabled # "keep"

Sync == [kind |-> "sync", rules |-> YamlRules, enabled |-> "keep"]

\* Ways a job ends: done; refused with 404 or 409; raised, an error status or, at
\* startup, the fallback.
Ended == {"done", "refused", "raised"}

\* A row as sync_from_yaml leaves it in an earlier life of the service.
Synced == [id |-> 1, version |-> 1, enabled |-> "on", by |-> "yaml"]

Init ==
  /\ schema \in BOOLEAN
  /\ table = [r \in Rules |-> IF schema /\ \E i \in DOMAIN YamlRules : YamlRules[i] = r
                               THEN Synced ELSE NoRow]
  /\ lastId = [r \in Rules |-> IF table[r] = NoRow THEN 0 ELSE 1]
  /\ staged = [j \in Jobs |-> [r \in Rules |-> Untouched]]
  /\ lock = [r \in Rules |-> Nobody]
  /\ pc = [j \in Jobs |-> "idle"]
  /\ op = [j \in Jobs |-> Sync]
  /\ todo = [j \in Jobs |-> <<>>]
  /\ seen = [j \in Jobs |-> NoRow]
  /\ wired = {}
  /\ faults = 0

Goto(j, label) == pc' = [pc EXCEPT ![j] = label]

Rule(j) == Head(todo[j])

\* What a query in the job's transaction finds.
View(j, r) == IF staged[j][r] = Untouched THEN table[r] ELSE staged[j][r]

\* What a transaction holds in the database goes with its end.
Free(j) ==
  /\ staged' = [staged EXCEPT ![j] = [r \in Rules |-> Untouched]]
  /\ lock' = [r \in Rules |-> IF lock[r] = j THEN Nobody ELSE lock[r]]

\* A job that is over is forgotten, with its session.
End(j, label) ==
  /\ Goto(j, label)
  /\ op' = [op EXCEPT ![j] = Sync]
  /\ todo' = [todo EXCEPT ![j] = <<>>]
  /\ seen' = [seen EXCEPT ![j] = NoRow]

\* Mutated form: the session is neither rolled back nor closed.
Abort_leaking(j) == End(j, "raised") /\ UNCHANGED <<staged, lock>>

\* A transaction that fails is rolled back.
Abort(j) == Free(j) /\ End(j, "raised")

-----------------------------------------------------------------------------
\* Startup: create_all looks for the tables and creates those it misses; where two
\* workers miss them, the later one's CREATE TABLE fails.
Start(w) ==
  /\ pc[w] = "idle"
  /\ todo' = [todo EXCEPT ![w] = YamlRules]
  /\ Goto(w, CASE ~schema -> "creating"
               [] schema /\ YamlRules # <<>> -> "find"
               [] OTHER -> "committed")
  /\ UNCHANGED <<table, schema, lastId, staged, lock, op, seen, wired, faults>>

CreateTables(w) ==
  /\ pc[w] = "creating"
  /\ schema' = TRUE
  /\ IF schema
       THEN Abort(w)
       ELSE /\ Goto(w, IF YamlRules = <<>> THEN "committed" ELSE "find")
            /\ UNCHANGED <<staged, lock, op, todo, seen>>
  /\ UNCHANGED <<table, lastId, wired, faults>>

\* What validate_policy, or the reading of an imported text, may find fault with.
Validated == {"create", "import"}

\* Once a worker has started it serves requests, whether wired or not.  A request is
\* validated before the database is asked anything.
Submit(a) ==
  /\ pc[a] = "idle"
  /\ schema /\ \E w \in Workers : pc[w] \in Ended
  /\ \E o \in Requests :
       \/ /\ op' = [op EXCEPT ![a] = o]
          /\ todo' = [todo EXCEPT ![a] = o.rules]
          /\ Goto(a, "find")
          /\ UNCHANGED seen
       \/ o.kind \in Validated /\ End(a, "refused")
  /\ UNCHANGED <<table, schema, lastId, staged, lock, wired, faults>>

-----------------------------------------------------------------------------
\* Mutated form: the startup does not look for the rules before it inserts them.
Find_blind(j) ==
  /\ pc[j] = "find" /\ op[j].kind = "sync"
  /\ Goto(j, "write")
  /\ UNCHANGED <<table, schema, lastId, staged, lock, op, todo, seen, wired, faults>>

\* find_by_rule_id, or the query of delete_by_rule_id or upsert_from_rule.
Find(j) ==
  LET row == View(j, Rule(j))
      refused == IF row = NoRow THEN op[j].kind \in {"update", "toggle", "delete"}
                                ELSE op[j].kind = "create"
      requeried == row # NoRow /\ op[j].kind \in {"update", "toggle", "import"}
  IN
  /\ pc[j] = "find"
  /\ IF refused
       THEN End(j, "refused")
       ELSE /\ seen' = [seen EXCEPT ![j] = row]
            /\ Goto(j, IF requeried THEN "again" ELSE "write")
            /\ UNCHANGED <<op, todo>>
  /\ UNCHANGED <<table, schema, lastId, staged, lock, wired, faults>>

\* On to the next rule; the last one stays current.
Advance(j) ==
  IF Len(todo[j]) = 1
    THEN Goto(j, "commit") /\ UNCHANGED todo
    ELSE Goto(j, "find") /\ todo' = [todo EXCEPT ![j] = Tail(@)]

\* update_policy queries again.  A row that is still there is the instance the
\* session has, with the values read first; for one that is gone it returns None,
\* which none of its callers looks at.
FindAgain(j) ==
  LET row == View(j, Rule(j)) IN
  /\ pc[j] = "again"
  /\ IF row = NoRow
       THEN seen' = [seen EXCEPT ![j] = NoRow] /\ Advance(j)
       ELSE /\ seen' = [seen EXCEPT ![j] = IF row.id = @.id THEN @ ELSE row]
            /\ Goto(j, "write")
            /\ UNCHANGED todo
  /\ UNCHANGED <<table, schema, lastId, staged, lock, op, wired, faults>>

Stage(j, row) ==
  /\ staged' = [staged EXCEPT ![j][Rule(j)] = row]
  /\ lock' = [lock EXCEPT ![Rule(j)] = j]
  /\ Advance(j)

MayWrite(j) == pc[j] = "write" /\ lock[Rule(j)] \in {j, Nobody}

\* Mutated form: a new rule has the switch its file asks for, also where it asks for none.
Insert_asked(j) ==
  LET row == [id |-> lastId[Rule(j)] + 1, version |-> 1, by |-> j, enabled |-> op[j].enabled] IN
  /\ MayWrite(j) /\ op[j].kind \in {"create", "import", "sync"} /\ seen[j] = NoRow
  /\ View(j, Rule(j)) = NoRow
  /\ Stage(j, row)
  /\ UNCHANGED <<table, schema, lastId, op, seen, wired, faults>>

\* create_policy, and upsert_from_rule of a rule that it did not find.  If the rule is
\* there by now the unique index refuses it.
Insert(j) ==
  LET row == [id |-> lastId[Rule(j)] + 1, version |-> 1, by |-> j,
              enabled |-> IF op[j].enabled = "off" THEN "off" ELSE "on"]
  IN
  /\ MayWrite(j) /\ op[j].kind \in {"create", "import", "sync"} /\ seen[j] = NoRow
  /\ IF View(j, Rule(j)) = NoRow
       THEN /\ Stage(j, row)
            /\ seen' = [seen EXCEPT ![j] = row]
            /\ UNCHANGED op
       ELSE Abort(j)
  /\ UNCHANGED <<table, schema, lastId, wired, faults>>

\* Mutated forms: an UPDATE that sets every column of the instance; a version counted
\* in Python.
Revision_whole(j, current) ==
  [current EXCEPT !.version = @ + 1,
                  !.by = j,
                  !.enabled = IF op[j].enabled = "keep" THEN seen[j].enabled
                              ELSE op[j].enabled]

Revision_counted(j, current) ==
  [current EXCEPT !.version = seen[j].version + 1, !.by = j]

\* The columns an UPDATE sets are those whose value differs from the instance's; the
\* version is counted by the database, on the row as it is once the lock is there.
Revision(j, current) ==
  [current EXCEPT !.version = @ + 1,
                  !.by = IF op[j].kind = "toggle" THEN @ ELSE j,
                  !.enabled = IF op[j].enabled \in {"keep", seen[j].enabled} THEN @
                              ELSE op[j].enabled]

\* update_policy, and upsert_from_rule of a rule that it found.  If the row is gone by
\* now the UPDATE matches none and the session raises StaleDataError.
Modify(j) ==
  LET current == View(j, Rule(j)) IN
  /\ MayWrite(j) /\ op[j].kind \notin {"create", "delete"} /\ seen[j] # NoRow
  /\ IF current # NoRow /\ current.id = seen[j].id
       THEN Stage(j, Revision(j, current)) /\ UNCHANGED <<op, seen>>
       ELSE Abort(j)
  /\ UNCHANGED <<table, schema, lastId, wired, faults>>

\* A row that is gone already is only warned about.
Delete(j) ==
  LET current == View(j, Rule(j)) IN
  /\ MayWrite(j) /\ op[j].kind = "delete"
  /\ IF current # NoRow /\ current.id = seen[j].id
       THEN Stage(j, NoRow)
       ELSE Advance(j) /\ UNCHANGED <<staged, lock>>
  /\ UNCHANGED <<table, schema, lastId, op, seen, wired, faults>>

\* Mutated form: a commit after each rule.
Commit_each(j) ==
  /\ pc[j] \in {"find", "commit"}
  /\ table' = [r \in Rules |-> View(j, r)]
  /\ lastId' = [r \in Rules |-> IF table'[r] = NoRow THEN lastId[r] ELSE table'[r].id]
  /\ Free(j)
  /\ Goto(j, IF pc[j] = "commit" THEN "committed" ELSE "find")
  /\ UNCHANGED <<schema, op, todo, seen, wired, faults>>

Commit(j) ==
  /\ pc[j] = "commit"
  /\ table' = [r \in Rules |-> View(j, r)]
  /\ lastId' = [r \in Rules |-> IF table'[r] = NoRow THEN lastId[r] ELSE table'[r].id]
  /\ Free(j)
  /\ Goto(j, "committed")
  /\ UNCHANGED <<schema, op, todo, seen, wired, faults>>

\* The answer is made of the row as it is after the commit: without it, create and
\* update raise, and so do an update that updated None and a toggle that finds none.
Answerable(j) ==
  LET row == table[Rule(j)] IN
  CASE op[j].kind \in {"create", "update"} ->
         seen[j] # NoRow /\ row # NoRow /\ row.id = seen[j].id
    [] op[j].kind = "toggle" -> row # NoRow
    [] OTHER -> TRUE

Answer(j) ==
  /\ pc[j] = "committed"
  /\ End(j, IF Answerable(j) THEN "done" ELSE "raised")
  /\ wired' = IF j \in Workers THEN wired \union {j} ELSE wired
  /\ UNCHANGED <<table, schema, lastId, staged, lock, faults>>

InFlight(j) == pc[j] \notin Ended \union {"idle"}

\* The database fails a statement, or the process dies; after the commit that loses
\* only the answer.
Fail(j) ==
  /\ InFlight(j) /\ faults < MaxFaults
  /\ Abort(j)
  /\ faults' = faults + 1
  /\ UNCHANGED <<table, schema, lastId, wired>>

\* Jobs that wait for each other: PostgreSQL ends one of them.
Waiting(j) == pc[j] = "write" /\ lock[Rule(j)] \notin {j, Nobody}

Deadlocked(j) ==
  \E ring \in SUBSET Jobs : j \in ring /\ \A k \in ring : Waiting(k) /\ lock[Rule(k)] \in ring

BreakDeadlock(j) ==
  /\ Deadlocked(j)
  /\ Abort(j)
  /\ UNCHANGED <<table, schema, lastId, wired, faults>>

Step(j) ==
  \/ Find(j)
  \/ FindAgain(j)
  \/ Insert(j)
  \/ Modify(j)
  \/ Delete(j)
  \/ Commit(j)
  \/ Answer(j)

Next ==
  \/ \E w \in Workers : Start(w) \/ CreateTables(w)
  \/ \E a \in Admins : Submit(a)
  \/ \E j \in Jobs : Step(j) \/ Fail(j) \/ BreakDeadlock(j)

Spec == Init /\ [][Next]_vars

\* Whoever waits for a lock gets it in the end, as PostgreSQL queues the waiters.
Fairness ==
  /\ \A j \in Jobs : SF_vars(Step(j)) /\ WF_vars(BreakDeadlock(j))
  /\ \A w \in Workers : WF_vars(CreateTables(w))

FairSpec == Spec /\ Fairness

-----------------------------------------------------------------------------
TypeOK ==
  /\ table \in [Rules -> Row \union {NoRow}]
  /\ schema \in BOOLEAN
  /\ lastId \in [Rules -> Nat]
  /\ staged \in [Jobs -> [Rules -> Row \union {NoRow, Untouched}]]
  /\ lock \in [Rules -> Jobs \union {Nobody}]
  /\ pc \in [Jobs -> {"idle", "creating", "find", "again", "write", "commit", "committed"}
                       \union Ended]
  /\ op \in [Jobs -> Op]
  /\ todo \in [Jobs -> Seq(Rules)]
  /\ seen \in [Jobs -> Row \union {NoRow}]
  /\ wired \subseteq Workers
  /\ faults \in 0 .. MaxFaults

\* The rules of an import or of the YAML file come into the table together: nobody
\* sees one of them while the job is still at work on the others or may still fail.
NothingHalfDone ==
  \A j \in Jobs, r \in Rules :
    table[r] # NoRow /\ table[r].by = j => pc[j] \in {"committed"} \union Ended

\* A rule is switched on or off by a commit that was asked to, never by an update,
\* an import or a restart that works on what it read some time ago.
SwitchObeyed ==
  [][\A r \in Rules :
       table[r] # NoRow /\ table'[r] # NoRow /\ table'[r].enabled # table[r].enabled
         => \E j \in Jobs : /\ pc[j] = "commit" /\ pc'[j] # "commit"
                            /\ op[j].enabled = table'[r].enabled]_vars

\* However many workers start at once, on an empty database or a filled one, they do
\* not all end in the fallback: who is refused was refused by one that gets through.
\* (Before any of them has served a request that gets in the way.)
SomeWorkerWired ==
  /\ \A w \in Workers : pc[w] \in Ended
  /\ faults = 0
  /\ \A a \in Admins : pc[a] = "idle"
  => wired # {}

\* Every request and every startup ends, also those that hold rules others wait for:
\* jobs being finitely many, the table comes to rest.
JobsEnd == <>[](\A j \in Jobs : ~InFlight(j))

Map == INSTANCE PolicyMap WITH rows <- table

\* Readers of the table see a PolicyMap.
ImplementsPolicyMap == Map!Spec
=============================================================================
