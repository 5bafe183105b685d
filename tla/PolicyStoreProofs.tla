------------------------- MODULE PolicyStoreProofs --------------------------
(***************************************************************************)
(* Proofs about PolicyStore for any rules, file, workers and requests.     *)
(*                                                                         *)
(* What a job has staged is the argument: it is about a rule the job has   *)
(* the lock of, so the row it was made from is still the committed one when*)
(* the job commits, however old the instance is that its session holds.    *)
(***************************************************************************)
EXTENDS PolicyStore, SequenceTheorems, TLAPS

USE JobsAssumption, YamlAssumption, RequestsAssumption, FaultsAssumption, NoRowAssumption

\* Where a job may have staged something.
AtWork == {"find", "again", "write", "commit"}

\* Where a job may be.
Labels == {"idle", "creating", "find", "again", "write", "commit", "committed"} \union Ended

\* What reads a file names rules; every other request names one.
Files == {"import", "sync"}

\* A job that has not begun is about the YAML file, one at work has a current rule, and a
\* request about one rule has staged nothing before it commits.
TodoInv ==
  \A j \in Jobs :
    /\ pc[j] \in {"idle", "creating"} => op[j] = Sync
    /\ pc[j] = "creating" => todo[j] = YamlRules
    /\ pc[j] \in AtWork => todo[j] # <<>>
    /\ pc[j] \in AtWork /\ op[j].kind \notin Files => Len(todo[j]) = 1
    /\ pc[j] \in AtWork \ {"commit"} /\ op[j].kind \notin Files =>
         \A r \in Rules : staged[j][r] = Untouched

\* What a job may have staged for a rule: to remove its row, to create it, or a later
\* version of it.
Proper(j, r, row) ==
  \/ row = NoRow /\ table[r] # NoRow /\ op[j].kind = "delete"
  \/ /\ row # NoRow /\ op[j].kind # "delete"
     /\ table[r] = NoRow
     /\ row.version >= 1 /\ row.by = j
  \/ /\ row # NoRow /\ op[j].kind # "delete"
     /\ table[r] # NoRow
     /\ row.id = table[r].id /\ row.version > table[r].version
     /\ row.by \in {j, table[r].by}
     /\ row.enabled \in {op[j].enabled, table[r].enabled}

StagedInv ==
  \A j \in Jobs, r \in Rules :
    staged[j][r] # Untouched =>
      lock[r] = j /\ pc[j] \in AtWork /\ Proper(j, r, staged[j][r])

IInv == TypeOK /\ TodoInv /\ StagedInv /\ NothingHalfDone

USE DEF Labels

-----------------------------------------------------------------------------
\* The step of the job j, whichever it is.
JobStep(j) ==
  \/ j \in Workers /\ (Start(j) \/ CreateTables(j))
  \/ j \in Admins /\ Submit(j)
  \/ Step(j) \/ Fail(j) \/ BreakDeadlock(j)

\* A sequence that is not empty has a first element and a rest.
LEMMA HeadTail ==
  ASSUME NEW s \in Seq(Rules), s # <<>>
  PROVE  /\ Head(s) \in Rules /\ Tail(s) \in Seq(Rules)
         /\ Len(s) # 1 => Tail(s) # <<>>
  <1>1. Head(s) \in Rules /\ Tail(s) \in Seq(Rules) /\ Len(Tail(s)) = Len(s) - 1
    BY HeadTailProperties
  <1>2. Len(s) \in Nat /\ (Tail(s) = <<>> => Len(Tail(s)) = 0)
    BY <1>1, LenProperties, EmptySeq
  <1>3. QED
    BY <1>1, <1>2

\* A transaction sees a row or none.
LEMMA ViewType ==
  ASSUME TypeOK, NEW j \in Jobs, NEW r \in Rules
  PROVE  View(j, r) \in Row \union {NoRow}
  BY DEF TypeOK, View

\* A revision is a row of the same id and a later version.
LEMMA RevisionFacts ==
  ASSUME TypeOK, NEW j \in Jobs, NEW current \in Row, seen[j] \in Row
  PROVE  /\ Revision(j, current) \in Row
         /\ Revision(j, current).id = current.id
         /\ Revision(j, current).version = current.version + 1
         /\ Revision(j, current).by \in {j, current.by}
         /\ Revision(j, current).enabled \in {op[j].enabled, current.enabled}
  <1>1. op[j] \in Op
    BY DEF TypeOK
  <1>2. /\ current.id \in Nat /\ current.version \in Nat /\ current.by \in Jobs \union {"yaml"}
        /\ current.enabled \in {"on", "off"}
        /\ current = [id |-> current.id, version |-> current.version,
                      enabled |-> current.enabled, by |-> current.by]
    BY DEF Row
  <1> DEFINE by == IF op[j].kind = "toggle" THEN current.by ELSE j
             enabled == IF op[j].enabled \in {"keep", seen[j].enabled} THEN current.enabled
                        ELSE op[j].enabled
  <1>3. Revision(j, current) =
          [id |-> current.id, version |-> current.version + 1, enabled |-> enabled, by |-> by]
    <2>1. Revision(j, current) =
            [current EXCEPT !.version = current.version + 1, !.by = by, !.enabled = enabled]
      BY <1>2 DEF Revision
    <2> HIDE DEF by, enabled
    <2>2. QED
      BY <1>2, <2>1
  <1>4. op[j].enabled # "keep" => op[j].enabled \in {"on", "off"}
    BY <1>1 DEF Op
  <1>5. QED
    BY <1>2, <1>3, <1>4 DEF Row

\* The rule at hand is a rule.
LEMMA RuleType ==
  ASSUME TypeOK, TodoInv, NEW j \in Jobs, pc[j] \in AtWork
  PROVE  Rule(j) \in Rules
  BY HeadTail DEF TypeOK, TodoInv, Rule

\* On to the next rule, if there is one.
LEMMA AdvanceFacts ==
  ASSUME TypeOK, TodoInv, NEW j \in Jobs, pc[j] \in AtWork, Advance(j)
  PROVE  /\ pc'[j] \in {"find", "commit"} /\ todo'[j] \in Seq(Rules) /\ todo'[j] # <<>>
         /\ Len(todo[j]) = 1 => pc'[j] = "commit" /\ todo' = todo
         /\ \A k \in Jobs : k # j => pc'[k] = pc[k] /\ todo'[k] = todo[k]
         /\ pc' \in [Jobs -> Labels]
         /\ todo' \in [Jobs -> Seq(Rules)]
  <1>1. /\ todo[j] \in Seq(Rules) /\ todo[j] # <<>>
        /\ Tail(todo[j]) \in Seq(Rules) /\ (Len(todo[j]) # 1 => Tail(todo[j]) # <<>>)
    BY HeadTail DEF TypeOK, TodoInv
  <1>2. QED
    BY <1>1 DEF TypeOK, Advance, Goto

\* A job that ends with nothing staged, or is rolled back, is forgotten.
LEMMA EndType ==
  ASSUME TypeOK, NEW j \in Jobs, NEW label \in Ended, End(j, label),
         Free(j) \/ UNCHANGED <<staged, lock>>
  PROVE  /\ pc' \in [Jobs -> Labels]
         /\ op' \in [Jobs -> Op] /\ todo' \in [Jobs -> Seq(Rules)]
         /\ seen' \in [Jobs -> Row \union {NoRow}]
         /\ staged' \in [Jobs -> [Rules -> Row \union {NoRow, Untouched}]]
         /\ lock' \in [Rules -> Jobs \union {Nobody}]
  <1>1. Sync \in Op /\ <<>> \in Seq(Rules)
    BY DEF Sync, Op
  <1>2. /\ staged' \in [Jobs -> [Rules -> Row \union {NoRow, Untouched}]]
        /\ lock' \in [Rules -> Jobs \union {Nobody}]
    <2>1. CASE UNCHANGED <<staged, lock>>
      BY <2>1 DEF TypeOK
    <2>2. CASE Free(j)
      <3>1. staged' = [staged EXCEPT ![j] = [r \in Rules |-> Untouched]]
        BY <2>2 DEF Free
      <3>2. [r \in Rules |-> Untouched] \in [Rules -> Row \union {NoRow, Untouched}]
        OBVIOUS
      <3>3. staged' \in [Jobs -> [Rules -> Row \union {NoRow, Untouched}]]
        BY <3>1, <3>2 DEF TypeOK
      <3>4. lock' \in [Rules -> Jobs \union {Nobody}]
        BY <2>2 DEF Free, TypeOK
      <3>5. QED
        BY <3>3, <3>4
    <2>3. QED
      BY <2>1, <2>2
  <1>3. QED
    BY <1>1, <1>2 DEF End, Goto, TypeOK

\* A job keeps the types.
LEMMA TypeStep ==
  ASSUME TypeOK, TodoInv, NEW j \in Jobs, JobStep(j)
  PROVE  TypeOK'
  <1>1. CASE j \in Workers /\ Start(j)
    BY <1>1 DEF Start, Goto, TypeOK
  <1>2. CASE j \in Workers /\ CreateTables(j)
    <2>1. CASE schema
      BY <1>2, <2>1, EndType DEF CreateTables, Abort, TypeOK, Ended
    <2>2. CASE ~schema
      BY <1>2, <2>2 DEF CreateTables, Goto, TypeOK
    <2>3. QED
      BY <2>1, <2>2
  <1>3. CASE j \in Admins /\ Submit(j)
    <2>1. PICK o \in Requests :
            \/ /\ op' = [op EXCEPT ![j] = o] /\ todo' = [todo EXCEPT ![j] = o.rules]
               /\ Goto(j, "find") /\ UNCHANGED seen
            \/ End(j, "refused")
      BY <1>3 DEF Submit
    <2>2. o \in Op /\ o.rules \in Seq(Rules)
      BY DEF Op
    <2>3. CASE End(j, "refused")
      BY <1>3, <2>3, EndType DEF Submit, TypeOK, Ended
    <2>4. CASE op' = [op EXCEPT ![j] = o] /\ todo' = [todo EXCEPT ![j] = o.rules]
               /\ Goto(j, "find") /\ UNCHANGED seen
      BY <1>3, <2>2, <2>4 DEF Submit, TypeOK, Goto
    <2>5. QED
      BY <2>1, <2>3, <2>4
  <1>4. CASE Find(j)
    <2>1. View(j, Rule(j)) \in Row \union {NoRow}
      BY <1>4, ViewType, RuleType DEF Find, AtWork
    <2>2. CASE End(j, "refused")
      BY <1>4, <2>2, EndType DEF Find, TypeOK, Ended
    <2>3. CASE ~End(j, "refused")
      BY <1>4, <2>1, <2>3 DEF Find, TypeOK, Goto
    <2>4. QED
      BY <2>2, <2>3
  <1>5. CASE FindAgain(j)
    <2>1. View(j, Rule(j)) \in Row \union {NoRow} /\ pc[j] \in AtWork
      BY <1>5, ViewType, RuleType DEF FindAgain, AtWork
    <2>2. CASE View(j, Rule(j)) = NoRow
      <3>1. Advance(j)
        BY <1>5, <2>2 DEF FindAgain
      <3>2. /\ pc' \in [Jobs -> Labels]
            /\ todo' \in [Jobs -> Seq(Rules)]
        BY <2>1, <3>1, AdvanceFacts
      <3>3. QED
        BY <1>5, <2>2, <3>2 DEF FindAgain, TypeOK
    <2>3. CASE View(j, Rule(j)) # NoRow
      BY <1>5, <2>1, <2>3 DEF FindAgain, TypeOK, Goto
    <2>4. QED
      BY <2>2, <2>3
  <1>6. ASSUME NEW row \in Row \union {NoRow}, pc[j] \in AtWork, Stage(j, row),
               seen' \in [Jobs -> Row \union {NoRow}],
               UNCHANGED <<table, schema, lastId, op, wired, faults>>
        PROVE  TypeOK'
    <2>1. Advance(j) /\ Rule(j) \in Rules
      BY <1>6, RuleType DEF Stage
    <2>2. /\ pc' \in [Jobs -> Labels]
          /\ todo' \in [Jobs -> Seq(Rules)]
      BY <1>6, <2>1, AdvanceFacts
    <2>3. /\ staged' \in [Jobs -> [Rules -> Row \union {NoRow, Untouched}]]
          /\ lock' \in [Rules -> Jobs \union {Nobody}]
      BY <1>6, <2>1 DEF Stage, TypeOK
    <2>4. QED
      BY <1>6, <2>2, <2>3 DEF TypeOK
  <1>7. CASE Insert(j)
    <2>1. pc[j] \in AtWork
      BY <1>7 DEF Insert, MayWrite, AtWork
    <2>2. CASE View(j, Rule(j)) = NoRow
      <3> DEFINE row == [id |-> lastId[Rule(j)] + 1, version |-> 1, by |-> j,
                         enabled |-> IF op[j].enabled = "off" THEN "off" ELSE "on"]
      <3>1. row \in Row
        BY <2>1, RuleType DEF Row, TypeOK
      <3> HIDE DEF row
      <3>2. Stage(j, row) /\ seen' = [seen EXCEPT ![j] = row]
            /\ UNCHANGED <<table, schema, lastId, op, wired, faults>>
        BY <1>7, <2>2 DEF Insert, row
      <3>3. seen' \in [Jobs -> Row \union {NoRow}]
        BY <3>1, <3>2 DEF TypeOK
      <3>4. QED
        BY <1>6, <2>1, <3>1, <3>2, <3>3
    <2>3. CASE View(j, Rule(j)) # NoRow
      BY <1>7, <2>3, EndType DEF Insert, Abort, TypeOK, Ended
    <2>4. QED
      BY <2>2, <2>3
  <1>8. CASE Modify(j)
    <2>1. pc[j] \in AtWork /\ seen[j] \in Row /\ View(j, Rule(j)) \in Row \union {NoRow}
      BY <1>8, ViewType, RuleType DEF Modify, MayWrite, AtWork, TypeOK
    <2>2. CASE Abort(j)
      BY <1>8, <2>2, EndType DEF Modify, Abort, TypeOK, Ended
    <2>3. CASE ~Abort(j)
      <3>1. /\ View(j, Rule(j)) \in Row /\ Stage(j, Revision(j, View(j, Rule(j))))
            /\ UNCHANGED <<table, schema, lastId, op, seen, wired, faults>>
        BY <1>8, <2>1, <2>3 DEF Modify
      <3>2. Revision(j, View(j, Rule(j))) \in Row
        BY <2>1, <3>1, RevisionFacts
      <3>3. seen' \in [Jobs -> Row \union {NoRow}]
        BY <3>1 DEF TypeOK
      <3>4. QED
        BY <1>6, <2>1, <3>1, <3>2, <3>3
    <2>4. QED
      BY <2>2, <2>3
  <1>9. CASE Delete(j)
    <2>1. pc[j] \in AtWork
      BY <1>9 DEF Delete, MayWrite, AtWork
    <2>2. CASE Stage(j, NoRow)
      BY <1>6, <1>9, <2>1, <2>2 DEF Delete, TypeOK
    <2>3. CASE ~Stage(j, NoRow)
      <3>1. Advance(j) /\ UNCHANGED <<table, schema, lastId, op, seen, wired, faults, staged, lock>>
        BY <1>9, <2>3 DEF Delete
      <3>2. /\ pc' \in [Jobs -> Labels]
            /\ todo' \in [Jobs -> Seq(Rules)]
        BY <2>1, <3>1, AdvanceFacts
      <3>3. QED
        BY <3>1, <3>2 DEF TypeOK
    <2>4. QED
      BY <2>2, <2>3
  <1>10. CASE Commit(j)
    <2>1. table' \in [Rules -> Row \union {NoRow}]
      BY <1>10, ViewType DEF Commit
    <2>2. lastId' \in [Rules -> Nat]
      BY <1>10, <2>1 DEF Commit, TypeOK, Row
    <2>3. QED
      BY <1>10, <2>1, <2>2 DEF Commit, Free, Goto, TypeOK
  <1>11. CASE Answer(j)
    BY <1>11, EndType DEF Answer, TypeOK, Ended
  <1>12. CASE Fail(j) \/ BreakDeadlock(j)
    BY <1>12, EndType DEF Fail, BreakDeadlock, Abort, TypeOK, Ended
  <1>13. QED
    BY <1>1, <1>2, <1>3, <1>4, <1>5, <1>7, <1>8, <1>9, <1>10, <1>11, <1>12 DEF JobStep, Step

\* A job leaves the other jobs, what they have staged and their locks as they are, and
\* the table too, unless it commits.
LEMMA OthersStay ==
  ASSUME TypeOK, TodoInv, NEW j \in Jobs, JobStep(j)
  PROVE  /\ \A k \in Jobs \ {j} :
              /\ pc'[k] = pc[k] /\ op'[k] = op[k] /\ todo'[k] = todo[k]
              /\ staged'[k] = staged[k]
         /\ \A k \in Jobs \ {j}, r \in Rules : lock[r] = k => lock'[r] = k
         /\ table' = table \/ Commit(j)
  <1> USE DEF TypeOK, Goto, End, Free, Abort
  <1>1. CASE j \in Workers /\ (Start(j) \/ CreateTables(j))
    BY <1>1 DEF Start, CreateTables
  <1>2. CASE j \in Admins /\ Submit(j)
    BY <1>2 DEF Submit
  <1>3. CASE Find(j) \/ Commit(j) \/ Answer(j)
    BY <1>3 DEF Find, Commit, Answer
  <1>4. CASE FindAgain(j)
    BY <1>4 DEF FindAgain, Advance
  <1>5. CASE Insert(j) \/ Modify(j) \/ Delete(j)
    BY <1>5 DEF Insert, Modify, Delete, MayWrite, Stage, Advance
  <1>6. CASE Fail(j) \/ BreakDeadlock(j)
    BY <1>6 DEF Fail, BreakDeadlock
  <1>7. QED
    BY <1>1, <1>2, <1>3, <1>4, <1>5, <1>6 DEF JobStep, Step

\* A job keeps what is known of the rules it has still to do.
LEMMA TodoStep ==
  ASSUME IInv, NEW j \in Jobs, JobStep(j)
  PROVE  TodoInv'
  <1> DEFINE Todo(k) ==
        /\ pc'[k] \in {"idle", "creating"} => op'[k] = Sync
        /\ pc'[k] = "creating" => todo'[k] = YamlRules
        /\ pc'[k] \in AtWork => todo'[k] # <<>>
        /\ pc'[k] \in AtWork /\ op'[k].kind \notin Files => Len(todo'[k]) = 1
        /\ pc'[k] \in AtWork \ {"commit"} /\ op'[k].kind \notin Files =>
             \A r \in Rules : staged'[k][r] = Untouched
  <1>0. TypeOK /\ TodoInv /\ (pc[j] \notin AtWork => \A r \in Rules : staged[j][r] = Untouched)
    BY DEF IInv, StagedInv
  <1>1. ASSUME NEW k \in Jobs \ {j} PROVE Todo(k)
    BY <1>0, <1>1, OthersStay DEF TodoInv
  <1>2. Todo(j)
    <2> USE <1>0 DEF TypeOK, Goto
    <2>1. ASSUME NEW label \in Ended, End(j, label) PROVE Todo(j)
      BY <2>1 DEF End, Ended, AtWork
    <2>2. CASE j \in Workers /\ Start(j)
      BY <2>2 DEF Start, AtWork, TodoInv, Sync, Files
    <2>3. CASE j \in Workers /\ CreateTables(j)
      BY <2>1, <2>3 DEF CreateTables, Abort, Ended, AtWork, TodoInv, Sync, Files
    <2>4. CASE j \in Admins /\ Submit(j)
      <3>1. PICK o \in Requests :
              \/ /\ op' = [op EXCEPT ![j] = o] /\ todo' = [todo EXCEPT ![j] = o.rules]
                 /\ Goto(j, "find") /\ UNCHANGED seen
              \/ End(j, "refused")
        BY <2>4 DEF Submit
      <3>2. pc[j] = "idle" /\ UNCHANGED staged
        BY <2>4 DEF Submit
      <3>3. o.rules # <<>> /\ (o.kind \notin Files => Len(o.rules) = 1)
        BY DEF Files
      <3>4. QED
        BY <2>1, <3>1, <3>2, <3>3 DEF Ended, AtWork
    <2>5. CASE Find(j)
      BY <2>1, <2>5 DEF Find, Ended, AtWork, TodoInv
    <2>6. ASSUME pc[j] \in AtWork \ {"commit"}, Advance(j), op' = op
          PROVE  Todo(j)
      <3>1. /\ pc'[j] \in {"find", "commit"} /\ todo'[j] # <<>>
            /\ (Len(todo[j]) = 1 => pc'[j] = "commit" /\ todo' = todo)
        BY <2>6, AdvanceFacts
      <3>2. op[j].kind \notin Files => Len(todo[j]) = 1
        BY <2>6 DEF TodoInv
      <3>3. QED
        BY <2>6, <3>1, <3>2 DEF AtWork
    <2>7. CASE FindAgain(j)
      <3>1. CASE Advance(j)
        BY <2>6, <2>7, <3>1 DEF FindAgain, AtWork
      <3>2. CASE ~Advance(j)
        BY <2>7, <3>2 DEF FindAgain, AtWork, TodoInv
      <3>3. QED
        BY <3>1, <3>2
    <2>8. CASE Insert(j) \/ Modify(j) \/ Delete(j)
      <3>1. pc[j] = "write" /\ (End(j, "raised") \/ (Advance(j) /\ op' = op))
        BY <2>8 DEF Insert, Modify, Delete, MayWrite, Stage, Abort
      <3>2. QED
        BY <2>1, <2>6, <3>1 DEF AtWork, Ended
    <2>9. CASE Commit(j)
      BY <2>9 DEF Commit, AtWork
    <2>10. CASE Answer(j) \/ Fail(j) \/ BreakDeadlock(j)
      BY <2>1, <2>10 DEF Answer, Fail, BreakDeadlock, Abort, Ended
    <2>11. QED
      BY <2>2, <2>3, <2>4, <2>5, <2>7, <2>8, <2>9, <2>10 DEF JobStep, Step
  <1>3. QED
    BY <1>1, <1>2 DEF TodoInv

\* What a job stages is proper where it is made from the committed row, or from what the
\* job has staged properly before.
LEMMA StagedProper ==
  ASSUME IInv, NEW j \in Jobs, NEW row, pc[j] = "write", Stage(j, row),
         lock[Rule(j)] \in {j, Nobody}, UNCHANGED <<table, op>>,
         Proper(j, Rule(j), row),
         NEW r \in Rules, staged'[j][r] # Untouched
  PROVE  lock'[r] = j /\ pc'[j] \in AtWork /\ Proper(j, r, staged[j][r])'
  <1> USE DEF IInv
  <1>1. Rule(j) \in Rules /\ Advance(j) /\ pc[j] \in AtWork
    BY RuleType DEF Stage, AtWork
  <1>2. pc'[j] \in {"find", "commit"}
    BY <1>1, AdvanceFacts
  <1>3. CASE r = Rule(j)
    BY <1>1, <1>2, <1>3 DEF Stage, TypeOK, AtWork, Proper
  <1>4. CASE r # Rule(j)
    <2>1. staged'[j][r] = staged[j][r] /\ lock'[r] = lock[r]
      BY <1>1, <1>4 DEF Stage, TypeOK
    <2>2. QED
      BY <1>2, <2>1 DEF StagedInv, AtWork, Proper
  <1>5. QED
    BY <1>3, <1>4

\* Every job keeps what is known of what it, and any other job, has staged.
LEMMA StagedStep ==
  ASSUME IInv, NEW j \in Jobs, JobStep(j)
  PROVE  StagedInv'
  <1> USE DEF IInv
  <1>1. ASSUME NEW k \in Jobs \ {j}, NEW r \in Rules, staged'[k][r] # Untouched
        PROVE  lock'[r] = k /\ pc'[k] \in AtWork /\ Proper(k, r, staged[k][r])'
    <2>1. staged'[k] = staged[k] /\ pc'[k] = pc[k] /\ op'[k] = op[k]
      BY <1>1, OthersStay
    <2>2. lock[r] = k /\ pc[k] \in AtWork /\ Proper(k, r, staged[k][r])
      BY <1>1, <2>1 DEF StagedInv
    <2>3. lock'[r] = k
      BY <1>1, <2>2, OthersStay
    <2>4. table'[r] = table[r]
      <3>1. CASE Commit(j)
        <4>1. staged[j][r] = Untouched
          BY <1>1, <2>2 DEF StagedInv
        <4>2. QED
          BY <3>1, <4>1 DEF Commit, View
      <3>2. QED
        BY <3>1, OthersStay
    <2>5. QED
      BY <2>1, <2>2, <2>3, <2>4 DEF Proper
  <1>2. ASSUME NEW r \in Rules, staged'[j][r] # Untouched
        PROVE  lock'[r] = j /\ pc'[j] \in AtWork /\ Proper(j, r, staged[j][r])'
    <2>1. CASE Free(j)
      BY <1>2, <2>1 DEF Free, TypeOK
    <2>2. CASE pc[j] \notin AtWork /\ UNCHANGED <<staged, lock>>
      BY <1>2, <2>2 DEF StagedInv
    <2>3. ASSUME UNCHANGED <<staged, lock, table, op>>, pc'[j] \in AtWork
          PROVE  lock'[r] = j /\ pc'[j] \in AtWork /\ Proper(j, r, staged[j][r])'
      BY <1>2, <2>3 DEF StagedInv, Proper
    <2>4. CASE Find(j)
      <3>1. pc[j] \in AtWork \ {"commit"} /\ UNCHANGED <<staged, lock, table>>
        BY <2>4 DEF Find, AtWork
      <3>2. op[j].kind \in Files
        BY <1>2, <3>1 DEF TodoInv
      <3>3. pc'[j] \in AtWork /\ op' = op
        BY <2>4, <3>2 DEF Find, Goto, TypeOK, AtWork, Files
      <3>4. QED
        BY <2>3, <3>1, <3>3
    <2>5. CASE FindAgain(j)
      <3>1. pc'[j] \in AtWork
        BY <2>5, AdvanceFacts DEF FindAgain, Goto, TypeOK, AtWork
      <3>2. QED
        BY <2>3, <2>5, <3>1 DEF FindAgain
    <2>6. CASE Insert(j)
      <3>1. CASE View(j, Rule(j)) = NoRow
        <4> DEFINE row == [id |-> lastId[Rule(j)] + 1, version |-> 1, by |-> j,
                           enabled |-> IF op[j].enabled = "off" THEN "off" ELSE "on"]
        <4>1. /\ pc[j] = "write" /\ lock[Rule(j)] \in {j, Nobody} /\ UNCHANGED <<table, op>>
              /\ op[j].kind # "delete" /\ Stage(j, row)
          BY <2>6, <3>1 DEF Insert, MayWrite
        <4>2. Rule(j) \in Rules
          BY <4>1, RuleType DEF AtWork
        <4>3. table[Rule(j)] = NoRow
          BY <3>1, <4>1, <4>2 DEF View, StagedInv, Proper
        <4>4. row # NoRow
          <5>1. row \in Row
            BY <4>2 DEF Row, TypeOK
          <5>2. QED
            BY <5>1
        <4>5. Proper(j, Rule(j), row)
          BY <4>1, <4>3, <4>4 DEF Proper
        <4> HIDE DEF row
        <4>6. QED
          BY <1>2, <4>1, <4>5, StagedProper
      <3>2. CASE View(j, Rule(j)) # NoRow
        BY <2>1, <2>6, <3>2 DEF Insert, Abort
      <3>3. QED
        BY <3>1, <3>2
    <2>7. CASE Modify(j)
      <3> DEFINE current == View(j, Rule(j))
      <3>1. CASE current # NoRow /\ current.id = seen[j].id
        <4>1. /\ pc[j] = "write" /\ lock[Rule(j)] \in {j, Nobody} /\ UNCHANGED <<table, op>>
              /\ op[j].kind # "delete" /\ Stage(j, Revision(j, current)) /\ seen[j] \in Row
          BY <2>7, <3>1 DEF Modify, MayWrite, TypeOK
        <4>2. Rule(j) \in Rules /\ current \in Row
          BY <3>1, <4>1, RuleType, ViewType DEF AtWork
        <4>3. \/ table[Rule(j)] = NoRow /\ current.by = j /\ current.version >= 1
              \/ /\ table[Rule(j)] # NoRow
                 /\ current.id = table[Rule(j)].id /\ current.version >= table[Rule(j)].version
                 /\ current.by \in {j, table[Rule(j)].by}
                 /\ current.enabled \in {op[j].enabled, table[Rule(j)].enabled}
          <5>1. table[Rule(j)] # NoRow => table[Rule(j)].version \in Nat
            BY <4>2 DEF TypeOK, Row
          <5>2. CASE staged[j][Rule(j)] = Untouched
            BY <3>1, <4>2, <5>1, <5>2 DEF View
          <5>3. CASE staged[j][Rule(j)] # Untouched
            <6>1. Proper(j, Rule(j), current)
              BY <4>2, <5>3 DEF StagedInv, View
            <6>2. current.version \in Nat
              BY <4>2 DEF Row
            <6>3. QED
              BY <3>1, <5>1, <6>1, <6>2 DEF Proper
          <5>4. QED
            BY <5>2, <5>3
        <4>4. /\ Revision(j, current) \in Row /\ current.version \in Nat
              /\ table[Rule(j)] # NoRow => table[Rule(j)].version \in Nat
          BY <4>1, <4>2, RevisionFacts DEF Row, TypeOK
        <4> HIDE DEF current
        <4>5. /\ Revision(j, current).id = current.id
              /\ Revision(j, current).version = current.version + 1
              /\ Revision(j, current).by \in {j, current.by}
              /\ Revision(j, current).enabled \in {op[j].enabled, current.enabled}
          BY <4>1, <4>2, RevisionFacts
        <4>6. Revision(j, current) # NoRow
          BY <4>4
        <4>7. Proper(j, Rule(j), Revision(j, current))
          BY <4>1, <4>3, <4>4, <4>5, <4>6 DEF Proper
        <4>8. QED
          BY <1>2, <4>1, <4>7, StagedProper
      <3>2. CASE ~(current # NoRow /\ current.id = seen[j].id)
        BY <2>1, <2>7, <3>2 DEF Modify, Abort
      <3>3. QED
        BY <3>1, <3>2
    <2>8. CASE Delete(j)
      <3> DEFINE current == View(j, Rule(j))
      <3>1. /\ pc[j] = "write" /\ lock[Rule(j)] \in {j, Nobody} /\ UNCHANGED <<table, op>>
            /\ op[j].kind = "delete"
        BY <2>8 DEF Delete, MayWrite
      <3>2. CASE current # NoRow /\ current.id = seen[j].id
        <4>1. Stage(j, NoRow) /\ Rule(j) \in Rules
          BY <2>8, <3>1, <3>2, RuleType DEF Delete, AtWork
        <4>2. table[Rule(j)] # NoRow
          BY <3>1, <3>2, <4>1 DEF View, StagedInv, Proper
        <4>3. Proper(j, Rule(j), NoRow)
          BY <3>1, <4>2 DEF Proper
        <4>4. QED
          BY <1>2, <3>1, <4>1, <4>3, StagedProper
      <3>3. CASE ~(current # NoRow /\ current.id = seen[j].id)
        <4>1. Advance(j) /\ UNCHANGED <<staged, lock>> /\ pc[j] \in AtWork
          BY <2>8, <3>1, <3>3 DEF Delete, AtWork
        <4>2. pc'[j] \in AtWork
          BY <4>1, AdvanceFacts DEF AtWork
        <4>3. QED
          BY <2>3, <3>1, <4>1, <4>2
      <3>4. QED
        BY <3>2, <3>3
    <2>9. CASE (j \in Workers /\ (Start(j) \/ CreateTables(j))) \/ (j \in Admins /\ Submit(j))
               \/ Answer(j)
      BY <2>1, <2>2, <2>9 DEF Start, CreateTables, Submit, Answer, Abort, AtWork
    <2>10. CASE Commit(j) \/ Fail(j) \/ BreakDeadlock(j)
      BY <2>1, <2>10 DEF Commit, Fail, BreakDeadlock, Abort
    <2>11. QED
      BY <2>4, <2>5, <2>6, <2>7, <2>8, <2>9, <2>10 DEF JobStep, Step
  <1>3. QED
    BY <1>1, <1>2 DEF StagedInv

\* A commit puts each rule to what its job has staged properly, and no other step
\* touches the table.
LEMMA TableChange ==
  ASSUME IInv, NEW j \in Jobs, JobStep(j), NEW r \in Rules, table'[r] # table[r]
  PROVE  /\ Commit(j) /\ pc[j] = "commit" /\ pc'[j] = "committed"
         /\ table'[r] \in Row \union {NoRow}
         /\ staged[j][r] = table'[r] /\ Proper(j, r, table'[r])
  <1>1. Commit(j)
    BY OthersStay DEF IInv
  <1>2. table'[r] = View(j, r) /\ table'[r] \in Row \union {NoRow}
    BY <1>1, ViewType DEF Commit, IInv
  <1>3. staged[j][r] = table'[r] /\ Proper(j, r, table'[r])
    <2>1. staged[j][r] # Untouched /\ table'[r] = staged[j][r]
      BY <1>2 DEF View
    <2>2. Proper(j, r, staged[j][r])
      BY <2>1 DEF IInv, StagedInv
    <2>3. QED
      BY <2>1, <2>2
  <1>4. QED
    BY <1>1, <1>2, <1>3 DEF Commit, Goto, IInv, TypeOK

\* What is in the table stays the work of jobs that have committed.
LEMMA HalfDoneStep ==
  ASSUME IInv, NEW j \in Jobs, JobStep(j)
  PROVE  NothingHalfDone'
  <1> DEFINE Over == {"committed"} \union Ended
  <1>1. \A k \in Jobs : pc[k] \in Over => pc'[k] \in Over
    <2>1. pc[j] \in Over => pc'[j] \in Over
      BY DEF IInv, TypeOK, JobStep, Step, Start, CreateTables, Submit, Find, FindAgain, Insert,
        Modify, Delete, Commit, MayWrite, Answer, Fail, BreakDeadlock, Deadlocked, Waiting,
        Abort, End, Goto, Ended
    <2>2. QED
      BY <2>1, OthersStay DEF IInv
  <1>2. SUFFICES ASSUME NEW k \in Jobs, NEW r \in Rules, table'[r] # NoRow, table'[r].by = k
                 PROVE  pc'[k] \in Over
    BY DEF NothingHalfDone
  <1>3. CASE table'[r] = table[r]
    BY <1>1, <1>2, <1>3 DEF IInv, NothingHalfDone
  <1>4. CASE table'[r] # table[r]
    <2>1. pc'[j] = "committed" /\ Proper(j, r, table'[r])
      BY <1>4, TableChange
    <2>2. k = j \/ (table[r] # NoRow /\ table[r].by = k)
      BY <1>2, <2>1 DEF Proper
    <2>3. QED
      BY <1>1, <2>1, <2>2 DEF IInv, NothingHalfDone
  <1>5. QED
    BY <1>3, <1>4

-----------------------------------------------------------------------------
\* What carries the argument always holds, for any rules, file, workers and requests.
THEOREM InductiveInvariant == Spec => []IInv
  <1>1. Init => IInv
    <2> SUFFICES ASSUME Init PROVE IInv
      OBVIOUS
    <2> USE DEF Init
    <2>1. Sync \in Op /\ Synced \in Row /\ <<>> \in Seq(Rules)
      BY DEF Sync, Op, Synced, Row
    <2>2. TypeOK
      <3>1. /\ staged \in [Jobs -> [Rules -> Row \union {NoRow, Untouched}]]
            /\ table \in [Rules -> Row \union {NoRow}] /\ lastId \in [Rules -> Nat]
        BY <2>1
      <3>2. QED
        BY <2>1, <3>1 DEF TypeOK
    <2>3. TodoInv /\ StagedInv
      BY DEF TodoInv, StagedInv, AtWork
    <2>4. NothingHalfDone
      BY DEF NothingHalfDone, Synced
    <2>5. QED
      BY <2>2, <2>3, <2>4 DEF IInv
  <1>2. IInv /\ [Next]_vars => IInv'
    <2> SUFFICES ASSUME IInv, [Next]_vars PROVE IInv'
      OBVIOUS
    <2>1. ASSUME NEW j \in Jobs, JobStep(j) PROVE IInv'
      BY <2>1, TypeStep, TodoStep, StagedStep, HalfDoneStep DEF IInv
    <2>2. CASE UNCHANGED vars
      BY <2>2 DEF vars, IInv, TypeOK, TodoInv, StagedInv, Proper, NothingHalfDone
    <2>3. QED
      BY <2>1, <2>2 DEF Next, JobStep, Jobs
  <1>3. QED
    BY <1>1, <1>2, PTL DEF Spec

\* The types hold.
THEOREM TypeCorrect == Spec => []TypeOK
  BY InductiveInvariant, PTL DEF IInv

\* The rules of a file come into the table together, and so does all else a job does.
THEOREM ChangesAreWhole == Spec => []NothingHalfDone
  BY InductiveInvariant, PTL DEF IInv

\* No update, import or restart turns a switch it was not asked to turn, however old
\* the instance is that it works on.
THEOREM SwitchesAreObeyed == Spec => SwitchObeyed
  <1> DEFINE Obeyed ==
        \A r \in Rules :
          table[r] # NoRow /\ table'[r] # NoRow /\ table'[r].enabled # table[r].enabled
            => \E j \in Jobs : /\ pc[j] = "commit" /\ pc'[j] # "commit"
                               /\ op[j].enabled = table'[r].enabled
  <1>1. IInv /\ [Next]_vars => [Obeyed]_vars
    <2> SUFFICES ASSUME IInv, NEW j \in Jobs, JobStep(j), NEW r \in Rules,
                        table[r] # NoRow, table'[r] # NoRow,
                        table'[r].enabled # table[r].enabled
                 PROVE  /\ pc[j] = "commit" /\ pc'[j] # "commit"
                        /\ op[j].enabled = table'[r].enabled
      BY DEF Next, JobStep, Jobs
    <2>1. pc[j] = "commit" /\ pc'[j] = "committed" /\ Proper(j, r, table'[r])
      BY TableChange
    <2>2. QED
      BY <2>1 DEF Proper
  <1>2. QED
    BY <1>1, InductiveInvariant, PTL DEF Spec, SwitchObeyed

\* Who reads the table sees a PolicyMap: every row it has begins with a version, goes on
\* with later ones, and is removed before another takes its place.
THEOREM StoreIsPolicyMap == Spec => ImplementsPolicyMap
  <1>1. Init => Map!Init
    BY DEF Init, Map!Init, Synced
  <1>2. IInv /\ [Next]_vars => [Map!Next]_table
    <2> SUFFICES ASSUME IInv, [Next]_vars, NEW r \in Rules, table'[r] # table[r]
                 PROVE  Map!Created(r) \/ Map!Revised(r) \/ Map!Removed(r)
      BY DEF Map!Next
    <2>1. PICK j \in Jobs : JobStep(j)
      BY DEF Next, JobStep, Jobs, vars
    <2>2. Proper(j, r, table'[r])
      BY <2>1, TableChange
    <2>3. QED
      BY <2>2 DEF Proper, Map!Created, Map!Revised, Map!Removed
  <1>3. QED
    BY <1>1, <1>2, InductiveInvariant, PTL DEF Spec, ImplementsPolicyMap, Map!Spec

-----------------------------------------------------------------------------
\* Startup.

\* No request has come yet, and the database has failed nobody.
Undisturbed == faults = 0 /\ \A a \in Admins : pc[a] = "idle"

\* A worker is wired, or is past its commit.
Arrived == wired # {} \/ \E w \in Workers : pc[w] = "committed"

\* A worker has not started, or creates the tables, and nobody has before it; or it is past
\* that.
Ahead(w) ==
  \/ pc[w] \in {"find", "write", "commit"}
  \/ pc[w] = "idle"
  \/ pc[w] = "creating" /\ ~schema

\* Until somebody commits, what a worker has found is what it still finds.
Unchallenged(w) == pc[w] = "write" => View(w, Rule(w)) = seen[w]

\* A worker only does what its startup is to do.
WorkersSync == \A w \in Workers : op[w] = Sync /\ pc[w] # "again"

\* Until somebody has arrived, one worker is ahead, and no write is refused.
SomeoneAhead ==
  Undisturbed =>
    Arrived \/ ((\E w \in Workers : Ahead(w)) /\ \A w \in Workers : Unchallenged(w))

\* A request is none of a worker's business.
LEMMA WorkersSyncStep ==
  ASSUME TypeOK, WorkersSync, NEW j \in Jobs, JobStep(j)
  PROVE  WorkersSync'
  <1>1. ASSUME NEW w \in Workers, w # j
        PROVE  op'[w] = op[w] /\ pc'[w] = pc[w]
    BY <1>1 DEF JobStep, Start, CreateTables, Submit, Step, Find, FindAgain, Insert, Modify, Delete,
         Commit, Answer, Fail, BreakDeadlock, Abort, End, Goto, Stage, Advance, TypeOK, Jobs
  <1>2. CASE j \in Workers
    <2>1. op[j] = Sync /\ Sync.kind = "sync" /\ pc[j] # "again"
      BY <1>2 DEF WorkersSync, Sync
    <2>2. op'[j] = Sync
      BY <1>2, <2>1 DEF JobStep, Start, CreateTables, Submit, Step, Find, FindAgain, Insert, Modify,
         Delete, Commit, Answer, Fail, BreakDeadlock, Abort, End, Goto, Stage, Advance, TypeOK
    <2>3. pc'[j] # "again"
      <3>1. CASE Start(j) \/ CreateTables(j)
        BY <1>2, <3>1 DEF Start, CreateTables, Abort, End, Goto, TypeOK
      <3>2. CASE Find(j)
        BY <1>2, <3>2, <2>1 DEF Find, End, Goto, TypeOK
      <3>3. CASE Insert(j) \/ Modify(j) \/ Delete(j)
        BY <1>2, <3>3 DEF Insert, Modify, Delete, Stage, Advance, Abort, End, Goto, TypeOK
      <3>4. CASE Commit(j) \/ Answer(j) \/ Fail(j) \/ BreakDeadlock(j)
        BY <1>2, <3>4 DEF Commit, Answer, Fail, BreakDeadlock, Abort, End, Goto, TypeOK
      <3>5. QED
        BY <1>2, <2>1, <3>1, <3>2, <3>3, <3>4 DEF JobStep, Step, FindAgain, Submit
    <2>4. QED
      BY <1>1, <2>2, <2>3 DEF WorkersSync
  <1>3. CASE j \notin Workers
    BY <1>1, <1>3 DEF WorkersSync
  <1>4. QED
    BY <1>2, <1>3

\* The step of one worker leaves the others where they are.
LEMMA OtherWorkersStay ==
  ASSUME TypeOK, NEW j \in Workers, JobStep(j), NEW w \in Workers, w # j
  PROVE  /\ pc'[w] = pc[w] /\ seen'[w] = seen[w] /\ todo'[w] = todo[w]
         /\ staged'[w] = staged[w] /\ wired \subseteq wired'
         /\ CreateTables(j) \/ schema' = schema
  <1>1. /\ pc'[w] = pc[w] /\ seen'[w] = seen[w] /\ todo'[w] = todo[w]
        /\ staged'[w] = staged[w]
    BY DEF JobStep, Start, CreateTables, Submit, Step, Find, FindAgain, Insert, Modify, Delete,
         Commit, Answer, Fail, BreakDeadlock, Abort, Free, End, Goto, Stage, Advance, TypeOK, Jobs
  <1>2. wired \subseteq wired'
    BY DEF JobStep, Start, CreateTables, Submit, Step, Find, FindAgain, Insert, Modify, Delete,
         Commit, Answer, Fail, BreakDeadlock
  <1>3. CreateTables(j) \/ schema' = schema
    BY DEF JobStep, Start, Submit, Step, Find, FindAgain, Insert, Modify, Delete,
         Commit, Answer, Fail, BreakDeadlock
  <1>4. QED
    BY <1>1, <1>2, <1>3

\* As long as nobody has arrived, whose table would be in the way, someone stays ahead.
LEMMA SomeoneAheadStep ==
  ASSUME IInv, WorkersSync, SomeoneAhead, NEW j \in Jobs, JobStep(j)
  PROVE  SomeoneAhead'
  <1> USE DEF IInv
  <1> SUFFICES ASSUME Undisturbed'
               PROVE  \/ Arrived'
                      \/ (\E w \in Workers : Ahead(w)') /\ \A w \in Workers : Unchallenged(w)'
    BY DEF SomeoneAhead
  <1>1. Undisturbed /\ ~Fail(j) /\ j \in Workers
    <2>1. ~Fail(j)
      BY DEF Fail, Undisturbed, TypeOK
    <2>2. faults = 0
      BY <2>1 DEF JobStep, Start, CreateTables, Submit, Step, Find, FindAgain, Insert, Modify,
         Delete, Commit, Answer, BreakDeadlock, Undisturbed
    <2>3. ASSUME NEW a \in Admins, pc[a] # "idle"
          PROVE  FALSE
      <3>1. pc'[a] = "idle" /\ a \in Jobs
        BY DEF Undisturbed, Jobs
      <3>2. a = j
        BY <2>3, <3>1 DEF JobStep, Start, CreateTables, Submit, Step, Find, FindAgain, Insert,
           Modify, Delete, Commit, Answer, Fail, BreakDeadlock, Abort, End, Goto, Stage, Advance,
           TypeOK
      <3>3. a \notin Workers
        BY JobsAssumption
      <3>4. pc'[j] # "idle"
        BY <2>1, <2>3, <3>2, <3>3 DEF JobStep, Submit, Step, Find, FindAgain, Insert,
           Modify, Delete, Commit, Answer, BreakDeadlock, Abort, End, Goto, Stage, Advance,
           TypeOK, Ended
      <3>5. QED
        BY <3>1, <3>2, <3>4
    <2>4. ASSUME j \in Admins
          PROVE  FALSE
      <3>1. pc[j] = "idle" /\ pc'[j] = "idle" /\ j \notin Workers
        BY <2>3, <2>4 DEF Undisturbed
      <3>2. Submit(j)
        BY <2>1, <3>1 DEF JobStep, Step, Find, FindAgain, Insert, MayWrite, Modify, Delete, Commit,
           Answer, BreakDeadlock, Deadlocked, Waiting
      <3>3. QED
        BY <3>1, <3>2 DEF Submit, End, Goto, TypeOK, Ended
    <2>5. QED
      BY <2>1, <2>2, <2>3, <2>4 DEF Undisturbed, Jobs
  <1>2. \A w \in Workers : w \in Jobs
    BY DEF Jobs
  <1>3. \A w \in Workers : w # j =>
          /\ pc'[w] = pc[w] /\ seen'[w] = seen[w] /\ todo'[w] = todo[w]
          /\ staged'[w] = staged[w] /\ wired \subseteq wired'
          /\ CreateTables(j) \/ schema' = schema
    BY <1>1, OtherWorkersStay
  <1>4. /\ wired \subseteq wired' /\ op[j] = Sync /\ Sync.kind = "sync" /\ pc[j] # "again"
        /\ CreateTables(j) \/ schema' = schema
    BY <1>1 DEF WorkersSync, Sync, JobStep, Start, CreateTables, Submit, Step, Find, FindAgain,
       Insert, Modify, Delete, Commit, Answer, Fail, BreakDeadlock
  <1>5. CASE Arrived
    <2>1. CASE wired # {}
      BY <2>1, <1>4 DEF Arrived
    <2>2. ASSUME NEW w \in Workers, pc[w] = "committed"
          PROVE  Arrived'
      <3>1. CASE w # j
        BY <2>2, <3>1, <1>3 DEF Arrived
      <3>2. CASE w = j
        <4>1. Answer(j)
          BY <2>2, <3>2, <1>1 DEF JobStep, Start, CreateTables, Submit, Step, Find, FindAgain,
             Insert, MayWrite, Modify, Delete, Commit, BreakDeadlock, Deadlocked, Waiting
        <4>2. j \in wired'
          BY <4>1, <1>1 DEF Answer
        <4>3. QED
          BY <4>2 DEF Arrived
      <3>3. QED
        BY <3>1, <3>2
    <2>3. QED
      BY <1>5, <2>1, <2>2 DEF Arrived
  <1>6. CASE ~Arrived
    <2>1. (\E w \in Workers : Ahead(w)) /\ \A w \in Workers : Unchallenged(w)
      BY <1>1, <1>6 DEF SomeoneAhead
    <2>2. ASSUME table' = table, NEW w \in Workers, w # j
          PROVE  Unchallenged(w)'
      BY <2>1, <2>2, <1>3 DEF Unchallenged, View, Rule
    <2>3. ASSUME table' = table, pc'[j] # "write"
          PROVE  \A w \in Workers : Unchallenged(w)'
      BY <2>2, <2>3 DEF Unchallenged
    <2>4. pc'[j] \in {"find", "write", "commit"} => \E w \in Workers : Ahead(w)'
      BY <1>1 DEF Ahead
    <2>5. pc'[j] = "committed" => Arrived'
      BY <1>1 DEF Arrived
    <2>6. CASE Start(j)
      <3>1. table' = table /\ pc'[j] \in {"creating", "find", "committed"}
            /\ (pc'[j] = "creating" => ~schema /\ schema' = schema)
        BY <2>6, <1>1, <1>2 DEF Start, Goto, TypeOK
      <3>2. pc'[j] = "creating" => Ahead(j)'
        BY <3>1 DEF Ahead
      <3>3. QED
        BY <3>1, <3>2, <2>3, <2>4, <2>5, <1>1
    <2>7. CASE CreateTables(j) /\ ~schema
      <3>1. table' = table /\ pc'[j] \in {"find", "committed"}
        BY <2>7, <1>1, <1>2 DEF CreateTables, Goto, TypeOK
      <3>2. QED
        BY <3>1, <2>3, <2>4, <2>5
    <2>8. CASE CreateTables(j) /\ schema
      <3>1. table' = table /\ pc'[j] = "raised" /\ pc[j] = "creating"
        BY <2>8, <1>1, <1>2 DEF CreateTables, Abort, End, Goto, TypeOK
      <3>2. PICK w \in Workers : Ahead(w)
        BY <2>1
      <3>3. w # j /\ pc[w] # "creating"
        BY <3>1, <3>2, <2>8 DEF Ahead
      <3>4. Ahead(w)'
        BY <3>2, <3>3, <1>3 DEF Ahead
      <3>5. QED
        BY <3>1, <3>4, <2>3
    <2>9. CASE Find(j)
      <3> DEFINE row == View(j, Rule(j))
      <3>1. /\ pc'[j] = "write" /\ seen'[j] = row /\ UNCHANGED <<table, staged, todo>>
        BY <2>9, <1>4, <1>1, <1>2 DEF Find, Goto, TypeOK
      <3>2. Unchallenged(j)'
        BY <3>1 DEF Unchallenged, View, Rule
      <3>3. QED
        BY <3>1, <3>2, <2>2, <2>4
    <2>10. CASE Insert(j) \/ Modify(j)
      <3>1. pc[j] = "write" /\ View(j, Rule(j)) = seen[j] /\ table' = table
        BY <2>10, <2>1, <1>1 DEF Insert, Modify, MayWrite, Unchallenged
      <3>2. Advance(j)
        BY <2>10, <3>1 DEF Insert, Modify, Stage
      <3>3. pc'[j] \in {"find", "commit"}
        BY <3>1, <3>2, AdvanceFacts DEF AtWork
      <3>4. QED
        BY <3>1, <3>3, <2>3, <2>4
    <2>11. CASE Commit(j)
      <3>1. pc'[j] = "committed"
        BY <2>11 DEF Commit, Goto, TypeOK
      <3>2. QED
        BY <3>1, <2>5
    <2>12. CASE BreakDeadlock(j)
      <3>1. table' = table /\ pc'[j] = "raised"
        BY <2>12 DEF BreakDeadlock, Abort, End, Goto, TypeOK
      <3>2. PICK ring \in SUBSET Jobs :
              j \in ring /\ \A k \in ring : Waiting(k) /\ lock[Rule(k)] \in ring
        BY <2>12 DEF BreakDeadlock, Deadlocked
      <3>3. PICK k \in Jobs : k # j /\ pc[k] = "write"
        <4>1. lock[Rule(j)] \in Jobs /\ lock[Rule(j)] # j /\ pc[lock[Rule(j)]] = "write"
          BY <3>2 DEF Waiting
        <4>2. QED
          BY <4>1
      <3>4. k \in Workers
        BY <3>3, <1>1 DEF Undisturbed, Jobs
      <3>5. Ahead(k)'
        BY <3>3, <3>4, <1>3 DEF Ahead
      <3>6. QED
        BY <3>1, <3>4, <3>5, <2>3
    <2>13. ~Answer(j)
      BY <1>1, <1>6 DEF Answer, Arrived
    <2>14. ~FindAgain(j) /\ ~Delete(j) /\ j \notin Admins
      BY <1>1, <1>4, JobsAssumption DEF FindAgain, Delete
    <2>15. QED
      BY <1>1, <2>6, <2>7, <2>8, <2>9, <2>10, <2>11, <2>12, <2>13, <2>14 DEF JobStep, Step
  <1>7. QED
    BY <1>5, <1>6

\* However many workers start at once, one of them ends with the database wired, if there
\* is one at all.
THEOREM OneWorkerIsWired == Workers # {} => (Spec => []SomeWorkerWired)
  <1> SUFFICES ASSUME Workers # {}
               PROVE  Spec => []SomeWorkerWired
    OBVIOUS
  <1>1. Init => WorkersSync /\ SomeoneAhead
    <2> SUFFICES ASSUME Init PROVE WorkersSync /\ SomeoneAhead
      OBVIOUS
    <2>1. \A w \in Workers : pc[w] = "idle" /\ op[w] = Sync
      BY DEF Init, Jobs
    <2>2. WorkersSync
      BY <2>1 DEF WorkersSync
    <2>3. (\E w \in Workers : Ahead(w)) /\ \A w \in Workers : Unchallenged(w)
      BY <2>1 DEF Ahead, Unchallenged
    <2>4. QED
      BY <2>2, <2>3 DEF SomeoneAhead
  <1>2. IInv /\ WorkersSync /\ SomeoneAhead /\ [Next]_vars => (WorkersSync /\ SomeoneAhead)'
    <2> SUFFICES ASSUME IInv, WorkersSync, SomeoneAhead, [Next]_vars
                 PROVE  WorkersSync' /\ SomeoneAhead'
      OBVIOUS
    <2>1. ASSUME NEW j \in Jobs, JobStep(j) PROVE WorkersSync' /\ SomeoneAhead'
      BY <2>1, WorkersSyncStep, SomeoneAheadStep DEF IInv
    <2>2. CASE UNCHANGED vars
      BY <2>2 DEF vars, WorkersSync, SomeoneAhead, Undisturbed, Arrived, Ahead, Unchallenged, View,
                  Rule
    <2>3. QED
      BY <2>1, <2>2 DEF Next, JobStep, Jobs
  <1>3. SomeoneAhead => SomeWorkerWired
    BY DEF SomeoneAhead, SomeWorkerWired, Undisturbed, Arrived, Ahead, Ended
  <1>4. QED
    BY <1>1, <1>2, <1>3, InductiveInvariant, PTL DEF Spec
=============================================================================
