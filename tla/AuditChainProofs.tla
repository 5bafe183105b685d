-------------------------- MODULE AuditChainProofs -------------------------
(***************************************************************************)
(* Proofs about AuditChain for any set of calls and either dialect.        *)
(*                                                                         *)
(* What the lock does is in RowsInv and ReadInv: a row written under it is *)
(* hashed onto a row that no other row written under it comes after.  They *)
(* hold because between reading the last row and ending its transaction a  *)
(* call that got the lock holds it (LockedInv), so that no other such call *)
(* commits meanwhile, and because ids are drawn in that time (IdInv).      *)
(***************************************************************************)
EXTENDS AuditChain, SequenceTheorems, FiniteSetTheorems, WellFoundedInduction, TLAPS

USE NoCallAssumption, DialectsAssumption

\* The lines of a call that its transaction spans once the lock statement is over.
InTransaction == {"reading", "inserting", "committing"}

IdInv ==
  /\ \A c \in Calls :
       pc[c] = "committing" =>
         id[c] \in 1 .. drawn /\ id[c] \notin DOMAIN log /\ id[c] > began[c]
  /\ \A c, d \in Calls :
       pc[c] = "committing" /\ pc[d] = "committing" /\ id[c] = id[d] => c = d

LockedInv ==
  \A c \in Calls : pc[c] \in InTransaction /\ c \notin unlocked => holder = c

\* The rows before some id that were written under the lock.
LockedBefore(bound) == {j \in DOMAIN log : j < bound /\ Locked(j)}

\* A checksum of a row before that id, which none of those come after.
Covers(checksum, bound) ==
  \/ checksum = NULL /\ LockedBefore(bound) = {}
  \/ \E z \in DOMAIN log : /\ z < bound /\ log[z].checksum = checksum
                           /\ \A j \in LockedBefore(bound) : j <= z

ReadInv ==
  \A c \in Calls \ unlocked :
    /\ pc[c] = "inserting" => Covers(last[c], drawn + 1)
    /\ pc[c] = "committing" => /\ Covers(last[c], id[c])
                               /\ \A j \in DOMAIN log : Locked(j) => j < id[c]

RowsInv == \A i \in DOMAIN log : Locked(i) => Covers(log[i].prev_checksum, i)

\* A checksum that is NULL or that of a row before some id.
Rooted(checksum, bound) ==
  \/ checksum = NULL
  \/ \E j \in DOMAIN log : j < bound /\ log[j].checksum = checksum

TreeInv ==
  /\ ChainIsTree
  /\ \A c \in Calls : /\ pc[c] = "inserting" => Rooted(last[c], drawn + 1)
                      /\ pc[c] = "committing" => Rooted(last[c], id[c])

-----------------------------------------------------------------------------
(***************************************************************************)
(* Ids, rows and tables.                                                   *)
(***************************************************************************)

\* A set of naturals has a least element.
LEMMA LeastOf ==
  ASSUME NEW S \in SUBSET Nat, S # {}
  PROVE  Min(S) \in S /\ \A k \in S : Min(S) <= k
  <1>1. PICK x \in S : \A y \in S : ~(<<y, x>> \in OpToRel(<, Nat))
    BY NatLessThanWellFounded, WFMin
  <1>2. ASSUME NEW y \in S
        PROVE  x <= y
    <2>1. <<y, x>> \in Nat \X Nat /\ ~(y < x)
      BY <1>1 DEF OpToRel
    <2> QED
      BY <2>1
  <1> QED
    BY <1>2 DEF Min

\* A bounded set of naturals has a greatest element: its least upper bound.
LEMMA GreatestOf ==
  ASSUME NEW b \in Nat, NEW S \in SUBSET (0 .. b), S # {}
  PROVE  Max(S) \in S /\ \A k \in S : k <= Max(S)
  <1> DEFINE U == {n \in Nat : \A k \in S : k <= n}
             m == Min(U)
  <1>1. b \in U /\ U \in SUBSET Nat
    OBVIOUS
  <1>2. m \in U /\ \A n \in U : m <= n
    BY <1>1, LeastOf
  <1> HIDE DEF m
  <1>3. m \in S
    <2> SUFFICES ASSUME m \notin S
                 PROVE  FALSE
      OBVIOUS
    <2>1. \A k \in S : k \in Nat /\ k <= m - 1
      BY <1>2
    <2>2. PICK k \in S : TRUE
      OBVIOUS
    <2>3. m - 1 \in Nat
      BY <1>2, <2>1, <2>2
    <2>4. m - 1 \in U
      BY <2>1, <2>3
    <2> QED
      BY <1>2, <2>4
  <1> QED
    BY <1>2, <1>3 DEF Max

\* An element that no other exceeds, or falls short of, is the greatest, or the least.
LEMMA Extreme ==
  ASSUME NEW S \in SUBSET Nat, NEW x \in S
  PROVE  /\ (\A k \in S : k <= x) => Max(S) = x
         /\ (\A k \in S : x <= k) => Min(S) = x
  <1>1. ASSUME \A k \in S : k <= x
        PROVE  Max(S) = x
    <2>1. \A y \in S : (\A k \in S : y >= k) => y = x
      BY <1>1
    <2>2. \A y \in S : x >= y
      BY <1>1
    <2> QED
      BY <2>1, <2>2 DEF Max
  <1>2. ASSUME \A k \in S : x <= k
        PROVE  Min(S) = x
    <2>1. \A y \in S : (\A k \in S : y <= k) => y = x
      BY <1>2
    <2> QED
      BY <2>1, <1>2 DEF Min
  <1> QED
    BY <1>1, <1>2

\* What TypeOK says of the table.
Table(rows, b) == DOMAIN rows \subseteq 1 .. b /\ rows \in [DOMAIN rows -> Rows]

\* A row made by create is a row of the table.
LEMMA RowType ==
  ASSUME NEW c \in Calls, NEW p \in Checksum
  PROVE  /\ Row(c, p) \in Rows
         /\ Row(c, p).content = c
         /\ Row(c, p).prev_checksum = p
         /\ Row(c, p).checksum = Append(p, c)
  BY DEF Row, Rows, Checksum, compute_checksum

\* The checksum of the last of some rows, which is a checksum.
LEMMA LastOfIs ==
  ASSUME NEW b \in Nat, NEW rows, Table(rows, b), NEW ids \in SUBSET DOMAIN rows
  PROVE  /\ LastOf(rows, ids) \in Checksum
         /\ ids = {} => LastOf(rows, ids) = NULL
         /\ ids # {} => /\ Max(ids) \in ids /\ \A k \in ids : k <= Max(ids)
                        /\ LastOf(rows, ids) = rows[Max(ids)].checksum
  <1>1. CASE ids = {}
    BY <1>1, EmptySeq DEF LastOf, NULL, Checksum
  <1>2. CASE ids # {}
    <2>1. Max(ids) \in ids /\ \A k \in ids : k <= Max(ids)
      BY <1>2, GreatestOf DEF Table
    <2>2. rows[Max(ids)] \in Rows
      BY <2>1 DEF Table
    <2> QED
      BY <1>2, <2>1, <2>2 DEF LastOf, Rows
  <1> QED
    BY <1>1, <1>2

\* One more row changes no other, nor what comes before a row with a smaller id.
LEMMA AddRow ==
  ASSUME NEW b \in Nat, NEW rows, Table(rows, b), NEW k \in 1 .. b, k \notin DOMAIN rows,
         NEW r \in Rows
  PROVE  LET more == WithRow(rows, k, r) IN
         /\ Table(more, b)
         /\ DOMAIN more = DOMAIN rows \union {k}
         /\ more[k] = r
         /\ \A i \in DOMAIN rows : i # k /\ more[i] = rows[i]
  BY DEF Table, WithRow

-----------------------------------------------------------------------------
(***************************************************************************)
(* Types, ids and the lock.                                                *)
(***************************************************************************)

Basic == TypeOK /\ IdInv /\ LockedInv

\* What the table is, by the type invariant.
LEMMA LogIsTable == TypeOK => drawn \in Nat /\ Table(log, drawn)
  BY DEF TypeOK, Table

\* A commit adds the call's row under the id it has drawn.
LEMMA CommittedRow ==
  ASSUME Basic, NEW c \in Calls, NEW label \in {"logged", "raised"}, Committed(c, label)
  PROVE  /\ Table(log', drawn) /\ drawn' = drawn
         /\ id[c] \in 1 .. drawn /\ id[c] \notin DOMAIN log
         /\ DOMAIN log' = DOMAIN log \union {id[c]}
         /\ \A i \in DOMAIN log : i # id[c] /\ log'[i] = log[i]
         /\ log'[id[c]] = Row(c, last[c]) /\ last[c] \in Checksum
         /\ Row(c, last[c]) \in Rows
         /\ log'[id[c]].content = c /\ log'[id[c]].prev_checksum = last[c]
         /\ log'[id[c]].checksum = Append(last[c], c)
  <1>1. /\ last[c] \in Checksum /\ pc[c] = "committing" /\ drawn' = drawn
        /\ log' = WithRow(log, id[c], Row(c, last[c]))
    BY DEF Committed, Basic, TypeOK
  <1>2. id[c] \in 1 .. drawn /\ id[c] \notin DOMAIN log
    BY <1>1 DEF Basic, IdInv
  <1>3. Row(c, last[c]) \in Rows /\ drawn \in Nat /\ Table(log, drawn)
    BY <1>1, RowType, LogIsTable DEF Basic
  <1>4. /\ Table(log', drawn)
        /\ DOMAIN log' = DOMAIN log \union {id[c]}
        /\ \A i \in DOMAIN log : i # id[c] /\ log'[i] = log[i]
        /\ log'[id[c]] = Row(c, last[c])
    BY <1>1, <1>2, <1>3, AddRow
  <1> QED
    BY <1>1, <1>2, <1>3, <1>4, RowType

\* An empty table and calls that have not begun satisfy what follows.
LEMMA InitBasic == Init => Basic /\ ReadInv /\ RowsInv /\ TreeInv
  <1> SUFFICES ASSUME Init PROVE Basic /\ ReadInv /\ RowsInv /\ TreeInv
    OBVIOUS
  <1>1. <<>> \in Checksum /\ DOMAIN <<>> = {} /\ <<>> \in [{} -> Rows]
    BY EmptySeq DEF Checksum
  <1>2. TypeOK
    BY <1>1 DEF Init, TypeOK, NULL
  <1>3. IdInv /\ LockedInv /\ ReadInv /\ RowsInv /\ TreeInv
    BY <1>1 DEF Init, IdInv, LockedInv, ReadInv, RowsInv, TreeInv, ChainIsTree, InTransaction
  <1> QED
    BY <1>2, <1>3 DEF Basic

\* Steps before the commit, and the end of calls that fail, leave the table alone.
LEMMA QuietStep ==
  ASSUME NEW c \in Calls,
         \/ Begin(c) \/ AcquireLock(c) \/ LockUnsupported(c) \/ NoConnection(c)
         \/ ReadLast(c) \/ Insert(c) \/ Fail(c)
  PROVE  UNCHANGED log
  BY DEF Begin, AcquireLock, LockUnsupported, NoConnection, GoOnUnlocked, ReadLast, Insert, Fail

\* Types, ids and the lock are kept by every step.
LEMMA NextBasic == Basic /\ [Next]_vars => Basic'
  <1> SUFFICES ASSUME Basic, [Next]_vars PROVE Basic'
    OBVIOUS
  <1> USE DEF Basic, TypeOK, IdInv, LockedInv, InTransaction, Goto
  <1>1. ASSUME NEW c \in Calls, Begin(c) PROVE Basic'
    <2>1. DOMAIN log # {} => Max(DOMAIN log) \in 0 .. drawn
      <3>1. DOMAIN log \in SUBSET (0 .. drawn)
        OBVIOUS
      <3> QED
        BY <3>1, GreatestOf
    <2>2. began' \in [Calls -> 0 .. drawn]
      <3> DEFINE m == IF DOMAIN log = {} THEN 0 ELSE Max(DOMAIN log)
      <3>1. m \in 0 .. drawn
        <4>1. 0 \in 0 .. drawn
          OBVIOUS
        <4>2. CASE DOMAIN log = {}
          BY <4>1, <4>2
        <4>3. CASE DOMAIN log # {}
          BY <2>1, <4>3
        <4> QED
          BY <4>2, <4>3
      <3>2. began' = [began EXCEPT ![c] = m]
        BY <1>1 DEF Begin
      <3> HIDE DEF m
      <3> QED
        BY <3>1, <3>2
    <2>3. TypeOK'
      BY <1>1, <2>2 DEF Begin
    <2>4. IdInv'
      <3>1. \A d \in Calls : pc'[d] = "committing" => pc[d] = "committing" /\ began'[d] = began[d]
        BY <1>1 DEF Begin
      <3> QED
        BY <1>1, <3>1 DEF Begin
    <2>5. LockedInv'
      BY <1>1 DEF Begin
    <2> QED
      BY <2>3, <2>4, <2>5
  <1>2. ASSUME NEW c \in Calls, AcquireLock(c) PROVE Basic'
    BY <1>2 DEF AcquireLock
  <1>3. ASSUME NEW c \in Calls, GoOnUnlocked(c) PROVE Basic'
    BY <1>3 DEF GoOnUnlocked
  <1>4. ASSUME NEW c \in Calls, ReadLast(c) PROVE Basic'
    <2>1. LastChecksum(log) \in Checksum
      BY LogIsTable, LastOfIs DEF LastChecksum
    <2> QED
      BY <1>4, <2>1 DEF ReadLast
  <1>5. ASSUME NEW c \in Calls, Insert(c) PROVE Basic'
    <2>1. /\ drawn' = drawn + 1 /\ log' = log /\ began' = began /\ drawn \in Nat
          /\ pc' = [pc EXCEPT ![c] = "committing"] /\ id' = [id EXCEPT ![c] = drawn + 1]
      BY <1>5 DEF Insert
    <2>2. TypeOK'
      <3>1. holder' \in Calls \union {NoCall}
        BY <1>5 DEF Insert
      <3>2. id' \in [Calls -> 0 .. drawn'] /\ began' \in [Calls -> 0 .. drawn']
        BY <2>1
      <3> QED
        BY <1>5, <2>1, <3>1, <3>2 DEF Insert
    <2>3. IdInv'
      <3>1. ASSUME NEW d \in Calls, d # c, pc'[d] = "committing"
            PROVE  /\ id'[d] \in 1 .. drawn' /\ id'[d] \notin DOMAIN log' /\ id'[d] > began'[d]
                   /\ id'[d] # id'[c] /\ pc[d] = "committing" /\ id'[d] = id[d]
        BY <2>1, <3>1
      <3>2. id'[c] \in 1 .. drawn' /\ id'[c] \notin DOMAIN log' /\ id'[c] > began'[c]
        BY <2>1
      <3> QED
        BY <3>1, <3>2
    <2>4. LockedInv'
      <3>1. CASE dialect = "sqlite"
        BY <1>5, <3>1 DEF Insert
      <3>2. CASE dialect # "sqlite"
        BY <1>5, <3>2 DEF Insert
      <3> QED
        BY <3>1, <3>2
    <2> QED
      BY <2>2, <2>3, <2>4
  <1>6. ASSUME NEW c \in Calls, NEW label \in {"logged", "raised"}, Committed(c, label)
        PROVE  Basic'
    <2>1. /\ Table(log', drawn) /\ drawn' = drawn
          /\ DOMAIN log' = DOMAIN log \union {id[c]}
      <3> HIDE DEF Basic, TypeOK, IdInv, LockedInv
      <3> QED
        BY <1>6, CommittedRow
    <2>2. TypeOK'
      BY <1>6, <2>1 DEF Committed, Release, Table
    <2>3. IdInv'
      <3>1. \A d \in Calls : pc'[d] = "committing" => pc[d] = "committing" /\ d # c
        BY <1>6 DEF Committed
      <3>2. pc[c] = "committing" /\ UNCHANGED <<id, began, drawn>>
        BY <1>6 DEF Committed
      <3> QED
        BY <2>1, <3>1, <3>2
    <2>4. LockedInv'
      BY <1>6 DEF Committed, Release
    <2> QED
      BY <2>2, <2>3, <2>4
  <1>7. ASSUME NEW c \in Calls, Fail(c) PROVE Basic'
    BY <1>7 DEF Fail, Release
  <1>8. CASE UNCHANGED vars
    BY <1>8 DEF vars
  <1> QED
    BY <1>1, <1>2, <1>3, <1>4, <1>5, <1>6, <1>7, <1>8
      DEF Next, LockUnsupported, NoConnection, Commit, CommitUnacknowledged

\* Basic is an invariant.
LEMMA BasicAlways == Spec => []Basic
  BY InitBasic, NextBasic, PTL DEF Spec

\* Type correctness, as the run audit_chain checks it.
THEOREM TypeCorrect == Spec => []TypeOK
  <1>1. Basic => TypeOK
    BY DEF Basic
  <1> QED
    BY <1>1, BasicAlways, PTL

-----------------------------------------------------------------------------
(***************************************************************************)
(* What the lock does.                                                     *)
(***************************************************************************)

\* What a call that has the lock reads covers the rows written under it.
LEMMA ReadCovers ==
  ASSUME Basic
  PROVE  Covers(LastChecksum(log), drawn + 1) /\ Rooted(LastChecksum(log), drawn + 1)
  <1>1. drawn \in Nat /\ Table(log, drawn)
    BY LogIsTable DEF Basic
  <1> DEFINE z == Max(DOMAIN log)
  <1>2. CASE DOMAIN log = {}
    <2>1. LastChecksum(log) = NULL
      BY <1>1, <1>2, LastOfIs DEF LastChecksum
    <2> QED
      BY <1>2, <2>1 DEF Covers, Rooted, LockedBefore
  <1>3. CASE DOMAIN log # {}
    <2>1. /\ z \in DOMAIN log /\ \A k \in DOMAIN log : k <= z
          /\ LastChecksum(log) = log[z].checksum
      BY <1>1, <1>3, LastOfIs DEF LastChecksum
    <2>2. z < drawn + 1
      BY <1>1, <2>1 DEF Table
    <2> HIDE DEF z
    <2> QED
      BY <2>1, <2>2 DEF Covers, Rooted, LockedBefore
  <1> QED
    BY <1>2, <1>3

\* Where the table stays, a checksum goes on to cover what it covers and to be rooted, also
\* if more calls have gone on without the lock or more ids are drawn.
LEMMA CoversStay ==
  ASSUME Basic, log' = log, unlocked \subseteq unlocked', NEW checksum, NEW b, NEW bound,
         b = bound \/ (b = drawn + 1 /\ bound \in {drawn + 1, drawn + 2})
  PROVE  /\ Covers(checksum, b) => Covers(checksum, bound)'
         /\ Rooted(checksum, b) => Rooted(checksum, bound)'
         /\ \A j \in DOMAIN log' : Locked(j)' => Locked(j)
  <1>1. \A j \in DOMAIN log : j < bound => j < b
    BY DEF Basic, TypeOK
  <1>2. \A j \in DOMAIN log : j < b => j < bound
    BY DEF Basic, TypeOK
  <1>3. \A j \in DOMAIN log' : Locked(j)' => Locked(j)
    BY DEF Locked
  <1>4. {j \in DOMAIN log' : j < bound /\ Locked(j)'} \subseteq {j \in DOMAIN log : j < b /\ Locked(j)}
    BY <1>1, <1>3
  <1>5. Covers(checksum, b) => Covers(checksum, bound)'
    BY <1>2, <1>4 DEF Covers, LockedBefore
  <1>6. Rooted(checksum, b) => Rooted(checksum, bound)'
    BY <1>2 DEF Rooted
  <1> QED
    BY <1>3, <1>5, <1>6

\* A step that leaves the table alone keeps what is known of rows and of what was read.
LEMMA QuietKeepsRows ==
  ASSUME Basic, ReadInv, RowsInv, TreeInv, NEW c \in Calls,
         \/ Begin(c) \/ AcquireLock(c) \/ LockUnsupported(c) \/ NoConnection(c)
         \/ ReadLast(c) \/ Insert(c) \/ Fail(c)
  PROVE  ReadInv' /\ RowsInv' /\ TreeInv'
  <1>1. log' = log /\ unlocked \subseteq unlocked'
    BY QuietStep DEF Begin, AcquireLock, LockUnsupported, NoConnection, GoOnUnlocked, ReadLast,
                     Insert, Fail
  <1>2. RowsInv'
    <2> SUFFICES ASSUME NEW i \in DOMAIN log', Locked(i)'
                 PROVE  Covers(log[i].prev_checksum, i)'
      BY DEF RowsInv
    <2>1. i \in DOMAIN log /\ Locked(i)
      BY <1>1 DEF Locked
    <2>2. Covers(log[i].prev_checksum, i)
      BY <2>1 DEF RowsInv
    <2> QED
      BY <1>1, <2>2, CoversStay
  <1>3. ChainIsTree'
    BY <1>1 DEF TreeInv, ChainIsTree
  <1>4. ASSUME NEW d \in Calls, pc'[d] = "inserting"
        PROVE  /\ Rooted(last[d], drawn + 1)'
               /\ d \notin unlocked' => Covers(last[d], drawn + 1)'
    <2>1. CASE /\ pc[d] = "inserting" /\ last'[d] = last[d]
               /\ drawn' \in {drawn, drawn + 1}
      <3>1. Rooted(last[d], drawn + 1)
        BY <2>1 DEF TreeInv
      <3>2. d \notin unlocked' => Covers(last[d], drawn + 1)
        BY <1>1, <2>1 DEF ReadInv
      <3>3. drawn' + 1 \in {drawn + 1, drawn + 2}
        BY <2>1 DEF Basic, TypeOK
      <3> QED
        BY <1>1, <2>1, <3>1, <3>2, <3>3, CoversStay
    <2>2. CASE last'[d] = LastChecksum(log) /\ drawn' = drawn
      BY <1>1, <2>2, ReadCovers, CoversStay
    <2>3. \/ /\ pc[d] = "inserting" /\ last'[d] = last[d]
             /\ drawn' \in {drawn, drawn + 1}
          \/ last'[d] = LastChecksum(log) /\ drawn' = drawn
      BY <1>4 DEF Begin, AcquireLock, LockUnsupported, NoConnection, GoOnUnlocked, ReadLast,
                  Insert, Fail, Goto, Basic, TypeOK
    <2> QED
      BY <2>1, <2>2, <2>3
  <1>5. ASSUME NEW d \in Calls, pc'[d] = "committing"
        PROVE  /\ Rooted(last[d], id[d])'
               /\ d \notin unlocked' => /\ Covers(last[d], id[d])'
                                       /\ \A j \in DOMAIN log' : Locked(j)' => j < id'[d]
    <2>1. CASE pc[d] = "committing" /\ last'[d] = last[d] /\ id'[d] = id[d]
      <3>1. Rooted(last[d], id[d])
        BY <2>1 DEF TreeInv
      <3>2. d \notin unlocked' => /\ Covers(last[d], id[d])
                                 /\ \A j \in DOMAIN log : Locked(j) => j < id[d]
        BY <1>1, <2>1 DEF ReadInv
      <3> QED
        BY <1>1, <2>1, <3>1, <3>2, CoversStay
    <2>2. CASE pc[d] = "inserting" /\ last'[d] = last[d] /\ id'[d] = drawn + 1
      <3>1. Rooted(last[d], drawn + 1)
        BY <2>2 DEF TreeInv
      <3>2. d \notin unlocked' => Covers(last[d], drawn + 1)
        BY <1>1, <2>2 DEF ReadInv
      <3>3. \A j \in DOMAIN log' : j < drawn + 1
        BY <1>1 DEF Basic, TypeOK
      <3> QED
        BY <1>1, <2>2, <3>1, <3>2, <3>3, CoversStay
    <2>3. \/ pc[d] = "committing" /\ last'[d] = last[d] /\ id'[d] = id[d]
          \/ pc[d] = "inserting" /\ last'[d] = last[d] /\ id'[d] = drawn + 1
      BY <1>5 DEF Begin, AcquireLock, LockUnsupported, NoConnection, GoOnUnlocked, ReadLast,
                  Insert, Fail, Goto, Basic, TypeOK
    <2> QED
      BY <2>1, <2>2, <2>3
  <1> QED
    BY <1>2, <1>3, <1>4, <1>5 DEF ReadInv, TreeInv

\* A row that is committed covers what its call had read, and no row written under the
\* lock is overtaken by another.
LEMMA CommittedKeepsRows ==
  ASSUME Basic, ReadInv, RowsInv, TreeInv, NEW c \in Calls, NEW label \in {"logged", "raised"},
         Committed(c, label)
  PROVE  ReadInv' /\ RowsInv' /\ TreeInv'
  <1> DEFINE k == id[c]
  <1>1. /\ Table(log', drawn) /\ drawn' = drawn
        /\ k \in 1 .. drawn /\ k \notin DOMAIN log
        /\ DOMAIN log' = DOMAIN log \union {k}
        /\ \A i \in DOMAIN log : i # k /\ log'[i] = log[i]
        /\ log'[k].content = c /\ log'[k].prev_checksum = last[c]
        /\ log'[k].checksum = Append(last[c], c)
    <2> HIDE DEF k
    <2> SUFFICES /\ Table(log', drawn) /\ drawn' = drawn
                 /\ id[c] \in 1 .. drawn /\ id[c] \notin DOMAIN log
                 /\ DOMAIN log' = DOMAIN log \union {id[c]}
                 /\ \A i \in DOMAIN log : i # id[c] /\ log'[i] = log[i]
                 /\ log'[id[c]].content = c /\ log'[id[c]].prev_checksum = last[c]
                 /\ log'[id[c]].checksum = Append(last[c], c)
      BY DEF k
    <2>1. /\ Table(log', drawn) /\ drawn' = drawn
          /\ id[c] \in 1 .. drawn /\ id[c] \notin DOMAIN log
      BY CommittedRow
    <2>2. /\ DOMAIN log' = DOMAIN log \union {id[c]}
          /\ \A i \in DOMAIN log : i # id[c] /\ log'[i] = log[i]
      BY CommittedRow
    <2>3. log'[id[c]].content = c
      BY CommittedRow
    <2>4. log'[id[c]].prev_checksum = last[c]
      BY CommittedRow
    <2>5. log'[id[c]].checksum = Append(last[c], c)
      BY CommittedRow
    <2> QED
      BY <2>1, <2>2, <2>3, <2>4, <2>5
  <1>2. /\ unlocked' = unlocked /\ last' = last /\ id' = id
        /\ pc[c] = "committing" /\ pc' = [pc EXCEPT ![c] = label]
        /\ pc \in [Calls -> {"idle", "locking", "reading", "inserting", "committing",
                             "logged", "raised"}]
    BY DEF Committed, Goto, Basic, TypeOK
  <1>3. \A d \in Calls : /\ pc'[d] = "inserting" => pc[d] = "inserting" /\ d # c
                         /\ pc'[d] = "committing" => pc[d] = "committing" /\ d # c
    BY <1>2
  <1>4. /\ \A i \in DOMAIN log : Locked(i)' <=> Locked(i)
        /\ \A i : i = k => (Locked(i)' <=> c \notin unlocked)
    BY <1>1, <1>2 DEF Locked
  <1>5. Rooted(last[c], k) /\ (c \notin unlocked => Covers(last[c], k))
    BY <1>2 DEF TreeInv, ReadInv
  <1>6. c \notin unlocked => \A j \in DOMAIN log : Locked(j) => j < k
    BY <1>2 DEF ReadInv
  <1>7. ASSUME NEW checksum, NEW b, Rooted(checksum, b)
        PROVE  Rooted(checksum, b)'
    BY <1>1, <1>7 DEF Rooted
  <1>8. ASSUME NEW checksum, NEW b, Covers(checksum, b), c \in unlocked \/ ~(k < b)
        PROVE  Covers(checksum, b)'
    <2>1. LockedBefore(b)' = LockedBefore(b)
      <3>1. ASSUME NEW j \in DOMAIN log
            PROVE  j \in DOMAIN log' /\ (Locked(j)' <=> Locked(j))
        BY <1>1, <1>4
      <3>2. \A j : j = k /\ j < b => ~Locked(j)'
        BY <1>4, <1>8
      <3>3. \A j \in DOMAIN log' : j \in DOMAIN log \/ j = k
        BY <1>1
      <3> QED
        BY <3>1, <3>2, <3>3 DEF LockedBefore
    <2> QED
      BY <1>1, <1>8, <2>1 DEF Covers
  <1>9. ASSUME NEW d \in Calls \ unlocked, pc[d] \in {"inserting", "committing"}, d # c
        PROVE  c \in unlocked
    BY <1>2, <1>9, NoCallAssumption DEF Basic, LockedInv, InTransaction
  <1>10. ReadInv'
    <2> SUFFICES ASSUME NEW d \in Calls \ unlocked
                 PROVE  /\ pc'[d] = "inserting" => Covers(last[d], drawn + 1)'
                        /\ pc'[d] = "committing" =>
                             /\ Covers(last[d], id[d])'
                             /\ \A j \in DOMAIN log' : Locked(j)' => j < id'[d]
      BY <1>2 DEF ReadInv
    <2>1. ASSUME pc'[d] = "inserting"
          PROVE  Covers(last[d], drawn + 1)'
      <3>1. Covers(last[d], drawn + 1) /\ c \in unlocked
        BY <1>3, <1>9, <2>1 DEF ReadInv
      <3> QED
        BY <1>1, <1>2, <1>8, <3>1
    <2>2. ASSUME pc'[d] = "committing"
          PROVE  /\ Covers(last[d], id[d])'
                 /\ \A j \in DOMAIN log' : Locked(j)' => j < id'[d]
      <3>1. /\ Covers(last[d], id[d]) /\ c \in unlocked
            /\ \A j \in DOMAIN log : Locked(j) => j < id[d]
        BY <1>3, <1>9, <2>2 DEF ReadInv
      <3> QED
        BY <1>1, <1>2, <1>4, <1>8, <3>1
    <2> QED
      BY <2>1, <2>2
  <1>11. RowsInv'
    <2> SUFFICES ASSUME NEW i \in DOMAIN log', Locked(i)'
                 PROVE  Covers(log[i].prev_checksum, i)'
      BY DEF RowsInv
    <2>1. CASE i \in DOMAIN log
      <3>1. Locked(i) /\ Covers(log[i].prev_checksum, i)
        BY <1>4, <2>1 DEF RowsInv
      <3>2. c \in unlocked \/ ~(k < i)
        BY <1>1, <1>6, <2>1, <3>1 DEF Basic, TypeOK
      <3> QED
        BY <1>1, <1>8, <2>1, <3>1, <3>2
    <2>2. CASE i = k
      <3>1. ~(k < k)
        BY <1>1 DEF Basic, TypeOK
      <3>2. c \notin unlocked
        BY <1>4, <2>2
      <3>3. Covers(last[c], k)
        BY <1>5, <3>2
      <3> QED
        BY <1>1, <1>8, <2>2, <3>1, <3>3
    <2> QED
      BY <1>1, <2>1, <2>2
  <1>12. ChainIsTree'
    <2> SUFFICES ASSUME NEW i \in DOMAIN log'
                 PROVE  /\ log'[i].checksum
                             = compute_checksum(log'[i].content, log'[i].prev_checksum)
                        /\ Rooted(log[i].prev_checksum, i)'
      BY DEF ChainIsTree, Rooted
    <2>1. CASE i \in DOMAIN log
      <3>1. /\ log[i].checksum = compute_checksum(log[i].content, log[i].prev_checksum)
            /\ Rooted(log[i].prev_checksum, i)
        BY <2>1 DEF TreeInv, ChainIsTree, Rooted
      <3> QED
        BY <1>1, <1>7, <2>1, <3>1
    <2>2. CASE i = k
      BY <1>1, <1>5, <1>7, <2>2 DEF compute_checksum
    <2> QED
      BY <1>1, <2>1, <2>2
  <1>13. TreeInv'
    <2>1. ASSUME NEW d \in Calls
          PROVE  /\ pc'[d] = "inserting" => Rooted(last[d], drawn + 1)'
                 /\ pc'[d] = "committing" => Rooted(last[d], id[d])'
      <3>1. /\ pc'[d] = "inserting" => Rooted(last[d], drawn + 1)
            /\ pc'[d] = "committing" => Rooted(last[d], id[d])
        BY <1>3 DEF TreeInv
      <3> QED
        BY <1>1, <1>2, <1>7, <3>1
    <2> QED
      BY <1>12, <2>1 DEF TreeInv
  <1> QED
    BY <1>10, <1>11, <1>13

IInv == Basic /\ ReadInv /\ RowsInv /\ TreeInv

\* Every step keeps the invariant.
LEMMA NextIInv == IInv /\ [Next]_vars => IInv'
  <1> SUFFICES ASSUME IInv, [Next]_vars PROVE IInv'
    OBVIOUS
  <1>1. Basic'
    BY NextBasic DEF IInv
  <1>2. ASSUME NEW c \in Calls,
               \/ Begin(c) \/ AcquireLock(c) \/ LockUnsupported(c) \/ NoConnection(c)
               \/ ReadLast(c) \/ Insert(c) \/ Fail(c)
        PROVE  ReadInv' /\ RowsInv' /\ TreeInv'
    BY <1>2, QuietKeepsRows DEF IInv
  <1>3. ASSUME NEW c \in Calls, Commit(c) \/ CommitUnacknowledged(c)
        PROVE  ReadInv' /\ RowsInv' /\ TreeInv'
    BY <1>3, CommittedKeepsRows DEF IInv, Commit, CommitUnacknowledged
  <1>4. ASSUME UNCHANGED vars
        PROVE  ReadInv' /\ RowsInv' /\ TreeInv'
    <2> USE <1>4 DEF vars, IInv, ReadInv, RowsInv, TreeInv, ChainIsTree, Covers, Rooted,
                     LockedBefore, Locked
    <2>1. ReadInv'
      OBVIOUS
    <2>2. RowsInv'
      OBVIOUS
    <2>3. TreeInv'
      OBVIOUS
    <2> QED
      BY <2>1, <2>2, <2>3
  <1> QED
    BY <1>1, <1>2, <1>3, <1>4 DEF Next, IInv

\* What a row was hashed onto and what a call has read is covered, and the chain is a tree.
THEOREM InductiveInvariant == Spec => []IInv
  <1>1. Init => IInv
    BY InitBasic DEF IInv
  <1> QED
    BY <1>1, NextIInv, PTL DEF Spec

\* With or without the lock every row hangs from nothing or from a row with a smaller id,
\* and carries the checksum of its own content.
THEOREM ChainStaysTree == Spec => []ChainIsTree
  <1>1. IInv => ChainIsTree
    BY DEF IInv, TreeInv
  <1> QED
    BY <1>1, InductiveInvariant, PTL

\* What verify_integrity reports of a table.
LEMMA ErrorsOf ==
  ASSUME NEW rows
  PROVE  /\ \A error \in verify_integrity(rows) :
              /\ error[1] \in DOMAIN rows
              /\ LET r == rows[error[1]]
                     p == PrevChecksum(rows, error[1])
                 IN  r.prev_checksum # p \/ r.checksum # compute_checksum(r.content, p)
         /\ verify_integrity(rows) = {} =>
              \A i \in DOMAIN rows :
                /\ rows[i].prev_checksum = PrevChecksum(rows, i)
                /\ rows[i].checksum = compute_checksum(rows[i].content, PrevChecksum(rows, i))
  <1> DEFINE L == {j \in DOMAIN rows : rows[j].prev_checksum # PrevChecksum(rows, j)}
             C == {j \in DOMAIN rows :
                     rows[j].checksum # compute_checksum(rows[j].content, PrevChecksum(rows, j))}
  <1>1. verify_integrity(rows) = {<<i, "prev">> : i \in L} \union {<<i, "checksum">> : i \in C}
    BY DEF verify_integrity
  <1>2. ASSUME NEW error \in verify_integrity(rows)
        PROVE  error[1] \in L \/ error[1] \in C
    BY <1>1
  <1>3. verify_integrity(rows) = {} => L = {} /\ C = {}
    <2> HIDE DEF L, C
    <2> QED
      BY <1>1
  <1> QED
    BY <1>2, <1>3

\* A row that verify_integrity accuses was written by a call that went on without the lock or
\* comes right after such a row, however many writers there are and however they interleave,
\* fail and lose their answers; where every call got the lock there is no false alarm.
THEOREM ForksComeUnlocked == Spec => []ForksAreUnlocked
  <1>1. IInv => ForksAreUnlocked
    <2> SUFFICES ASSUME IInv, NEW error \in verify_integrity(log), Locked(error[1])
                 PROVE  LET before == {j \in DOMAIN log : j < error[1]} IN
                          before # {} /\ ~Locked(Max(before))
      BY DEF ForksAreUnlocked
    <2> DEFINE i == error[1]
               before == {j \in DOMAIN log : j < i}
               y == Max(before)
               p == PrevChecksum(log, i)
    <2>1. i \in DOMAIN log /\ (log[i].prev_checksum # p
                                \/ log[i].checksum # compute_checksum(log[i].content, p))
      BY ErrorsOf
    <2>2. /\ Covers(log[i].prev_checksum, i)
          /\ log[i].checksum = compute_checksum(log[i].content, log[i].prev_checksum)
      BY <2>1 DEF IInv, RowsInv, TreeInv, ChainIsTree
    <2>3. log[i].prev_checksum # p
      BY <2>1, <2>2
    <2>4. drawn \in Nat /\ Table(log, drawn) /\ p = LastOf(log, before)
      BY LogIsTable DEF IInv, Basic, PrevChecksum
    <2>5. /\ before = {} => p = NULL
          /\ before # {} => /\ y \in before /\ \A k \in before : k <= y
                            /\ p = log[y].checksum
      BY <2>4, LastOfIs
    <2>6. \A j \in before : j \in Nat
      BY <2>4 DEF Table
    <2> HIDE DEF y, p, i
    <2>7. before # {}
      BY <2>2, <2>3, <2>5 DEF Covers
    <2>8. ASSUME Locked(y)
          PROVE  FALSE
      <3>1. y \in LockedBefore(i)
        BY <2>5, <2>7, <2>8 DEF LockedBefore
      <3>2. PICK z \in DOMAIN log : /\ z < i /\ log[z].checksum = log[i].prev_checksum
                                    /\ \A j \in LockedBefore(i) : j <= z
        BY <2>2, <3>1 DEF Covers
      <3>3. z \in before /\ z <= y /\ y <= z
        BY <2>5, <2>7, <3>1, <3>2
      <3>4. z = y
        BY <2>5, <2>6, <2>7, <3>3
      <3> QED
        BY <2>3, <2>5, <2>7, <3>2, <3>4
    <2> QED
      BY <2>7, <2>8 DEF i, y
  <1> QED
    BY <1>1, InductiveInvariant, PTL

-----------------------------------------------------------------------------
(***************************************************************************)
(* The history behind a checksum.                                          *)
(***************************************************************************)

\* The checksum of a row is that of the contents of the rows up to it.
StandsFor(i) ==
  /\ Len(log[i].checksum) = Rank(i)
  /\ \A j \in DOMAIN log : j <= i => log[i].checksum[Rank(j)] = log[j].content

\* There are finitely many rows.
LEMMA LogFinite == TypeOK => IsFiniteSet(DOMAIN log)
  <1> SUFFICES ASSUME TypeOK PROVE IsFiniteSet(DOMAIN log)
    OBVIOUS
  <1>1. drawn \in Nat /\ DOMAIN log \in SUBSET (1 .. drawn)
    BY DEF TypeOK
  <1>2. IsFiniteSet(1 .. drawn)
    BY <1>1, FS_Interval
  <1> QED
    BY <1>1, <1>2, FS_Subset

\* A row's rank is a number from 1 to that of any later row.
LEMMA RankGrows ==
  ASSUME TypeOK, NEW i \in DOMAIN log, NEW j \in DOMAIN log, j <= i
  PROVE  Rank(i) \in Nat /\ Rank(j) \in 1 .. Rank(i)
  <1> DEFINE Up(k) == {m \in DOMAIN log : m <= k}
  <1>1. /\ drawn \in Nat /\ DOMAIN log \subseteq 1 .. drawn
        /\ i \in Nat /\ j \in Nat
    BY DEF TypeOK
  <1>2. IsFiniteSet(DOMAIN log)
    BY LogFinite
  <1>3. IsFiniteSet(Up(i)) /\ IsFiniteSet(Up(j))
    <2>1. Up(i) \subseteq DOMAIN log /\ Up(j) \subseteq DOMAIN log
      OBVIOUS
    <2> QED
      BY <1>2, <2>1, FS_Subset
  <1>4. Up(j) \subseteq Up(i) /\ j \in Up(j)
    BY <1>1
  <1> HIDE DEF Up
  <1>5. Cardinality(Up(i)) \in Nat /\ Cardinality(Up(j)) \in Nat
    BY <1>3, FS_CardinalityType
  <1>6. Cardinality(Up(j)) <= Cardinality(Up(i))
    BY <1>3, <1>4, FS_Subset
  <1>7. Cardinality(Up(j)) # 0
    BY <1>3, <1>4, FS_EmptySet
  <1> QED
    BY <1>5, <1>6, <1>7 DEF Rank, Up

\* The rows up to one are that row and those up to the one before it.
LEMMA RankStep ==
  ASSUME TypeOK, NEW i \in DOMAIN log
  PROVE  LET before == {j \in DOMAIN log : j < i} IN
           Rank(i) = IF before = {} THEN 1 ELSE Rank(Max(before)) + 1
  <1> DEFINE before == {j \in DOMAIN log : j < i}
  <1>1. /\ drawn \in Nat /\ DOMAIN log \subseteq 1 .. drawn /\ i \in Nat
    BY DEF TypeOK
  <1>2. IsFiniteSet(before)
    <2>1. IsFiniteSet(DOMAIN log) /\ before \subseteq DOMAIN log
      BY LogFinite
    <2> QED
      BY <2>1, FS_Subset
  <1>3. {j \in DOMAIN log : j <= i} = before \union {i} /\ i \notin before
    BY <1>1
  <1>4. Rank(i) = Cardinality(before) + 1
    BY <1>2, <1>3, FS_AddElement DEF Rank
  <1>5. CASE before = {}
    BY <1>4, <1>5, FS_EmptySet
  <1>6. CASE before # {}
    <2>1. before \in SUBSET (0 .. drawn)
      BY <1>1
    <2>2. Max(before) \in before /\ \A k \in before : k <= Max(before)
      BY <1>1, <1>6, <2>1, GreatestOf
    <2>3. before = {j \in DOMAIN log : j <= Max(before)}
      BY <1>1, <2>2
    <2> QED
      BY <1>4, <1>6, <2>3 DEF Rank
  <1> QED
    BY <1>5, <1>6

\* A row that agrees with the one before it stands for its history if that one does.
LEMMA StandsNext ==
  ASSUME TypeOK, NEW i \in DOMAIN log,
         log[i].checksum = compute_checksum(log[i].content, PrevChecksum(log, i)),
         \A j \in DOMAIN log : j < i => StandsFor(j)
  PROVE  StandsFor(i)
  <1> DEFINE before == {j \in DOMAIN log : j < i}
             y == Max(before)
             p == PrevChecksum(log, i)
             s == log[i].checksum
  <1>1. /\ drawn \in Nat /\ Table(log, drawn) /\ p = LastOf(log, before)
        /\ i \in Nat /\ DOMAIN log \subseteq Nat
    BY LogIsTable DEF PrevChecksum, Table
  <1>2. /\ p \in Checksum
        /\ before = {} => p = NULL
        /\ before # {} => /\ y \in before /\ \A k \in before : k <= y
                          /\ p = log[y].checksum
    BY <1>1, LastOfIs
  <1>3. log[i].content \in Calls
    BY <1>1 DEF Table, Rows
  <1>4. Rank(i) = IF before = {} THEN 1 ELSE Rank(y) + 1
    BY RankStep
  <1>5. s = Append(p, log[i].content)
    BY DEF compute_checksum
  <1>6. \A j \in DOMAIN log : j <= i => j = i \/ j \in before
    BY <1>1
  <1> HIDE DEF p, s, y, before
  <1>7. /\ Len(s) = Len(p) + 1 /\ Len(p) \in Nat
        /\ \A m \in 1 .. Len(p) : s[m] = p[m]
        /\ s[Len(p) + 1] = log[i].content
    BY <1>2, <1>3, <1>5, AppendProperties, LenProperties DEF Checksum
  <1>8. Len(p) + 1 = Rank(i)
    <2>1. CASE before = {}
      BY <1>2, <1>4, <2>1, EmptySeq DEF NULL
    <2>2. CASE before # {}
      BY <1>2, <1>4, <2>2 DEF before, StandsFor
    <2> QED
      BY <2>1, <2>2
  <1>9. ASSUME NEW j \in before
        PROVE  s[Rank(j)] = log[j].content
    <2>1. y \in DOMAIN log /\ j \in DOMAIN log /\ j <= y /\ y < i
      BY <1>2, <1>9 DEF before
    <2>2. StandsFor(y) /\ Rank(j) \in 1 .. Rank(y)
      BY <2>1, RankGrows
    <2>3. Rank(j) \in 1 .. Len(p) /\ p[Rank(j)] = log[j].content
      BY <1>2, <1>9, <2>1, <2>2 DEF StandsFor
    <2> QED
      BY <1>7, <2>3
  <1> QED
    BY <1>6, <1>7, <1>8, <1>9 DEF StandsFor, s

\* Where verify_integrity has nothing to report the checksum of a row is that of exactly the
\* contents of the rows up to it: the first row of which that were not so would be hashed
\* onto one of which it is.
THEOREM HeadCommits == Spec => []HeadCommitsToHistory
  <1>1. TypeOK => HeadCommitsToHistory
    <2> SUFFICES ASSUME TypeOK, verify_integrity(log) = {}
                 PROVE  \A i \in DOMAIN log : StandsFor(i)
      BY DEF HeadCommitsToHistory, StandsFor
    <2> DEFINE bad == {i \in DOMAIN log : ~StandsFor(i)}
    <2> SUFFICES ASSUME bad # {}
                 PROVE  FALSE
      OBVIOUS
    <2>1. bad \in SUBSET Nat
      BY DEF TypeOK
    <2>2. PICK i \in bad : \A k \in bad : i <= k
      BY <2>1, LeastOf
    <2>3. \A j \in DOMAIN log : j < i => StandsFor(j)
      BY <2>1, <2>2 DEF TypeOK
    <2>4. log[i].checksum = compute_checksum(log[i].content, PrevChecksum(log, i))
      BY ErrorsOf
    <2> QED
      BY <2>2, <2>3, <2>4, StandsNext
  <1> QED
    BY <1>1, TypeCorrect, PTL

-----------------------------------------------------------------------------
(***************************************************************************)
(* One row per call.                                                       *)
(***************************************************************************)

\* A call adds its row once, on its way to having returned or raised.
LEMMA OneRowStep == Basic /\ LoggedOnce /\ [Next]_vars => LoggedOnce'
  <1> SUFFICES ASSUME Basic, LoggedOnce, [Next]_vars PROVE LoggedOnce'
    OBVIOUS
  <1>1. ASSUME NEW c \in Calls, NEW label \in {"logged", "raised"}, Committed(c, label)
        PROVE  LoggedOnce'
    <2>1. /\ DOMAIN log' = DOMAIN log \union {id[c]}
          /\ \A i \in DOMAIN log : i # id[c] /\ log'[i] = log[i]
      BY <1>1, CommittedRow
    <2>2. log'[id[c]].content = c
      BY <1>1, CommittedRow
    <2>3. pc' = [pc EXCEPT ![c] = label] /\ pc[c] = "committing"
      BY <1>1 DEF Committed, Goto
    <2>4. \A i \in DOMAIN log : log[i].content # c
      BY <2>3 DEF LoggedOnce
    <2> SUFFICES ASSUME NEW d \in Calls
                 PROVE  /\ pc'[d] = "logged" => \E i \in DOMAIN log' : log'[i].content = d
                        /\ pc'[d] \notin {"logged", "raised"}
                             => \A i \in DOMAIN log' : log'[i].content # d
                        /\ \A i, j \in DOMAIN log' :
                             log'[i].content = d /\ log'[j].content = d => i = j
      BY DEF LoggedOnce
    <2>5. CASE d = c
      BY <2>1, <2>2, <2>3, <2>4, <2>5 DEF Basic, TypeOK
    <2>6. CASE d # c
      BY <2>1, <2>2, <2>3, <2>6 DEF Basic, TypeOK, LoggedOnce
    <2> QED
      BY <2>5, <2>6
  <1>2. ASSUME NEW c \in Calls,
               \/ Begin(c) \/ AcquireLock(c) \/ LockUnsupported(c) \/ NoConnection(c)
               \/ ReadLast(c) \/ Insert(c) \/ Fail(c)
        PROVE  LoggedOnce'
    <2>1. log' = log
      BY <1>2, QuietStep
    <2>2. \A d \in Calls : /\ pc'[d] = "logged" => pc[d] = "logged"
                           /\ pc'[d] \notin {"logged", "raised"}
                                => pc[d] \notin {"logged", "raised"}
      BY <1>2 DEF Begin, AcquireLock, LockUnsupported, NoConnection, GoOnUnlocked, ReadLast,
                  Insert, Fail, Goto, Basic, TypeOK
    <2> QED
      BY <2>1, <2>2 DEF LoggedOnce
  <1>3. CASE UNCHANGED vars
    BY <1>3 DEF vars, LoggedOnce
  <1> QED
    BY <1>1, <1>2, <1>3 DEF Next, Commit, CommitUnacknowledged

\* A call of log that returned has exactly one row, one that raised at most one,
\* one that has not reached its commit none.
THEOREM LoggedExactlyOnce == Spec => []LoggedOnce
  <1>1. DOMAIN <<>> = {}
    OBVIOUS
  <1>2. Init => LoggedOnce
    BY <1>1 DEF Init, LoggedOnce
  <1> QED
    BY <1>2, OneRowStep, BasicAlways, PTL DEF Spec

-----------------------------------------------------------------------------
(***************************************************************************)
(* The ledger.                                                             *)
(***************************************************************************)

Entries == [i \in DOMAIN log |-> log[i].content]

\* An empty table is an empty ledger.
LEMMA LedgerInit == Init => Ledger!Init
  <1> SUFFICES ASSUME Init PROVE Ledger!Init
    OBVIOUS
  <1>1. Entries = <<>>
    BY EmptySeq DEF Init, Entries
  <1> QED
    BY <1>1 DEF Init, Ledger!Init, Outcome, Entries

\* Each statement of a call is a step of the ledger, or none.
LEMMA LedgerStep == Basic /\ [Next]_vars => [Ledger!Next]_(Ledger!vars)
  <1> SUFFICES ASSUME Basic, [Next]_vars PROVE [Ledger!Next]_(Ledger!vars)
    OBVIOUS
  <1> DEFINE call == [c \in Calls |-> Outcome(c)]
  <1>1. ASSUME NEW c \in Calls, Begin(c) PROVE Ledger!Open(c)
    <2>1. call[c] = "idle"
      BY <1>1 DEF Begin, Outcome
    <2>2. call' = [call EXCEPT ![c] = "open"]
      BY <1>1 DEF Begin, Goto, Outcome, Basic, TypeOK
    <2>3. UNCHANGED Entries /\ DOMAIN Entries = DOMAIN log
      BY <1>1 DEF Begin, Entries
    <2>4. began' = [began EXCEPT ![c] = IF DOMAIN Entries = {} THEN 0 ELSE Max(DOMAIN Entries)]
      BY <1>1, <2>3 DEF Begin
    <2> QED
      BY <2>1, <2>2, <2>3, <2>4 DEF Ledger!Open, Entries, Max, Ledger!Max
  <1>2. ASSUME NEW c \in Calls,
               \/ AcquireLock(c) \/ LockUnsupported(c) \/ NoConnection(c)
               \/ ReadLast(c) \/ Insert(c)
        PROVE  UNCHANGED Ledger!vars
    <2>1. call' = call
      BY <1>2 DEF AcquireLock, LockUnsupported, NoConnection, GoOnUnlocked, ReadLast, Insert,
                  Goto, Outcome, Basic, TypeOK
    <2>2. UNCHANGED <<Entries, began>>
      BY <1>2 DEF AcquireLock, LockUnsupported, NoConnection, GoOnUnlocked, ReadLast, Insert,
                  Entries
    <2> QED
      BY <2>1, <2>2 DEF Ledger!vars, Entries
  <1>3. ASSUME NEW c \in Calls, NEW label \in {"logged", "raised"}, Committed(c, label)
        PROVE  Ledger!Record(c)
    <2>1. call[c] = "open"
      BY <1>3 DEF Committed, Outcome
    <2>2. call' = [call EXCEPT ![c] = label] /\ UNCHANGED began
      BY <1>3 DEF Committed, Goto, Outcome, Basic, TypeOK
    <2>3. /\ DOMAIN log' = DOMAIN log \union {id[c]}
          /\ \A i \in DOMAIN log : i # id[c] /\ log'[i] = log[i]
      BY <1>3, CommittedRow
    <2>4. log'[id[c]].content = c
      BY <1>3, CommittedRow
    <2>5. id[c] > began[c] /\ id[c] \notin DOMAIN log
      BY <1>3 DEF Committed, Basic, IdInv
    <2>6. DOMAIN Entries = DOMAIN log /\ DOMAIN Entries' = DOMAIN log'
      BY DEF Entries
    <2>7. Entries' = [m \in DOMAIN Entries \union {id[c]} |->
                        IF m = id[c] THEN c ELSE Entries[m]]
      BY <2>3, <2>4, <2>5 DEF Entries
    <2>8. \E n \in DOMAIN Entries' \ DOMAIN Entries :
            /\ n > began[c]
            /\ Entries' = [m \in DOMAIN Entries \union {n} |-> IF m = n THEN c ELSE Entries[m]]
      BY <2>3, <2>5, <2>6, <2>7
    <2>9. \E result \in {"logged", "raised"} : call' = [call EXCEPT ![c] = result]
      BY <2>2
    <2> QED
      BY <2>1, <2>2, <2>8, <2>9 DEF Ledger!Record, Entries
  <1>4. ASSUME NEW c \in Calls, Fail(c) PROVE Ledger!Refuse(c)
    <2>1. call[c] = "open"
      BY <1>4 DEF Fail, Outcome
    <2>2. call' = [call EXCEPT ![c] = "raised"]
      BY <1>4 DEF Fail, Goto, Outcome, Basic, TypeOK
    <2>3. UNCHANGED <<Entries, began>>
      BY <1>4 DEF Fail, Entries
    <2> QED
      BY <2>1, <2>2, <2>3 DEF Ledger!Refuse, Entries
  <1>5. CASE UNCHANGED vars
    BY <1>5 DEF vars, Ledger!vars, Outcome
  <1> QED
    BY <1>1, <1>2, <1>3, <1>4, <1>5 DEF Next, Ledger!Next, Commit, CommitUnacknowledged

\* log implements the ledger, with or without the lock: one entry per call that returned, at
\* most one per call that raised, none changed or lost, each after all that were there when
\* its call began.
THEOREM LogImplementsLedger == Spec => ImplementsLedger
  BY LedgerInit, LedgerStep, BasicAlways, PTL DEF Spec, ImplementsLedger, Ledger!Spec
=============================================================================
