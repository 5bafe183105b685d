-------------------------- MODULE AuditDamageProofs -------------------------
(***************************************************************************)
(* Proofs about AuditDamage, for any set of calls: where verify_integrity  *)
(* points after one damage to a chain written under the lock, and any      *)
(* number of rows logged before and after it.                              *)
(*                                                                         *)
(* A row agrees with the one before it or is broken, and a row that is     *)
(* added after the others leaves them as they were.  What has to be known  *)
(* of the calls is whether the one that holds the lock has read the        *)
(* checksum that is still the last: not if the row it read was lost, or    *)
(* repeated.                                                               *)
(***************************************************************************)
EXTENDS AuditDamage, AuditChainProofs

-----------------------------------------------------------------------------
\* Rows and the ones before them.

LinkAgrees(rows, i) == rows[i].prev_checksum = PrevChecksum(rows, i)

SumAgrees(rows, i) ==
  rows[i].checksum = compute_checksum(rows[i].content, PrevChecksum(rows, i))

Agrees(rows, i) == LinkAgrees(rows, i) /\ SumAgrees(rows, i)

Broken(rows, i) == ~LinkAgrees(rows, i) /\ ~SumAgrees(rows, i)

\* The errors of verify_integrity, by row.
LEMMA ErrorsByRow ==
  ASSUME NEW rows
  PROVE  verify_integrity(rows) =
           {<<i, "prev">> : i \in {j \in DOMAIN rows : ~LinkAgrees(rows, j)}} \union
           {<<i, "checksum">> : i \in {j \in DOMAIN rows : ~SumAgrees(rows, j)}}
  BY DEF verify_integrity, LinkAgrees, SumAgrees

\* A checksum hashed onto another is not that one, and two of one content are equal only
\* if what they were hashed onto is.
LEMMA AppendDiffers ==
  ASSUME NEW p \in Checksum, NEW q \in Checksum, NEW c \in Calls, NEW d \in Calls
  PROVE  /\ Append(p, c) \in Checksum /\ Append(p, c) # p
         /\ Len(Append(p, c)) = Len(p) + 1 /\ Len(p) \in Nat
         /\ Append(p, c) = Append(q, d) => p = q /\ c = d
  <1>1. /\ Append(p, c) \in Seq(Calls) /\ Len(Append(p, c)) = Len(p) + 1
        /\ Len(Append(q, d)) = Len(q) + 1
        /\ Len(p) \in Nat /\ Len(q) \in Nat
    BY AppendProperties, LenProperties DEF Checksum
  <1>2. ASSUME Append(p, c) = Append(q, d)
        PROVE  p = q /\ c = d
    <2>1. Len(p) = Len(q)
      BY <1>1, <1>2
    <2>2. /\ \A i \in 1 .. Len(p) : Append(p, c)[i] = p[i]
          /\ \A i \in 1 .. Len(q) : Append(q, d)[i] = q[i]
          /\ Append(p, c)[Len(p) + 1] = c /\ Append(q, d)[Len(q) + 1] = d
      BY AppendProperties DEF Checksum
    <2>3. \A i \in 1 .. Len(p) : p[i] = q[i]
      BY <2>1, <2>2, <1>2
    <2>4. p = q
      BY <2>1, <2>3, SeqEqual DEF Checksum
    <2> QED
      BY <2>1, <2>2, <2>4, <1>2
  <1>3. Append(p, c) # p
    BY <1>1
  <1> QED
    BY <1>1, <1>2, <1>3 DEF Checksum

\* The checksum before a row, and what a row is made of.
LEMMA PrevIs ==
  ASSUME NEW b \in Nat, NEW rows, Table(rows, b), NEW i \in DOMAIN rows
  PROVE  LET before == {j \in DOMAIN rows : j < i} IN
         /\ PrevChecksum(rows, i) \in Checksum
         /\ i \in Nat /\ rows[i] \in Rows
         /\ rows[i].content \in Calls /\ rows[i].checksum \in Checksum
         /\ rows[i].prev_checksum \in Checksum
         /\ before = {} => PrevChecksum(rows, i) = NULL
         /\ before # {} => /\ Max(before) \in before
                           /\ PrevChecksum(rows, i) = rows[Max(before)].checksum
  <1>1. i \in Nat /\ rows[i] \in Rows
    BY DEF Table
  <1>2. {j \in DOMAIN rows : j < i} \in SUBSET DOMAIN rows
    OBVIOUS
  <1> QED
    BY <1>1, <1>2, LastOfIs DEF PrevChecksum, Rows

\* A row between others is the only one that can come before the next of them.
LEMMA PrevWithRow ==
  ASSUME NEW b \in Nat, NEW rows, Table(rows, b), NEW k \in 1 .. b, k \notin DOMAIN rows,
         NEW r \in Rows, NEW i \in DOMAIN rows
  PROVE  LET more == WithRow(rows, k, r) IN
         /\ i < k => PrevChecksum(more, i) = PrevChecksum(rows, i)
         /\ PrevChecksum(more, i) \in {PrevChecksum(rows, i), r.checksum}
  <1> DEFINE more == WithRow(rows, k, r)
             old == {j \in DOMAIN rows : j < i}
             new == {j \in DOMAIN more : j < i}
  <1>1. /\ Table(more, b)
        /\ DOMAIN more = DOMAIN rows \union {k}
        /\ more[k] = r
        /\ \A j \in DOMAIN rows : j # k /\ more[j] = rows[j]
    <2>1. Table(more, b)
      BY AddRow
    <2>2. DOMAIN more = DOMAIN rows \union {k} /\ more[k] = r
      BY DEF WithRow
    <2>3. \A j \in DOMAIN rows : j # k /\ more[j] = rows[j]
      BY DEF WithRow
    <2> QED
      BY <2>1, <2>2, <2>3
  <1> HIDE DEF more
  <1>2. /\ PrevChecksum(more, i) = LastOf(more, new)
        /\ PrevChecksum(rows, i) = LastOf(rows, old)
        /\ new \in SUBSET DOMAIN more /\ old \in SUBSET DOMAIN rows
    BY DEF PrevChecksum
  <1>3. /\ new = {} => LastOf(more, new) = NULL
        /\ new # {} => /\ Max(new) \in new /\ \A j \in new : j <= Max(new)
                       /\ LastOf(more, new) = more[Max(new)].checksum
    BY <1>1, <1>2, LastOfIs
  <1>4. /\ old = {} => LastOf(rows, old) = NULL
        /\ old # {} => /\ Max(old) \in old /\ \A j \in old : j <= Max(old)
                       /\ LastOf(rows, old) = rows[Max(old)].checksum
    BY <1>2, LastOfIs
  <1>5. \A j \in DOMAIN more : j \in Nat
    BY <1>1 DEF Table
  <1>6. i < k => new = old
    BY <1>1, <1>5
  <1>7. new = old \/ new = old \union {k}
    BY <1>1
  <1> HIDE DEF old, new
  <1>8. CASE new = old
    BY <1>1, <1>2, <1>3, <1>4, <1>8 DEF old, more
  <1>9. CASE new # old
    <2>1. new = old \union {k} /\ new # {}
      BY <1>7, <1>9
    <2>2. CASE Max(new) = k
      BY <1>1, <1>2, <1>3, <1>6, <1>9, <2>1, <2>2 DEF more
    <2>3. CASE Max(new) # k
      <3>1. Max(new) \in old /\ \A j \in old : j <= Max(new)
        BY <1>3, <2>1, <2>3
      <3>2. Max(old) = Max(new)
        BY <1>4, <1>5, <1>1, <1>2, <3>1
      <3> QED
        BY <1>1, <1>2, <1>3, <1>4, <1>6, <1>9, <2>1, <3>1, <3>2 DEF old, more
    <2> QED
      BY <2>2, <2>3
  <1> QED
    BY <1>8, <1>9

\* A call's row that comes after all others leaves them as they agree or not; and it agrees,
\* if what the call read is the last checksum, and is broken if not.
LEMMA AddedLast ==
  ASSUME NEW b \in Nat, NEW rows, Table(rows, b), NEW k \in 1 .. b,
         \A i \in DOMAIN rows : i < k,
         NEW r \in Rows
  PROVE  LET more == WithRow(rows, k, r) IN
         /\ Table(more, b)
         /\ DOMAIN more = DOMAIN rows \union {k} /\ k \notin DOMAIN rows
         /\ \A i \in DOMAIN rows : /\ more[i] = rows[i]
                                   /\ LinkAgrees(more, i) <=> LinkAgrees(rows, i)
                                   /\ SumAgrees(more, i) <=> SumAgrees(rows, i)
         /\ more[k] = r
         /\ PrevChecksum(more, k) = LastChecksum(rows)
  <1> DEFINE more == WithRow(rows, k, r)
  <1>1. k \notin DOMAIN rows
    OBVIOUS
  <1>2. /\ Table(more, b)
        /\ DOMAIN more = DOMAIN rows \union {k}
        /\ more[k] = r
        /\ \A i \in DOMAIN rows : more[i] = rows[i]
    <2>1. Table(more, b)
      BY <1>1, AddRow
    <2>2. DOMAIN more = DOMAIN rows \union {k} /\ more[k] = r
      BY DEF WithRow
    <2>3. \A i \in DOMAIN rows : more[i] = rows[i]
      BY <1>1 DEF WithRow
    <2> QED
      BY <2>1, <2>2, <2>3
  <1>3. \A i \in DOMAIN rows : PrevChecksum(more, i) = PrevChecksum(rows, i)
    BY <1>1, PrevWithRow
  <1> HIDE DEF more
  <1>4. {j \in DOMAIN more : j < k} = DOMAIN rows
    BY <1>2
  <1>5. PrevChecksum(more, k) = LastChecksum(rows)
    <2>1. PrevChecksum(more, k) = LastOf(more, DOMAIN rows)
      BY <1>4 DEF PrevChecksum
    <2>2. DOMAIN rows # {} => Max(DOMAIN rows) \in DOMAIN rows
      BY LastOfIs
    <2> QED
      BY <1>2, <2>1, <2>2 DEF LastOf, LastChecksum
  <1> QED
    BY <1>1, <1>2, <1>3, <1>5 DEF LinkAgrees, SumAgrees, more

\* A row hashed onto what is not before it is broken, one hashed onto what is agrees.
LEMMA HashedOnto ==
  ASSUME NEW b \in Nat, NEW rows, Table(rows, b), NEW i \in DOMAIN rows,
         rows[i].checksum = compute_checksum(rows[i].content, rows[i].prev_checksum)
  PROVE  IF rows[i].prev_checksum = PrevChecksum(rows, i) THEN Agrees(rows, i)
                                                           ELSE Broken(rows, i)
  <1> DEFINE p == PrevChecksum(rows, i)
             q == rows[i].prev_checksum
             c == rows[i].content
  <1>1. p \in Checksum /\ q \in Checksum /\ c \in Calls
    BY PrevIs
  <1>2. Append(p, c) = Append(q, c) => p = q
    BY <1>1, AppendDiffers
  <1> QED
    BY <1>2 DEF Agrees, Broken, LinkAgrees, SumAgrees, compute_checksum

-----------------------------------------------------------------------------
\* The invariant.

\* What calls have read is the last checksum, and what they have inserted comes last.
FreshInv ==
  \A c \in Calls : pc[c] \in {"inserting", "committing"} => last[c] = LastChecksum(log)

TopInv ==
  \A c \in Calls : pc[c] = "committing" => \A j \in DOMAIN log : j < id[c]

AllAgreeBut(rows) == \A j \in DOMAIN log \ rows : Agrees(log, j)

\* No two rows have checksums of one length: each is longer than those before.
GrowingInv ==
  \A i, j \in DOMAIN log : i < j => Len(log[i].checksum) < Len(log[j].checksum)

FirstLater == Min(Later)     \* the row that comes first after the damaged place

Intact == FreshInv /\ TopInv /\ GrowingInv /\ AllAgreeBut({})

AlteredInv ==
  /\ FreshInv /\ TopInv
  /\ place \in DOMAIN log /\ AllAgreeBut({place})
  /\ LinkAgrees(log, place) /\ ~SumAgrees(log, place)

LostInv ==
  /\ FreshInv /\ TopInv
  /\ Later # {} /\ AllAgreeBut({FirstLater}) /\ Broken(log, FirstLater)

\* The call that has read the lost last row commits in its place, or nobody does.
LostTailInv ==
  /\ TopInv
  /\ \A c \in Calls : pc[c] = "committing" => place < id[c]
  /\ IF Later = {} THEN AllAgreeBut({})
     ELSE /\ FreshInv /\ AllAgreeBut({FirstLater})
          /\ Agrees(log, FirstLater) \/ Broken(log, FirstLater)

\* A row that is still committed before the repeated one has a longer checksum than what
\* that was hashed onto.
RepeatedInv ==
  /\ place \in DOMAIN log /\ Broken(log, place)
  /\ log[place].checksum = compute_checksum(log[place].content, log[place].prev_checksum)
  /\ \A c \in Calls : pc[c] = "committing" /\ id[c] < place =>
       Len(log[place].prev_checksum) <= Len(last[c])

DamageInv ==
  /\ Basic
  /\ damage \in {NoDamage, "altered", "lost", "repeated", "lost_tail"}
  /\ place \in 0 .. drawn
  /\ unlocked = {} =>
       /\ damage = NoDamage => Intact
       /\ damage = "altered" => AlteredInv
       /\ damage = "lost" => LostInv
       /\ damage = "lost_tail" => LostTailInv
       /\ damage = "repeated" => RepeatedInv

-----------------------------------------------------------------------------
\* The application's steps.

\* While no call has gone on without the lock, a step that leaves the table alone leaves
\* what the holder of the lock has read, and an id it draws is greater than all.
LEMMA QuietApplication ==
  ASSUME Basic, unlocked' = {}, NEW c \in Calls,
         \/ Begin(c) \/ AcquireLock(c) \/ LockUnsupported(c) \/ NoConnection(c)
         \/ ReadLast(c) \/ Insert(c) \/ Fail(c)
  PROVE  /\ log' = log /\ unlocked = {} /\ drawn' \in {drawn, drawn + 1}
         /\ FreshInv => FreshInv'
         /\ \A d \in Calls : pc'[d] = "committing" =>
              \/ pc[d] = "committing" /\ id'[d] = id[d] /\ last'[d] = last[d]
              \/ id'[d] = drawn + 1
  <1>1. log' = log
    BY QuietStep
  <1>2. unlocked = {}
    BY DEF Begin, AcquireLock, LockUnsupported, NoConnection, GoOnUnlocked, ReadLast, Insert, Fail
  <1>3. drawn' \in {drawn, drawn + 1}
    BY DEF Begin, AcquireLock, LockUnsupported, NoConnection, GoOnUnlocked, ReadLast, Insert, Fail
  <1>4. ASSUME NEW d \in Calls, pc'[d] \in {"inserting", "committing"}
        PROVE  \/ last'[d] = LastChecksum(log)
               \/ pc[d] \in {"inserting", "committing"} /\ last'[d] = last[d]
    BY <1>4 DEF Begin, AcquireLock, LockUnsupported, NoConnection, GoOnUnlocked, ReadLast,
                Insert, Fail, Goto, Basic, TypeOK
  <1>5. ASSUME NEW d \in Calls, pc'[d] = "committing"
        PROVE  \/ pc[d] = "committing" /\ id'[d] = id[d] /\ last'[d] = last[d]
               \/ id'[d] = drawn + 1
    BY <1>5 DEF Begin, AcquireLock, LockUnsupported, NoConnection, GoOnUnlocked, ReadLast,
                Insert, Fail, Goto, Basic, TypeOK
  <1> QED
    BY <1>1, <1>2, <1>3, <1>4, <1>5 DEF FreshInv

\* A commit ends the only transaction there is.
LEMMA CommitApplication ==
  ASSUME Basic, unlocked' = {}, NEW c \in Calls, NEW label \in {"logged", "raised"},
         Committed(c, label)
  PROVE  /\ unlocked = {} /\ drawn' = drawn /\ pc[c] = "committing"
         /\ \A d \in Calls : pc'[d] \notin {"inserting", "committing"}
         /\ log' = WithRow(log, id[c], Row(c, last[c]))
         /\ FreshInv' /\ TopInv'
         /\ FreshInv => last[c] = LastChecksum(log)
  <1>1. /\ unlocked = {} /\ pc[c] = "committing" /\ pc' = [pc EXCEPT ![c] = label]
        /\ log' = WithRow(log, id[c], Row(c, last[c])) /\ drawn' = drawn
    BY DEF Committed, Goto
  <1>2. \A d \in Calls : pc[d] \in InTransaction => d = c
    BY <1>1, NoCallAssumption DEF Basic, LockedInv, InTransaction
  <1>3. \A d \in Calls : pc'[d] \notin {"inserting", "committing"}
    BY <1>1, <1>2 DEF InTransaction, Basic, TypeOK
  <1> QED
    BY <1>1, <1>3 DEF FreshInv, TopInv

\* Where the table stays, so does what is known of it.
LEMMA QuietKeepsDamage ==
  ASSUME DamageInv, unlocked' = {}, UNCHANGED <<damage, place>>, NEW c \in Calls,
         \/ Begin(c) \/ AcquireLock(c) \/ LockUnsupported(c) \/ NoConnection(c)
         \/ ReadLast(c) \/ Insert(c) \/ Fail(c)
  PROVE  /\ damage' = NoDamage => Intact'
         /\ damage' = "altered" => AlteredInv'
         /\ damage' = "lost" => LostInv'
         /\ damage' = "lost_tail" => LostTailInv'
         /\ damage' = "repeated" => RepeatedInv'
  <1>1. /\ log' = log /\ unlocked = {} /\ drawn' \in {drawn, drawn + 1}
        /\ FreshInv => FreshInv'
        /\ \A d \in Calls : pc'[d] = "committing" =>
             \/ pc[d] = "committing" /\ id'[d] = id[d] /\ last'[d] = last[d]
             \/ id'[d] = drawn + 1
    BY QuietApplication DEF DamageInv
  <1>2. damage' = damage /\ place' = place /\ Later' = Later /\ place \in 0 .. drawn
        /\ FirstLater' = FirstLater
    BY <1>1 DEF Later, DamageInv, FirstLater
  <1>3. drawn \in Nat /\ \A j \in DOMAIN log : j \in 1 .. drawn
    BY DEF DamageInv, Basic, TypeOK
  <1>4. TopInv => TopInv'
    BY <1>1, <1>3 DEF TopInv
  <1>5. /\ GrowingInv => GrowingInv'
        /\ \A rows : AllAgreeBut(rows) => AllAgreeBut(rows)'
        /\ \A i : /\ Agrees(log, i) <=> Agrees(log', i)
                  /\ Broken(log, i) <=> Broken(log', i)
                  /\ LinkAgrees(log, i) <=> LinkAgrees(log', i)
                  /\ SumAgrees(log, i) <=> SumAgrees(log', i)
    BY <1>1 DEF GrowingInv, AllAgreeBut
  <1>6. ASSUME damage = NoDamage
        PROVE  Intact'
    BY <1>1, <1>4, <1>5, <1>6 DEF DamageInv, Intact
  <1>7. ASSUME damage = "altered"
        PROVE  AlteredInv'
    BY <1>1, <1>2, <1>4, <1>5, <1>7 DEF DamageInv, AlteredInv, AllAgreeBut
  <1>8. ASSUME damage = "lost"
        PROVE  LostInv'
    BY <1>1, <1>2, <1>4, <1>5, <1>8 DEF DamageInv, LostInv, AllAgreeBut
  <1>9. ASSUME damage = "lost_tail"
        PROVE  LostTailInv'
    <2>1. \A d \in Calls : pc'[d] = "committing" => place' < id'[d]
      BY <1>1, <1>2, <1>3, <1>9 DEF DamageInv, LostTailInv
    <2> QED
      BY <1>1, <1>2, <1>4, <1>5, <1>9, <2>1 DEF DamageInv, LostTailInv, AllAgreeBut
  <1>10. ASSUME damage = "repeated"
         PROVE  RepeatedInv'
    <2>1. \A d \in Calls : pc'[d] = "committing" /\ id'[d] < place =>
            pc[d] = "committing" /\ id'[d] = id[d] /\ last'[d] = last[d]
      BY <1>1, <1>2, <1>3
    <2> QED
      BY <1>1, <1>2, <1>5, <1>10, <2>1 DEF DamageInv, RepeatedInv
  <1> QED
    BY <1>2, <1>6, <1>7, <1>8, <1>9, <1>10

\* A row that is committed after all others agrees or is broken, and the others stay as they
\* are; the first row after the damaged place is still that, or is this one.
LEMMA CommitKeepsDamage ==
  ASSUME DamageInv, unlocked' = {}, UNCHANGED <<damage, place>>,
         NEW c \in Calls, NEW label \in {"logged", "raised"}, Committed(c, label)
  PROVE  /\ damage' = NoDamage => Intact'
         /\ damage' = "altered" => AlteredInv'
         /\ damage' = "lost" => LostInv'
         /\ damage' = "lost_tail" => LostTailInv'
         /\ damage' = "repeated" => RepeatedInv'
  <1> DEFINE r == Row(c, last[c])
  <1>1. Basic
    BY DEF DamageInv
  <1>2. /\ unlocked = {} /\ drawn' = drawn /\ pc[c] = "committing"
        /\ \A d \in Calls : pc'[d] \notin {"inserting", "committing"}
        /\ log' = WithRow(log, id[c], r)
        /\ FreshInv' /\ TopInv'
        /\ FreshInv => last[c] = LastChecksum(log)
    BY <1>1, CommitApplication
  <1>3. /\ last[c] \in Checksum /\ r \in Rows /\ r.content = c /\ r.prev_checksum = last[c]
        /\ r.checksum = Append(last[c], c)
    BY <1>1, RowType DEF Basic, TypeOK
  <1>4. drawn \in Nat /\ Table(log, drawn)
    BY <1>1, LogIsTable DEF Basic
  <1> HIDE DEF r
  <1>5. PICK k \in 1 .. drawn : k = id[c] /\ k \notin DOMAIN log
    BY <1>1, <1>2 DEF Basic, IdInv
  <1>6. log' = WithRow(log, k, r)
    BY <1>2, <1>5
  <1>7. damage' = damage /\ place' = place /\ place \in Nat
    BY <1>4 DEF DamageInv
  <1>8. ASSUME TopInv
        PROVE  /\ Table(log', drawn)
               /\ DOMAIN log' = DOMAIN log \union {k}
               /\ \A i \in DOMAIN log : i < k
               /\ \A i \in DOMAIN log : /\ log'[i] = log[i]
                                        /\ LinkAgrees(log', i) <=> LinkAgrees(log, i)
                                        /\ SumAgrees(log', i) <=> SumAgrees(log, i)
               /\ log'[k] = r
               /\ IF last[c] = LastChecksum(log) THEN Agrees(log', k) ELSE Broken(log', k)
    <2>1. \A i \in DOMAIN log : i < k
      BY <1>2, <1>5, <1>8 DEF TopInv
    <2>2. Table(log', drawn)
      BY <1>3, <1>4, <1>6, <2>1, AddedLast
    <2>3. /\ DOMAIN log' = DOMAIN log \union {k}
          /\ \A i \in DOMAIN log : /\ log'[i] = log[i]
                                   /\ LinkAgrees(log', i) <=> LinkAgrees(log, i)
                                   /\ SumAgrees(log', i) <=> SumAgrees(log, i)
      <3>1. DOMAIN log' = DOMAIN log \union {k}
        BY <1>6 DEF WithRow
      <3>2. \A i \in DOMAIN log : log'[i] = log[i]
        BY <1>5, <1>6 DEF WithRow
      <3>3. \A i \in DOMAIN log : LinkAgrees(log', i) <=> LinkAgrees(log, i)
        BY <1>3, <1>4, <1>6, <2>1, AddedLast
      <3>4. \A i \in DOMAIN log : SumAgrees(log', i) <=> SumAgrees(log, i)
        BY <1>3, <1>4, <1>6, <2>1, AddedLast
      <3> QED
        BY <3>1, <3>2, <3>3, <3>4
    <2>4. log'[k] = r
      BY <1>6 DEF WithRow
    <2>5. PrevChecksum(log', k) = LastChecksum(log)
      BY <1>3, <1>4, <1>6, <2>1, AddedLast
    <2>6. IF last[c] = LastChecksum(log) THEN Agrees(log', k) ELSE Broken(log', k)
      <3>1. k \in DOMAIN log'
        BY <2>3
      <3>2. /\ log'[k].checksum = compute_checksum(log'[k].content, log'[k].prev_checksum)
            /\ log'[k].prev_checksum = last[c]
        BY <1>3, <2>4 DEF compute_checksum
      <3> HIDE DEF r
      <3> QED
        BY <1>4, <2>2, <2>5, <3>1, <3>2, HashedOnto
    <2> QED
      BY <2>1, <2>2, <2>3, <2>4, <2>6
  <1>9. \A S : TopInv /\ FreshInv /\ AllAgreeBut(S) => \A j \in DOMAIN log' \ S : Agrees(log', j)
    BY <1>2, <1>8 DEF AllAgreeBut, Agrees
  <1>10. ASSUME damage = NoDamage
         PROVE  Intact'
    <2>1. TopInv /\ FreshInv /\ GrowingInv /\ AllAgreeBut({})
      BY <1>2, <1>10 DEF DamageInv, Intact
    <2>2. AllAgreeBut({})'
      BY <1>9, <2>1 DEF AllAgreeBut
    <2>3. \A i \in DOMAIN log : Len(log[i].checksum) < Len(r.checksum)
      <3> SUFFICES ASSUME NEW i \in DOMAIN log
                   PROVE  Len(log[i].checksum) < Len(r.checksum)
        OBVIOUS
      <3> DEFINE m == Max(DOMAIN log)
      <3>1. /\ m \in DOMAIN log /\ \A j \in DOMAIN log : j <= m
            /\ last[c] = log[m].checksum
        BY <1>2, <1>4, <2>1, LastOfIs DEF LastChecksum
      <3> HIDE DEF m
      <3>2. i \in Nat /\ m \in Nat /\ log[i].checksum \in Checksum
        BY <1>4, <3>1, PrevIs
      <3>3. Len(log[i].checksum) <= Len(last[c])
        <4>1. Len(log[i].checksum) \in Nat
          BY <3>2, LenProperties DEF Checksum
        <4>2. i = m \/ i < m
          BY <3>1, <3>2
        <4>3. Len(last[c]) \in Nat
          BY <1>3, LenProperties DEF Checksum
        <4> QED
          BY <2>1, <3>1, <4>1, <4>2, <4>3 DEF GrowingInv
      <3>4. Len(r.checksum) = Len(last[c]) + 1 /\ Len(last[c]) \in Nat
            /\ Len(log[i].checksum) \in Nat
        BY <1>3, <3>2, AppendProperties, LenProperties DEF Checksum
      <3> QED
        BY <3>3, <3>4
    <2>4. GrowingInv'
      <3> SUFFICES ASSUME NEW i \in DOMAIN log', NEW j \in DOMAIN log', i < j
                   PROVE  Len(log'[i].checksum) < Len(log'[j].checksum)
        BY DEF GrowingInv
      <3>1. i \in DOMAIN log
        BY <1>8, <2>1 DEF Table
      <3>2. CASE j \in DOMAIN log
        BY <1>8, <2>1, <3>1, <3>2 DEF GrowingInv
      <3>3. CASE j = k
        BY <1>8, <2>1, <2>3, <3>1, <3>3
      <3> QED
        BY <1>8, <2>1, <3>2, <3>3
    <2> QED
      BY <1>2, <2>2, <2>4 DEF Intact
  <1>11. ASSUME damage = "altered"
         PROVE  AlteredInv'
    <2>1. AlteredInv
      BY <1>2, <1>11 DEF DamageInv
    <2>2. AllAgreeBut({place})'
      BY <1>7, <1>9, <2>1 DEF AlteredInv, AllAgreeBut
    <2> QED
      BY <1>2, <1>7, <1>8, <2>1, <2>2 DEF AlteredInv
  <1>12. ASSUME TopInv, Later # {}
         PROVE  /\ Later' # {} /\ FirstLater' = FirstLater
                /\ FirstLater \in DOMAIN log /\ FirstLater < k
    <2>1. Later \in SUBSET Nat
      BY <1>4 DEF Later, Table
    <2>2. FirstLater \in Later /\ \A j \in Later : FirstLater <= j
      BY <1>12, <2>1, LeastOf DEF FirstLater
    <2>3. FirstLater \in DOMAIN log /\ FirstLater < k
      BY <1>8, <1>12, <2>2 DEF Later
    <2>4. Later' \in SUBSET Nat /\ FirstLater \in Later' /\ \A j \in Later' : FirstLater <= j
      BY <1>4, <1>7, <1>8, <1>12, <2>2, <2>3 DEF Later, Table
    <2>5. Min(Later') = FirstLater
      BY <2>4, Extreme
    <2> QED
      BY <2>3, <2>4, <2>5 DEF FirstLater
  <1>13. ASSUME damage = "lost"
         PROVE  LostInv'
    <2>1. LostInv
      BY <1>2, <1>13 DEF DamageInv
    <2>2. AllAgreeBut({FirstLater})'
      BY <1>9, <1>12, <2>1 DEF LostInv, AllAgreeBut
    <2> QED
      BY <1>2, <1>8, <1>12, <2>1, <2>2 DEF LostInv, Broken
  <1>14. ASSUME damage = "lost_tail"
         PROVE  LostTailInv'
    <2>1. LostTailInv
      BY <1>2, <1>14 DEF DamageInv
    <2>2. \A d \in Calls : pc'[d] = "committing" => place' < id'[d]
      BY <1>2
    <2>3. CASE Later # {}
      <3>1. AllAgreeBut({FirstLater})'
        BY <1>9, <1>12, <2>1, <2>3 DEF LostTailInv, AllAgreeBut
      <3> QED
        BY <1>2, <1>8, <1>12, <2>1, <2>2, <2>3, <3>1 DEF LostTailInv, Agrees, Broken
    <2>4. CASE Later = {}
      <3>1. TopInv /\ place < k /\ AllAgreeBut({})
        BY <1>2, <1>5, <2>1, <2>4 DEF LostTailInv
      <3>2. Later' = {k}
        BY <1>7, <1>8, <2>4, <3>1 DEF Later
      <3>3. FirstLater' = k
        BY <3>2, Extreme DEF FirstLater
      <3>4. \A j \in DOMAIN log' \ {k} : Agrees(log', j)
        BY <1>8, <3>1 DEF AllAgreeBut, Agrees
      <3>5. AllAgreeBut({FirstLater})'
        BY <3>3, <3>4 DEF AllAgreeBut
      <3>6. Agrees(log', k) \/ Broken(log', k)
        BY <1>8, <3>1
      <3>7. (Agrees(log, FirstLater) \/ Broken(log, FirstLater))'
        BY <3>3, <3>6
      <3> QED
        BY <1>2, <2>2, <3>2, <3>5, <3>7 DEF LostTailInv
    <2> QED
      BY <2>3, <2>4
  <1>15. ASSUME damage = "repeated"
         PROVE  RepeatedInv'
    <2> DEFINE p == PrevChecksum(log, place)
               q == log[place].prev_checksum
    <2>1. RepeatedInv /\ place \in DOMAIN log
      BY <1>2, <1>15 DEF DamageInv, RepeatedInv
    <2>2. /\ place < k => PrevChecksum(log', place) = p
          /\ PrevChecksum(log', place) \in {p, r.checksum}
      BY <1>3, <1>4, <1>5, <1>6, <2>1, PrevWithRow
    <2>3. log'[place] = log[place] /\ place \in DOMAIN log' /\ place # k
      BY <1>5, <1>6, <2>1 DEF WithRow
    <2>4. q # p /\ q \in Checksum
      BY <1>4, <2>1, PrevIs DEF RepeatedInv, Broken, LinkAgrees
    <2>5. q # PrevChecksum(log', place)
      <3>1. CASE PrevChecksum(log', place) = p
        BY <2>4, <3>1
      <3>2. CASE PrevChecksum(log', place) # p
        <4>1. PrevChecksum(log', place) = r.checksum /\ k < place
          BY <1>7, <2>2, <2>3, <3>2
        <4>2. Len(q) <= Len(last[c])
          BY <1>2, <1>5, <2>1, <4>1 DEF RepeatedInv
        <4>3. Len(q) \in Nat /\ Len(last[c]) \in Nat /\ Len(r.checksum) = Len(last[c]) + 1
          BY <1>3, <2>4, AppendProperties, LenProperties DEF Checksum
        <4> QED
          BY <4>1, <4>2, <4>3
      <3> QED
        BY <3>1, <3>2
    <2>6. Table(log', drawn)
      BY <1>3, <1>4, <1>5, <1>6, AddRow
    <2>7. Broken(log', place)
      <3>1. log'[place].checksum
              = compute_checksum(log'[place].content, log'[place].prev_checksum)
        BY <2>1, <2>3 DEF RepeatedInv
      <3> QED
        BY <1>4, <2>3, <2>5, <2>6, <3>1, HashedOnto
    <2>8. Broken(log, place)'
      BY <1>7, <2>7
    <2> QED
      BY <1>2, <1>7, <2>1, <2>3, <2>8 DEF RepeatedInv
  <1> QED
    BY <1>7, <1>10, <1>11, <1>13, <1>14, <1>15

\* A step of the application keeps what is known of the damaged table.
LEMMA ApplicationKeepsDamage ==
  ASSUME DamageInv, [Next]_vars, UNCHANGED <<damage, place>>
  PROVE  DamageInv'
  <1>1. Basic'
    BY NextBasic DEF DamageInv
  <1>2. drawn' >= drawn /\ drawn \in Nat /\ drawn' \in Nat
    <2>1. drawn' \in {drawn, drawn + 1}
      BY DEF Next, Begin, AcquireLock, LockUnsupported, NoConnection, GoOnUnlocked, ReadLast,
             Insert, Commit, CommitUnacknowledged, Committed, Fail, vars
    <2> QED
      BY <2>1 DEF DamageInv, Basic, TypeOK
  <1>3. place' \in 0 .. drawn'
    BY <1>2 DEF DamageInv
  <1>4. damage' \in {NoDamage, "altered", "lost", "repeated", "lost_tail"}
    BY DEF DamageInv
  <1>5. ASSUME unlocked' = {}
        PROVE  /\ damage' = NoDamage => Intact'
               /\ damage' = "altered" => AlteredInv'
               /\ damage' = "lost" => LostInv'
               /\ damage' = "lost_tail" => LostTailInv'
               /\ damage' = "repeated" => RepeatedInv'
    <2>1. ASSUME NEW c \in Calls,
                 \/ Begin(c) \/ AcquireLock(c) \/ LockUnsupported(c) \/ NoConnection(c)
                 \/ ReadLast(c) \/ Insert(c) \/ Fail(c)
          PROVE  /\ damage' = NoDamage => Intact'
                 /\ damage' = "altered" => AlteredInv'
                 /\ damage' = "lost" => LostInv'
                 /\ damage' = "lost_tail" => LostTailInv'
                 /\ damage' = "repeated" => RepeatedInv'
      BY <1>5, <2>1, QuietKeepsDamage
    <2>2. ASSUME NEW c \in Calls, Commit(c) \/ CommitUnacknowledged(c)
          PROVE  /\ damage' = NoDamage => Intact'
                 /\ damage' = "altered" => AlteredInv'
                 /\ damage' = "lost" => LostInv'
                 /\ damage' = "lost_tail" => LostTailInv'
                 /\ damage' = "repeated" => RepeatedInv'
      <3>1. PICK label \in {"logged", "raised"} : Committed(c, label)
        BY <2>2 DEF Commit, CommitUnacknowledged
      <3> QED
        BY <1>5, <3>1, CommitKeepsDamage
    <2>3. CASE UNCHANGED vars
      <3>1. /\ Later' = Later /\ FirstLater' = FirstLater /\ unlocked = {}
            /\ UNCHANGED <<log, pc, last, id, damage, place>>
        BY <1>5, <2>3 DEF vars, Later, FirstLater
      <3>2. /\ FreshInv' <=> FreshInv
            /\ TopInv' <=> TopInv
            /\ GrowingInv' <=> GrowingInv
            /\ \A S : AllAgreeBut(S)' <=> AllAgreeBut(S)
        BY <3>1 DEF FreshInv, TopInv, GrowingInv, AllAgreeBut
      <3>3. damage = NoDamage => Intact'
        BY <3>1, <3>2 DEF DamageInv, Intact
      <3>4. damage = "altered" => AlteredInv'
        BY <3>1, <3>2 DEF DamageInv, AlteredInv, AllAgreeBut
      <3>5. damage = "lost" => LostInv'
        BY <3>1, <3>2 DEF DamageInv, LostInv, AllAgreeBut
      <3>6. damage = "lost_tail" => LostTailInv'
        BY <3>1, <3>2 DEF DamageInv, LostTailInv, AllAgreeBut
      <3>7. damage = "repeated" => RepeatedInv'
        BY <3>1, <3>2 DEF DamageInv, RepeatedInv
      <3> QED
        BY <3>1, <3>3, <3>4, <3>5, <3>6, <3>7
    <2> QED
      BY <2>1, <2>2, <2>3 DEF Next
  <1> QED
    BY <1>1, <1>3, <1>4, <1>5 DEF DamageInv

-----------------------------------------------------------------------------
\* The damage.

\* The checksum of a row that no other of a set comes after.
LEMMA LastIsThat ==
  ASSUME NEW b \in Nat, NEW rows, Table(rows, b), NEW ids \in SUBSET DOMAIN rows,
         NEW m \in ids, \A j \in ids : j <= m
  PROVE  LastOf(rows, ids) = rows[m].checksum
  <1>1. ids \in SUBSET Nat
    BY DEF Table
  <1>2. Max(ids) = m
    BY <1>1, Extreme
  <1> QED
    BY <1>2 DEF LastOf

\* Without row i, the row after it comes after the one before it; nothing else changes.
LEMMA PrevWithout ==
  ASSUME NEW b \in Nat, NEW rows, Table(rows, b), NEW i \in DOMAIN rows
  PROVE  LET less == [j \in DOMAIN rows \ {i} |-> rows[j]] IN
         /\ Table(less, b)
         /\ \A j \in DOMAIN less :
              IF j > i /\ \A m \in DOMAIN rows : ~(i < m /\ m < j)
              THEN /\ PrevChecksum(less, j) = PrevChecksum(rows, i)
                   /\ PrevChecksum(rows, j) = rows[i].checksum
              ELSE PrevChecksum(less, j) = PrevChecksum(rows, j)
  <1> DEFINE less == [j \in DOMAIN rows \ {i} |-> rows[j]]
             old(j) == {m \in DOMAIN rows : m < j}
             new(j) == {m \in DOMAIN less : m < j}
  <1>1. /\ DOMAIN less = DOMAIN rows \ {i}
        /\ \A j \in DOMAIN less : less[j] = rows[j]
    OBVIOUS
  <1>2. Table(less, b)
    BY DEF Table
  <1>3. \A j : /\ PrevChecksum(rows, j) = LastOf(rows, old(j))
               /\ PrevChecksum(less, j) = LastOf(less, new(j))
               /\ old(j) \in SUBSET DOMAIN rows /\ new(j) \in SUBSET DOMAIN less
               /\ new(j) = old(j) \ {i}
    BY DEF PrevChecksum
  <1> HIDE DEF less
  <1>4. \A j \in DOMAIN rows : j \in Nat
    BY DEF Table
  <1>5. ASSUME NEW S \in SUBSET DOMAIN less
        PROVE  LastOf(less, S) = LastOf(rows, S)
    <2>1. S \in SUBSET DOMAIN rows
      BY <1>1
    <2>2. CASE S = {}
      BY <2>2 DEF LastOf
    <2>3. CASE S # {}
      <3>1. Max(S) \in S /\ LastOf(rows, S) = rows[Max(S)].checksum
        BY <2>1, <2>3, LastOfIs
      <3> QED
        BY <1>1, <2>3, <3>1 DEF LastOf
    <2> QED
      BY <2>2, <2>3
  <1> SUFFICES ASSUME NEW j \in DOMAIN less
               PROVE  IF j > i /\ \A m \in DOMAIN rows : ~(i < m /\ m < j)
                      THEN /\ PrevChecksum(less, j) = PrevChecksum(rows, i)
                           /\ PrevChecksum(rows, j) = rows[i].checksum
                      ELSE PrevChecksum(less, j) = PrevChecksum(rows, j)
    BY <1>2 DEF less
  <1>6. j \in DOMAIN rows /\ j # i /\ j \in Nat /\ i \in Nat
    BY <1>1, <1>4
  <1>7. CASE j > i /\ \A m \in DOMAIN rows : ~(i < m /\ m < j)
    <2>1. i \in old(j) /\ \A m \in old(j) : m <= i
      BY <1>4, <1>6, <1>7
    <2>2. PrevChecksum(rows, j) = rows[i].checksum
      BY <1>3, <2>1, LastIsThat
    <2>3. new(j) = old(i)
      BY <1>1, <1>4, <1>6, <1>7
    <2>4. PrevChecksum(less, j) = PrevChecksum(rows, i)
      BY <1>3, <1>5, <2>3
    <2> QED
      BY <1>7, <2>2, <2>4
  <1>8. CASE j < i
    <2>1. new(j) = old(j)
      BY <1>1, <1>4, <1>6, <1>8
    <2> QED
      BY <1>3, <1>5, <1>6, <1>8, <2>1
  <1>9. ASSUME NEW m \in DOMAIN rows, i < m, m < j
        PROVE  PrevChecksum(less, j) = PrevChecksum(rows, j)
    <2>1. old(j) # {} /\ m \in old(j) /\ m # i /\ m \in Nat
      BY <1>4, <1>6, <1>9
    <2> DEFINE top == Max(old(j))
    <2>2. top \in old(j) /\ \A n \in old(j) : n <= top
      BY <1>3, <2>1, LastOfIs
    <2>3. top # i /\ top \in new(j)
      BY <1>3, <1>4, <1>6, <1>9, <2>1, <2>2
    <2> HIDE DEF top
    <2>4. \A n \in new(j) : n <= top
      BY <1>3, <2>2
    <2> HIDE DEF old, new
    <2>5. LastOf(rows, old(j)) = rows[top].checksum
      BY <1>3, <2>2, LastIsThat
    <2>6. LastOf(rows, new(j)) = rows[top].checksum
      <3>1. new(j) \in SUBSET DOMAIN rows
        BY <1>1, <1>3
      <3> QED
        BY <2>3, <2>4, <3>1, LastIsThat
    <2> QED
      BY <1>3, <1>5, <2>5, <2>6
  <1> QED
    BY <1>6, <1>7, <1>8, <1>9

\* A row that is lost, changed or repeated leaves the types and the ids in order.
LEMMA DamageBasic ==
  ASSUME Basic, UNCHANGED <<dialect, pc, last, id, holder, unlocked, began>>,
         drawn' \in {drawn, drawn + 1}, Table(log', drawn'),
         \A i \in DOMAIN log' : i \in DOMAIN log \/ i = drawn + 1
  PROVE  Basic'
  <1>1. drawn \in Nat /\ drawn' \in Nat /\ drawn <= drawn'
    BY DEF Basic, TypeOK
  <1>2. TypeOK'
    <2>1. id' \in [Calls -> 0 .. drawn'] /\ began' \in [Calls -> 0 .. drawn']
      BY <1>1 DEF Basic, TypeOK
    <2>2. DOMAIN log' \subseteq 1 .. drawn' /\ log' \in [DOMAIN log' -> Rows]
      BY DEF Table
    <2> QED
      BY <1>1, <2>1, <2>2 DEF Basic, TypeOK
  <1>3. IdInv'
    BY <1>1 DEF Basic, IdInv
  <1>4. LockedInv'
    BY DEF Basic, LockedInv
  <1> QED
    BY <1>2, <1>3, <1>4 DEF Basic

\* A row that is lost breaks the one that comes after it, if any, and no other.
LEMMA LoseKeepsDamage ==
  ASSUME DamageInv, NEW i \in DOMAIN log, LoseRow(i)
  PROVE  DamageInv'
  <1> DEFINE less == [j \in DOMAIN log \ {i} |-> log[j]]
  <1>1. /\ damage = NoDamage /\ place' = i /\ log' = less
        /\ UNCHANGED <<dialect, pc, last, id, holder, unlocked, began, drawn>>
        /\ damage' = IF i = Max(DOMAIN log) THEN "lost_tail" ELSE "lost"
    BY DEF LoseRow, Damage
  <1>2. /\ drawn \in Nat /\ Table(log, drawn) /\ \A j \in DOMAIN log : j \in 1 .. drawn
    BY LogIsTable DEF DamageInv, Basic, Table
  <1>3. Table(log', drawn)
    BY <1>1, <1>2, PrevWithout
  <1>4. /\ DOMAIN log' = DOMAIN log \ {i}
        /\ \A j \in DOMAIN log' : log'[j] = log[j]
    BY <1>1
  <1>5. \A j \in DOMAIN log' :
          IF j > i /\ \A m \in DOMAIN log : ~(i < m /\ m < j)
          THEN /\ PrevChecksum(log', j) = PrevChecksum(log, i)
               /\ PrevChecksum(log, j) = log[i].checksum
          ELSE PrevChecksum(log', j) = PrevChecksum(log, j)
    BY <1>1, <1>2, PrevWithout
  <1> HIDE DEF less
  <1>6. Basic'
    BY <1>1, <1>2, <1>3, <1>4, DamageBasic DEF DamageInv
  <1>7. DOMAIN log # {} /\ Max(DOMAIN log) \in DOMAIN log
        /\ \A j \in DOMAIN log : j <= Max(DOMAIN log)
    BY <1>2, LastOfIs
  <1>8. ASSUME unlocked = {}
        PROVE  /\ damage' = "lost" => LostInv'
               /\ damage' = "lost_tail" => LostTailInv'
    <2>1. FreshInv /\ TopInv /\ AllAgreeBut({})
      BY <1>1, <1>8 DEF DamageInv, Intact
    <2>2. TopInv'
      BY <1>1, <1>4, <2>1 DEF TopInv
    <2>3. Later' = {j \in DOMAIN log : j > i}
      BY <1>1, <1>2, <1>4 DEF Later
    <2>4. \A j \in DOMAIN log : Agrees(log, j)
      BY <2>1 DEF AllAgreeBut
    <2>5. ASSUME i = Max(DOMAIN log)
          PROVE  LostTailInv'
      <3>1. Later' = {}
        BY <1>2, <1>7, <2>3, <2>5
      <3>2. \A j \in DOMAIN log' : PrevChecksum(log', j) = PrevChecksum(log, j)
        BY <1>2, <1>4, <1>5, <1>7, <2>5
      <3>3. AllAgreeBut({})'
        BY <1>4, <2>4, <3>2 DEF AllAgreeBut, Agrees, LinkAgrees, SumAgrees
      <3>4. \A c \in Calls : pc'[c] = "committing" => place' < id'[c]
        BY <1>1, <2>1 DEF TopInv
      <3> QED
        BY <2>2, <3>1, <3>3, <3>4 DEF LostTailInv
    <2>6. ASSUME i # Max(DOMAIN log)
          PROVE  LostInv'
      <3>1. Max(DOMAIN log) \in Later' /\ Later' \in SUBSET Nat
        BY <1>2, <1>7, <2>3, <2>6
      <3>2. PICK s \in Later' : s = Min(Later') /\ \A j \in Later' : s <= j
        BY <3>1, LeastOf
      <3>3. s \in DOMAIN log /\ s \in DOMAIN log' /\ s > i
            /\ \A m \in DOMAIN log : ~(i < m /\ m < s)
        BY <1>2, <1>4, <2>3, <3>2
      <3>4. PrevChecksum(log', s) = PrevChecksum(log, i) /\ PrevChecksum(log, s) = log[i].checksum
        BY <1>5, <3>3
      <3>5. \A j \in DOMAIN log' \ {s} : PrevChecksum(log', j) = PrevChecksum(log, j)
        <4> SUFFICES ASSUME NEW j \in DOMAIN log', j # s, j > i
                     PROVE  \E m \in DOMAIN log : i < m /\ m < j
          BY <1>5
        <4>1. j \in Later'
          BY <1>4, <2>3
        <4> QED
          BY <1>2, <1>4, <3>2, <3>3, <4>1
      <3>6. \A j \in DOMAIN log' \ {s} : Agrees(log', j)
        BY <1>4, <2>4, <3>5 DEF Agrees, LinkAgrees, SumAgrees
      <3>7. Broken(log', s)
        <4>1. /\ PrevChecksum(log, i) \in Checksum /\ log[i].content \in Calls
              /\ log[i].checksum = Append(PrevChecksum(log, i), log[i].content)
          BY <1>2, <2>4, PrevIs DEF Agrees, SumAgrees, compute_checksum
        <4>2. log[i].checksum # PrevChecksum(log, i)
          BY <4>1, AppendDiffers
        <4>3. /\ log'[s].prev_checksum = log[i].checksum
              /\ log'[s].checksum = compute_checksum(log'[s].content, log'[s].prev_checksum)
          BY <1>4, <2>4, <3>3, <3>4 DEF Agrees, LinkAgrees, SumAgrees
        <4> QED
          BY <1>2, <1>3, <3>3, <3>4, <4>2, <4>3, HashedOnto
      <3>8. LastChecksum(log') = LastChecksum(log)
        <4>1. Max(DOMAIN log) \in DOMAIN log' /\ \A j \in DOMAIN log' : j <= Max(DOMAIN log)
          BY <1>4, <1>7, <2>6
        <4>2. LastOf(log', DOMAIN log') = log'[Max(DOMAIN log)].checksum
          BY <1>2, <1>3, <4>1, LastIsThat
        <4>3. LastOf(log, DOMAIN log) = log[Max(DOMAIN log)].checksum
          BY <1>2, <1>7, LastIsThat
        <4> QED
          BY <1>4, <4>1, <4>2, <4>3 DEF LastChecksum
      <3>9. FreshInv'
        BY <1>1, <2>1, <3>8 DEF FreshInv
      <3>10. AllAgreeBut({FirstLater})' /\ Broken(log, FirstLater)'
        BY <3>2, <3>6, <3>7 DEF FirstLater, AllAgreeBut
      <3> QED
        BY <2>2, <3>1, <3>9, <3>10 DEF LostInv
    <2> QED
      BY <1>1, <2>5, <2>6
  <1> QED
    BY <1>1, <1>2, <1>6, <1>8 DEF DamageInv, NoDamage

\* A row whose content is changed no longer agrees with its checksum, and that is all.
LEMMA AlterKeepsDamage ==
  ASSUME DamageInv, NEW i \in DOMAIN log, NEW content \in Calls, AlterContent(i, content)
  PROVE  DamageInv'
  <1>1. /\ damage = NoDamage /\ place' = i /\ damage' = "altered" /\ content # log[i].content
        /\ log' = [log EXCEPT ![i].content = content]
        /\ UNCHANGED <<dialect, pc, last, id, holder, unlocked, began, drawn>>
    BY DEF AlterContent, Damage
  <1>2. /\ drawn \in Nat /\ Table(log, drawn) /\ \A j \in DOMAIN log : j \in 1 .. drawn
    BY LogIsTable DEF DamageInv, Basic, Table
  <1>3. /\ DOMAIN log' = DOMAIN log
        /\ \A j \in DOMAIN log : /\ log'[j].prev_checksum = log[j].prev_checksum
                                 /\ log'[j].checksum = log[j].checksum
                                 /\ j # i => log'[j] = log[j]
        /\ log'[i].content = content
    BY <1>1, <1>2 DEF Table, Rows
  <1>4. Table(log', drawn)
    <2>1. log[i] \in Rows
      BY <1>2 DEF Table
    <2>2. [log[i] EXCEPT !.content = content] \in Rows
      BY <2>1 DEF Rows
    <2> QED
      BY <1>1, <1>2, <2>2 DEF Table
  <1>5. Basic'
    BY <1>1, <1>2, <1>3, <1>4, DamageBasic DEF DamageInv
  <1>6. \A S \in SUBSET DOMAIN log : LastOf(log', S) = LastOf(log, S)
    <2> SUFFICES ASSUME NEW S \in SUBSET DOMAIN log
                 PROVE  LastOf(log', S) = LastOf(log, S)
      OBVIOUS
    <2>1. S # {} => Max(S) \in S
      BY <1>2, LastOfIs
    <2> QED
      BY <1>3, <2>1 DEF LastOf
  <1>7. LastChecksum(log') = LastChecksum(log)
        /\ \A j : PrevChecksum(log', j) = PrevChecksum(log, j)
    BY <1>3, <1>6 DEF LastChecksum, PrevChecksum
  <1>8. ASSUME unlocked = {}
        PROVE  AlteredInv'
    <2>1. FreshInv /\ TopInv /\ \A j \in DOMAIN log : Agrees(log, j)
      BY <1>1, <1>8 DEF DamageInv, Intact, AllAgreeBut
    <2>2. FreshInv' /\ TopInv'
      BY <1>1, <1>3, <1>7, <2>1 DEF FreshInv, TopInv
    <2>3. AllAgreeBut({place})'
      <3>1. \A j \in DOMAIN log' \ {i} : Agrees(log', j)
        BY <1>3, <1>7, <2>1 DEF Agrees, LinkAgrees, SumAgrees
      <3> QED
        BY <1>1, <3>1 DEF AllAgreeBut
    <2>4. LinkAgrees(log', i)
      BY <1>3, <1>7, <2>1 DEF Agrees, LinkAgrees
    <2>5. ~SumAgrees(log', i)
      <3>1. PrevChecksum(log, i) \in Checksum /\ log[i].content \in Calls
        BY <1>2, PrevIs
      <3>2. Append(PrevChecksum(log, i), log[i].content) # Append(PrevChecksum(log, i), content)
        BY <1>1, <3>1, AppendDiffers
      <3> QED
        BY <1>3, <1>7, <2>1, <3>2 DEF Agrees, SumAgrees, compute_checksum
    <2> QED
      BY <1>1, <1>3, <2>2, <2>3, <2>4, <2>5 DEF AlteredInv
  <1> QED
    BY <1>1, <1>2, <1>5, <1>8 DEF DamageInv, NoDamage

\* A row that is repeated is not hashed onto the last: that has a longer checksum.
LEMMA RepeatKeepsDamage ==
  ASSUME DamageInv, NEW i \in DOMAIN log, RepeatRow(i)
  PROVE  DamageInv'
  <1> DEFINE k == drawn + 1
  <1>1. /\ damage = NoDamage /\ place' = k /\ damage' = "repeated" /\ drawn' = k
        /\ log' = WithRow(log, k, log[i])
        /\ UNCHANGED <<dialect, pc, last, id, holder, unlocked, began>>
    BY DEF RepeatRow, Damage
  <1>2. /\ drawn \in Nat /\ Table(log, drawn) /\ \A j \in DOMAIN log : j \in 1 .. drawn
    BY LogIsTable DEF DamageInv, Basic, Table
  <1>3. /\ k \in Nat /\ k \in 1 .. k /\ Table(log, k) /\ \A j \in DOMAIN log : j < k
        /\ log[i] \in Rows
    BY <1>2 DEF Table
  <1> HIDE DEF k
  <1>4. Table(log', k)
    BY <1>1, <1>3, AddedLast
  <1>5. PrevChecksum(log', k) = LastChecksum(log)
    BY <1>1, <1>3, AddedLast
  <1>6. DOMAIN log' = DOMAIN log \union {k} /\ log'[k] = log[i]
    BY <1>1 DEF WithRow
  <1>7. Basic'
    BY <1>1, <1>2, <1>4, <1>6, DamageBasic DEF DamageInv, k
  <1>8. ASSUME unlocked = {}
        PROVE  RepeatedInv'
    <2> DEFINE q == PrevChecksum(log, i)
               m == Max(DOMAIN log)
    <2>1. FreshInv /\ GrowingInv /\ \A j \in DOMAIN log : Agrees(log, j)
      BY <1>1, <1>8 DEF DamageInv, Intact, AllAgreeBut
    <2>2. /\ m \in DOMAIN log /\ \A j \in DOMAIN log : j <= m
          /\ LastChecksum(log) = log[m].checksum
      BY <1>2, LastOfIs DEF LastChecksum
    <2>3. /\ q \in Checksum /\ log[i].content \in Calls
          /\ log[i].prev_checksum = q /\ log[i].checksum = Append(q, log[i].content)
      BY <1>2, <2>1, PrevIs DEF Agrees, LinkAgrees, SumAgrees, compute_checksum
    <2> HIDE DEF q, m
    <2>4. Len(q) \in Nat /\ Len(log[i].checksum) = Len(q) + 1
      BY <2>3, AppendDiffers
    <2>5. log[m].checksum \in Checksum /\ Len(log[m].checksum) \in Nat
      BY <1>2, <2>2, PrevIs, LenProperties DEF Checksum
    <2>6. i = m \/ Len(log[i].checksum) < Len(log[m].checksum)
      <3>1. i = m \/ i < m
        BY <1>2, <2>2
      <3> QED
        BY <2>1, <2>2, <3>1 DEF GrowingInv
    <2>7. Len(q) < Len(LastChecksum(log))
      BY <2>2, <2>4, <2>5, <2>6
    <2>8. Broken(log', k)
      <3>1. log'[k].prev_checksum # PrevChecksum(log', k)
        BY <1>5, <1>6, <2>3, <2>4, <2>7
      <3>2. log'[k].checksum = compute_checksum(log'[k].content, log'[k].prev_checksum)
        BY <1>6, <2>3 DEF compute_checksum
      <3> QED
        BY <1>3, <1>4, <1>6, <3>1, <3>2, HashedOnto
    <2>9. \A c \in Calls : pc'[c] = "committing" => Len(q) <= Len(last'[c])
      BY <1>1, <2>1, <2>2, <2>4, <2>5, <2>7 DEF FreshInv
    <2>10. k \in DOMAIN log' /\ log'[k].prev_checksum = q
           /\ log'[k].checksum = compute_checksum(log'[k].content, log'[k].prev_checksum)
      BY <1>6, <2>3 DEF compute_checksum
    <2>11. place' = k /\ Broken(log, place)'
      BY <1>1, <2>8
    <2>12. \A c \in Calls : pc'[c] = "committing" /\ id'[c] < place' =>
             Len(log'[place'].prev_checksum) <= Len(last'[c])
      BY <2>9, <2>10, <2>11
    <2> QED
      BY <2>10, <2>11, <2>12 DEF RepeatedInv
  <1>9. place' \in 0 .. drawn'
    BY <1>1, <1>3
  <1> QED
    BY <1>1, <1>7, <1>8, <1>9 DEF DamageInv, NoDamage

-----------------------------------------------------------------------------
\* The theorems.

\* DamageInv is an invariant of the damaged log.
THEOREM DamageAlways == DSpec => []DamageInv
  <1>1. DInit => DamageInv
    <2> SUFFICES ASSUME DInit PROVE DamageInv
      OBVIOUS
    <2>1. Basic
      BY InitBasic DEF DInit
    <2>2. DOMAIN log = {} /\ \A c \in Calls : pc[c] = "idle"
      BY EmptySeq DEF DInit, Init
    <2>3. Intact
      BY <2>2 DEF Intact, FreshInv, TopInv, GrowingInv, AllAgreeBut
    <2> QED
      BY <2>1, <2>3 DEF DInit, Init, DamageInv, NoDamage
  <1>2. DamageInv /\ [DNext]_damageVars => DamageInv'
    <2> SUFFICES ASSUME DamageInv, [DNext]_damageVars PROVE DamageInv'
      OBVIOUS
    <2>1. CASE Application
      BY <2>1, ApplicationKeepsDamage DEF Application
    <2>2. CASE UNCHANGED damageVars
      BY <2>2, ApplicationKeepsDamage DEF damageVars
    <2>3. ASSUME NEW i \in DOMAIN log,
                 \/ LoseRow(i)
                 \/ \E content \in Calls : AlterContent(i, content)
                 \/ RepeatRow(i)
          PROVE  DamageInv'
      BY <2>3, LoseKeepsDamage, AlterKeepsDamage, RepeatKeepsDamage
    <2> QED
      BY <2>1, <2>2, <2>3 DEF DNext
  <1> QED
    BY <1>1, <1>2, PTL DEF DSpec

\* Of a chain written under the lock verify_integrity accuses exactly the row whose content
\* was changed, exactly the row that came after a lost one, at least a repeated one, and
\* after the loss of the last row at most the next, for any number of rows and whenever the
\* damage was done.
THEOREM DamageIsLocated == DSpec => []DamageLocated
  <1>1. DamageInv => DamageLocated
    <2> SUFFICES ASSUME DamageInv, unlocked = {}
                 PROVE  LET errors == verify_integrity(log)
                            broken(i) == {<<i, "prev">>, <<i, "checksum">>}
                        IN
                          /\ damage = "altered" => errors = {<<place, "checksum">>}
                          /\ damage = "lost" => Later # {} /\ errors = broken(Min(Later))
                          /\ damage = "repeated" => broken(place) \subseteq errors
                          /\ damage = "lost_tail" =>
                               errors = {} \/ (Later # {} /\ errors = broken(Min(Later)))
      BY DEF DamageLocated
    <2> DEFINE errors == verify_integrity(log)
               links == {j \in DOMAIN log : ~LinkAgrees(log, j)}
               sums == {j \in DOMAIN log : ~SumAgrees(log, j)}
    <2>1. errors = {<<i, "prev">> : i \in links} \union {<<i, "checksum">> : i \in sums}
      BY ErrorsByRow
    <2>2. ASSUME NEW s, AllAgreeBut({s})
          PROVE  links \subseteq {s} /\ sums \subseteq {s}
      BY <2>2 DEF AllAgreeBut, Agrees
    <2>3. ASSUME AllAgreeBut({})
          PROVE  errors = {}
      BY <2>1, <2>3 DEF AllAgreeBut, Agrees
    <2>4. Later # {} => FirstLater \in DOMAIN log
      <3>1. Later \in SUBSET Nat
        BY DEF Later, DamageInv, Basic, TypeOK
      <3> QED
        BY <3>1, LeastOf DEF FirstLater, Later
    <2> HIDE DEF errors
    <2>5. ASSUME NEW s \in DOMAIN log, AllAgreeBut({s}), Broken(log, s)
          PROVE  errors = {<<s, "prev">>, <<s, "checksum">>}
      <3>1. links = {s} /\ sums = {s}
        BY <2>2, <2>5 DEF Broken
      <3> HIDE DEF links, sums
      <3> QED
        BY <2>1, <3>1
    <2>6. ASSUME damage = "altered"
          PROVE  errors = {<<place, "checksum">>}
      <3>1. place \in DOMAIN log /\ AllAgreeBut({place}) /\ LinkAgrees(log, place)
            /\ ~SumAgrees(log, place)
        BY <2>6 DEF DamageInv, AlteredInv
      <3>2. links \subseteq {place} /\ sums \subseteq {place}
        BY <2>2, <3>1
      <3>3. place \notin links /\ place \in sums
        BY <3>1
      <3>4. links = {} /\ sums = {place}
        BY <3>2, <3>3
      <3> HIDE DEF links, sums
      <3> QED
        BY <2>1, <3>4
    <2>7. ASSUME damage = "lost"
          PROVE  Later # {} /\ errors = {<<FirstLater, "prev">>, <<FirstLater, "checksum">>}
      BY <2>4, <2>5, <2>7 DEF DamageInv, LostInv
    <2>8. ASSUME damage = "repeated"
          PROVE  {<<place, "prev">>, <<place, "checksum">>} \subseteq errors
      <3>1. place \in links /\ place \in sums
        BY <2>8 DEF DamageInv, RepeatedInv, Broken
      <3> HIDE DEF links, sums
      <3> QED
        BY <2>1, <3>1
    <2>9. ASSUME damage = "lost_tail"
          PROVE  \/ errors = {}
                 \/ /\ Later # {}
                    /\ errors = {<<FirstLater, "prev">>, <<FirstLater, "checksum">>}
      <3>1. LostTailInv
        BY <2>9 DEF DamageInv
      <3>2. CASE Later = {}
        BY <2>3, <3>1, <3>2 DEF LostTailInv
      <3>3. CASE Later # {} /\ Broken(log, FirstLater)
        BY <2>4, <2>5, <3>1, <3>3 DEF LostTailInv
      <3>4. CASE Later # {} /\ Agrees(log, FirstLater)
        <4>1. AllAgreeBut({})
          BY <3>1, <3>4 DEF LostTailInv, AllAgreeBut
        <4> QED
          BY <2>3, <4>1
      <3> QED
        BY <3>1, <3>2, <3>3, <3>4 DEF LostTailInv
    <2> QED
      BY <2>6, <2>7, <2>8, <2>9 DEF errors, FirstLater
  <1> QED
    BY <1>1, DamageAlways, PTL
=============================================================================
