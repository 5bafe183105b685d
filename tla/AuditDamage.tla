---------------------------- MODULE AuditDamage ----------------------------
(***************************************************************************)
(* What verify_integrity notices when the stored chain is damaged once:    *)
(* the audit log of AuditChain, whose storage loses a row, changes the     *)
(* content of one or repeats one (a restored backup, a manual repair, a    *)
(* failed migration), while the application keeps logging before and after.*)
(* The damage is the environment's; everything else is AuditChain.         *)
(***************************************************************************)
EXTENDS AuditChain

VARIABLES
  damage,           \* what has happened to the table
  place             \* to the row with which id

damageVars == <<vars, damage, place>>

NoDamage == "none"

DInit ==
  /\ Init
  /\ damage = NoDamage
  /\ place = 0

Damage(kind, i, rows) ==
  /\ damage = NoDamage
  /\ damage' = kind
  /\ place' = i
  /\ log' = rows
  /\ UNCHANGED <<dialect, pc, last, id, holder, unlocked, began>>

LoseRow(i) ==
  /\ Damage(IF i = Max(DOMAIN log) THEN "lost_tail" ELSE "lost", i,
            [j \in DOMAIN log \ {i} |-> log[j]])
  /\ UNCHANGED drawn

AlterContent(i, content) ==
  /\ content # log[i].content
  /\ Damage("altered", i, [log EXCEPT ![i].content = content])
  /\ UNCHANGED drawn

\* A copy of row i is inserted, with an id of its own.
RepeatRow(i) ==
  /\ Damage("repeated", drawn + 1, WithRow(log, drawn + 1, log[i]))
  /\ drawn' = drawn + 1

Application == Next /\ UNCHANGED <<damage, place>>

DNext ==
  \/ Application
  \/ \E i \in DOMAIN log :
       \/ LoseRow(i)
       \/ \E content \in Calls : AlterContent(i, content)
       \/ RepeatRow(i)

DSpec == DInit /\ [][DNext]_damageVars

-----------------------------------------------------------------------------

\* The rows that come after the damaged place.
Later == {j \in DOMAIN log : j > place}

\* Of a chain all calls wrote with the lock verify_integrity points at the damage, now
\* and after any number of further rows, and accuses no other row: at exactly the row
\* whose content changed, at exactly the row that came after a lost one (its link and
\* its checksum), at least at a repeated row.  The loss of the last row it does not see
\* until the next is committed, and then only if its call had read the lost one: the only
\* row it can accuse is that next one.
DamageLocated ==
  LET errors == verify_integrity(log)
      broken(i) == {<<i, "prev">>, <<i, "checksum">>}
  IN
    unlocked = {} =>
      /\ damage = "altered" => errors = {<<place, "checksum">>}
      /\ damage = "lost" => Later # {} /\ errors = broken(Min(Later))
      /\ damage = "repeated" => broken(place) \subseteq errors
      /\ damage = "lost_tail" => errors = {} \/ (Later # {} /\ errors = broken(Min(Later)))
=============================================================================
