--------------------------- MODULE MCAuditDamage ---------------------------
(* Four calls: damage to a first, an inner and a last row, with rows       *)
(* logged before and after it.                                             *)
EXTENDS AuditDamage, TLC

Symmetry == Permutations(Calls)

(* DamageLocated is about chains written with the lock, and a call that    *)
(* went on without it stays in unlocked: what follows need not be explored.*)
AllLocked == unlocked = {}
=============================================================================
