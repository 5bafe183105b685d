----------------------------- MODULE PolicyMap ------------------------------
(***************************************************************************)
(* What the table of policies promises to those who read it: rules that    *)
(* change together, in one step, by being created, revised to a later      *)
(* version, or removed.  No revision is lost in another, for two revisions *)
(* of a row never have the same version; and a rule is not replaced under  *)
(* its readers without having been removed.  (A revision is one version up *)
(* unless a file names the rule more than once.)                           *)
(***************************************************************************)
EXTENDS Integers

CONSTANTS Rules, NoRow

VARIABLE rows       \* each rule's row: its id, version, switch and contents

Init == \A r \in Rules : rows[r] # NoRow => rows[r].version >= 1

Created(r) == rows[r] = NoRow /\ rows'[r] # NoRow /\ rows'[r].version >= 1

Revised(r) ==
  /\ rows[r] # NoRow /\ rows'[r] # NoRow
  /\ rows'[r].id = rows[r].id
  /\ rows'[r].version > rows[r].version

Removed(r) == rows[r] # NoRow /\ rows'[r] = NoRow

Next ==
  \A r \in Rules :
    rows'[r] = rows[r] \/ Created(r) \/ Revised(r) \/ Removed(r)

Spec == Init /\ [][Next]_rows
=============================================================================
