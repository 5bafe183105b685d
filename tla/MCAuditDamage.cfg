SPECIFICATION DSpec
CONSTANTS
  Calls = {c1, c2, c3, c4}
  NoCall = NoCall
  Dialects = {"postgresql"}
SYMMETRY Symmetry
CONSTRAINT AllLocked
INVARIANTS
  DamageLocated
CHECK_DEADLOCK FALSE
