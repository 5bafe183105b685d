SPECIFICATION Spec
CONSTANTS
  Calls = {c1, c2}
  NoCall = NoCall
  Dialects = {"postgresql"}
INVARIANT ChainStaysConsistent
\* every call has ended
CHECK_DEADLOCK FALSE
