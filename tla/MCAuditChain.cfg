SPECIFICATION FairSpec
CONSTANTS
  Calls = {c1, c2, c3}
  NoCall = NoCall
  Dialects = {"postgresql", "sqlite"}
INVARIANTS
  TypeOK
  ForksAreUnlocked
  HeadCommitsToHistory
  ChainIsTree
  LoggedOnce
PROPERTIES
  LogReturns
  ImplementsLedger
\* every call has ended
CHECK_DEADLOCK FALSE
