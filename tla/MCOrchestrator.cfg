SPECIFICATION SystemSpec
CONSTANTS
  Execs = {e1}
  Workers = {w1}
  Reviews = {r1, r2}
  NoReview = NoReview
  EXPIRY_HOURS = 0
  UtcOffset = 0
  MaxClock = 1
INVARIANTS
  SystemTypeOK
  AuditedFirst
  HistoryTrue
  DecisionBinds
\* every request has ended
CHECK_DEADLOCK FALSE
