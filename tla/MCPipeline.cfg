SPECIFICATION FairSystemSpec
CONSTANTS
  Execs = {e1, e2}
  Workers = {w1, w2}
  Reviews = {}
  NoReview = NoReview
  EXPIRY_HOURS = 0
  UtcOffset = 0
  MaxClock = 0
INVARIANTS
  GaugeCounts
PROPERTIES
  ExecAnswered
\* every request has ended
CHECK_DEADLOCK FALSE
