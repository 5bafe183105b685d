SPECIFICATION Spec
CONSTANTS
  Execs = {e1}
  Reviews = {r1, r2}
  NoReview = NoReview
  EXPIRY_HOURS = 1
  UtcOffset = 0
  MaxClock = 0
INVARIANT ResolvedOnce
CHECK_DEADLOCK FALSE
