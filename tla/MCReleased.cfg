SPECIFICATION SystemSpec
CONSTANTS
  Execs = {e1}
  Workers = {w1}
  Reviews = {r1}
  NoReview = NoReview
  EXPIRY_HOURS = 0
  UtcOffset = 0
  MaxClock = 0
INVARIANT ReleasedIsRecorded
CHECK_DEADLOCK FALSE
