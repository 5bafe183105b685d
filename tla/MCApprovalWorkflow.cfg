SPECIFICATION FairSpec
CONSTANTS
  Execs = {e1, e2}
  Reviews = {r1, r2}
  NoReview = NoReview
  EXPIRY_HOURS = 1
  UtcOffset = 0
  MaxClock = 2
INVARIANTS
  TypeOK
  RecordedMeansDone
  AnsweredMeansResolved
PROPERTIES
  ReviewAnswered
  ClearedInTime
  ImplementsTicketBoard
CHECK_DEADLOCK FALSE
