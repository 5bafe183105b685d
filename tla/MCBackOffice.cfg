SPECIFICATION FairSpec
CONSTANTS
  Requests = {1, 2, 3}
  PoolSize = 3
  Outcomes <- Some
  Earlier <- Before
  Starts = {0, 1}
  NoStart = NoStart
  NoReport = NoReport
  Sources = {s1}
  NoSource = NoSource
  NoContent = NoContent
  PageSize = 1
  Everything = Everything
  Asked <- Together
INVARIANTS
  CountsBracketed
  StampCovered
  NeverOlder
  PagesMissNothing
PROPERTIES
  RequestsEnd
CHECK_DEADLOCK FALSE
