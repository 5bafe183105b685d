SPECIFICATION FairSpec
CONSTANTS
  r1 = r1
  r2 = r2
  Rules = {r1, r2}
  YamlRules <- Yaml
  Requests <- Asked
  Workers = {w1, w2}
  Admins = {a1, a2}
  MaxFaults = 1
  NoRow = NoRow
  Untouched = Untouched
  Nobody = Nobody
INVARIANTS
  TypeOK
  NothingHalfDone
  SomeWorkerWired
PROPERTIES
  SwitchObeyed
  JobsEnd
  ImplementsPolicyMap
CHECK_DEADLOCK FALSE
