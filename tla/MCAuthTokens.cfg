SPECIFICATION FairSpec
CONSTANTS
  Requests = {q1, q2, q3}
  Before = Before
  NoSecret = NoSecret
INVARIANTS
  TypeOK
  RotationWhole
  RevokedIsRefused
  MailedIsStored
PROPERTIES
  SecretsStayDead
CHECK_DEADLOCK FALSE
