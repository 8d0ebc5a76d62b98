CONSTANTS
  Id <- MCId
  Subject = {alice, bob}
  Queries = {alice}
  Limit = 1
  MaxTime = 1
  None = None
SPECIFICATION Spec
CHECK_DEADLOCK FALSE
INVARIANTS
  TypeOK
  NothingSkipped
  NoRepeats
  FailedLeaveNoTrace
PROPERTY
  WalkEnds
