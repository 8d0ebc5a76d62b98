CONSTANTS
  ChallengeId = {v1, v2}
  c1 = c1
  c2 = c2
  CallId = {c1, c2}
  Ops = {"start", "finish", "cancel"}
  Ttl = 2
  Cooldown = 1
  MaxTime = 2
  None = None
SPECIFICATION Spec
CHECK_DEADLOCK FALSE
PROPERTY EndedNeverConsumed
