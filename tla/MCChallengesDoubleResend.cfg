CONSTANTS
  ChallengeId = {v1, v2, v3}
  c1 = c1
  c2 = c2
  CallId = {c1, c2}
  Ops = {"start", "ownedResend"}
  Ttl = 3
  Cooldown = 1
  MaxTime = 3
  None = None
SPECIFICATION Spec
CHECK_DEADLOCK FALSE
INVARIANT OneReplacement
