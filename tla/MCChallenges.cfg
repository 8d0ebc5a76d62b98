CONSTANTS
  ChallengeId = {v1, v2, v3}
  c1 = c1
  c2 = c2
  CallId = {c1, c2}
  Ops = {"start", "finish", "consume", "resend", "cancel"}
  Ttl = 2
  Cooldown = 1
  MaxTime = 2
  None = None
SYMMETRY CallSymmetry
SPECIFICATION Spec
CHECK_DEADLOCK FALSE
INVARIANTS
  TypeOK
  OneReplacement
