CONSTANTS
  u1 = u1
  s1 = s1
  s2 = s2
  User = {u1}
  SessionId = {s1, s2}
  ChallengeId = {v1, v2}
  Target = {a, b}
  UserOf <- MCUserOf
  SessionEnd <- MCSessionEnd
  RequireReAuthFor = {"updateContact", "closeAccount"}
  MaxAge = 1
  MaxMarkers = 1
  Ttl = 2
  Cooldown = 1
  PublicPurposes = {"reAuth"}
  Applications <- MCApplications
  MaxTime = 2
  MaxCalls <- MCMaxCalls
  MaxIssued = 2
  None = None
SPECIFICATION Spec
CHECK_DEADLOCK FALSE
INVARIANTS
  TypeOK
  ContactWasProven
  ContactChangeIsReAuthenticated
  OneMarkerPerCode
  NewestMarkersKept
  RecoveredByOwnLink
  ResendKeepsClaim
PROPERTIES
  RevocationIsImmediate
  CloseIsReAuthenticated
SYMMETRY TargetSymmetry
