CONSTANTS
  UserId = {u1, u2}
  IdentityId = {i1, i2, i3}
  CredentialId = {}
  SessionId = {s1, s2, s3}
  k1 = k1
  k2 = k2
  e1 = e1
  e2 = e2
  ProviderKey = {k1, k2}
  Email = {e1}
  Phone = {p1}
  AssertedKey = {k1, k2, e1}
  AutoLinkAnswers = {TRUE, FALSE}
SYMMETRY ProviderSymmetry
SPECIFICATION Spec
CHECK_DEADLOCK FALSE
PROPERTY AutoLinkIsUnambiguous
