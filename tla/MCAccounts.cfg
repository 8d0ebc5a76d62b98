CONSTANTS
  UserId = {u1, u2, u3}
  IdentityId = {i1, i2, i3}
  CredentialId = {c1, c2}
  SessionId = {s1, s2, s3}
  k1 = k1
  k2 = k2
  e1 = e1
  e2 = e2
  ProviderKey = {k1}
  Email = {e1, e2}
  Phone = {}
  AssertedKey = {k1, e1}
  AutoLinkAnswers = {TRUE, FALSE}
SPECIFICATION Spec
CHECK_DEADLOCK FALSE
INVARIANTS
  TypeOK
  IndexesAgree
  NeverLockedOut
  EndedAccountHasNoSession
  PasswordFollowsIdentity
  RetryOnlyAfterMerge
  MergedAccountIsEmpty
PROPERTIES
  AccountsEndWhole
  ImplementsOwnership
