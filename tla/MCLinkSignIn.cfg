CONSTANTS
  Call = {c1, c2, c3}
  LinkId = {l1, l2}
  User = {u1, u2}
  LinkKey = {mail}
  Key = {mail, phone}
  Ttl = 2
  Cooldown = 1
  MaxTime = 1
  None = None
SPECIFICATION Spec
CHECK_DEADLOCK FALSE
INVARIANTS
  TypeOK
  OneIdentityPerKey
  NeverLockedOut
  SignedInByOwnLink
  OneSessionPerLink
PROPERTY
  ImplementsAtomic
SYMMETRY CallSymmetry
