SPECIFICATION Spec
CONSTANTS
  Tokens = {t1}
  Requests = {h1, h2}
  Creds = {v1, v2}
  MaxConsecutiveErrors = 3
  Transient = 1
  Cooldown = 1
  AuthCooldown = 2
  Quota = 1
  MaxQuota = 2
  RetryAfters = {0, 2}
  ErrorCap = 3
SYMMETRY Symmetric
INVARIANTS
  TypeOK
  CachedClientCurrent
  NothingKeptForDeleted
  StatusMatchesDeadline
CHECK_DEADLOCK FALSE
