SPECIFICATION Spec
CONSTANTS
  Tokens = {t1, t2, t3}
  Requests = {h1}
  Creds = {v1}
  MaxConsecutiveErrors = 1
  Transient = 1
  Cooldown = 1
  AuthCooldown = 1
  Quota = 1
  MaxQuota = 1
  RetryAfters = {0}
  ErrorCap = 1
PROPERTIES
  NextInRotation
CHECK_DEADLOCK FALSE
