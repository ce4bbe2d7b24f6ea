CONSTANTS
  v1 = v1
  v2 = v2
  a1 = a1
  a2 = a2
  c1 = c1
  c2 = c2
  e1 = e1
  e2 = e2
  net = net
  l1 = l1
  l2 = l2
  t1 = t1
  h1 = h1
  h2 = h2
  r1 = r1
  r2 = r2
  r3 = r3
  None = None
  Visits = {v1, v2}
  Answers = {a1, a2}
  Codes = {c1, c2}
  Emails = {e1, e2}
  Addresses = {net}
  Logins = {l1, l2}
  Tokens = {t1}
  Handlers = {h1, h2}
  Askers = {r1, r2, r3}
  MaxAttempts = 2
  Window = 2
  Life = 2
  Held = 2
  Horizon = 4
SPECIFICATION Spec
SYMMETRY Symmetry
CHECK_DEADLOCK FALSE
INVARIANT RecoveryCodeOnce
INVARIANT EnabledHasCodes
INVARIANT AttemptLimit
INVARIANT SignedOutIsRefused
INVARIANT LinkedPasswordIsOwned
PROPERTY LocksAreEarned
