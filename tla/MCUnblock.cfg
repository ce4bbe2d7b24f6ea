CONSTANTS
  h1 = h1
  Handlers = {h1}
  LastDay = 1
  Keep = Keep
SPECIFICATION Spec
INVARIANT BlockedStaysBlocked
CHECK_DEADLOCK FALSE
