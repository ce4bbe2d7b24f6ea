CONSTANTS
  r1 = r1
  r2 = r2
  Boot = Boot
  Requests = {r1, r2}
  MaxIssued = 3
SPECIFICATION FairSpec
INVARIANT NobodyForgotten
INVARIANT NoSelfReuse
PROPERTY EveryCallSettles
