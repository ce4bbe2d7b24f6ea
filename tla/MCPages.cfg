CONSTANTS
  c1 = c1
  c2 = c2
  a = a
  b = b
  j1 = j1
  s1 = s1
  s2 = s2
  t1 = t1
  t2 = t2
  Nowhere = Nowhere
  TN = TN
  KL = KL
  Items = {1, 2}
  Hits = {1}
  PageSize = 1
  States = {TN, KL}
  Calls = {c1, c2}
  Questions = {1, 2}
  MaxCodes = 2
  MaxLoads = 4
  MaxWrites = 2
  Jobs = {j1}
  Reports = {a, b}
  Spots = {s1, s2}
  Cities = {t1, t2}
  MaxAsked = 2
SPECIFICATION Spec
SYMMETRY Symmetry
CHECK_DEADLOCK FALSE
INVARIANT CodesReachTheAdmin
INVARIANT JobIsWatched
INVARIANT ReloadKeepsLocation
INVARIANT AnswersToTheQuestion
INVARIANT TicksAreKept
INVARIANT RedirectsEnd
INVARIANT ListedWhereItIs
INVARIANT GenuineIsOffSale
