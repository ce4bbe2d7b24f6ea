CONSTANTS
  a = a
  b = b
  p = p
  h1 = h1
  h2 = h2
  c1 = c1
  c2 = c2
  q1 = q1
  q2 = q2
  q3 = q3
  q4 = q4
  r1 = r1
  r2 = r2
  Nothing = Nothing
  Reports = {a, b}
  Periods = {p}
  Handlers = {h1, h2}
  Conns = {c1, c2}
  Requests = {q1, q2, q3, q4}
  Readers = {q1, q2}
  QueueLimit = 2
  Runners = {r1, r2}
  MaxRuns = 3
SPECIFICATION FairSpec
CHECK_DEADLOCK FALSE
INVARIANT ReadyCanBeRead
INVARIANT PlaintextGoes
INVARIANT RefusalIsTrue
INVARIANT PoolAccounted
INVARIANT RerunIsSafe
PROPERTY EveryReportSettles
PROPERTY RequestsEndOrExhaust
