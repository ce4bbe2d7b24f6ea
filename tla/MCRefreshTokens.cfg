CONSTANTS
  d1 = d1
  d2 = d2
  a = a
  b = b
  c = c
  e = e
  f1 = f1
  f2 = f2
  r1 = r1
  r2 = r2
  Nothing = Nothing
  Devices = {d1, d2}
  Tokens = {a, b, c, e}
  Families = {f1, f2}
  Requests = {r1, r2}
  MaxVersion = 2
  Overlap = FALSE
SPECIFICATION Spec
SYMMETRY Symmetry
INVARIANT OneLivePerFamily
INVARIANT EndedStaysEnded
INVARIANT SessionKept
INVARIANT ResetEndsSessions
