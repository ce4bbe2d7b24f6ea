CONSTANTS
  a1 = a1
  a2 = a2
  c1 = c1
  r1 = r1
  r2 = r2
  None = None
  Admins = {a1, a2}
  Customers = {c1}
  Requests = {r1, r2}
SPECIFICATION Spec
INVARIANT SomeAdminIsActive
