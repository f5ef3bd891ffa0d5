SPECIFICATION Spec
CONSTANTS
  x1 = x1
  j1 = j1
  j2 = j2
  c1 = c1
  c2 = c2
  None = None
  Repos = {x1}
  Jobs = {j1}
  Clients = {c1}
  MaxPush = 1
INVARIANTS JobRunsOnce
