SPECIFICATION Spec
CONSTANTS
  Workers = {w1}
  Clients = {c1, c2}
  Requests = {r1, r2, r3, r4, r5, r6}
  Limit = 2
  Period = 3
  MaxTime = 7
SYMMETRY Symmetry
INVARIANT WorkerCap
PROPERTY RefusedOnlyWhenFull
CHECK_DEADLOCK FALSE
