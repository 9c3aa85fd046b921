SPECIFICATION Spec
CONSTANTS
  w = w
  v = v
  d = d
  p = p
  q = q
  Targets = {w, v, d}
  EngineOf <- Engine3
  Feature = {v}
  Prints = {p, q}
  SeverityOf <- SeverityPQ
  CategoryOf <- CategoryPQ
  GroupOf <- GroupPQ
  Slow = {v}
  Ops = {"scan", "fix"}
  MaxOps = 3
INVARIANT OpenIsInSarif
CHECK_DEADLOCK FALSE
